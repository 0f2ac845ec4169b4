-------------------------- MODULE LearnSessionProofs --------------------------
(***************************************************************************)
(* Proofs about LearnSession for any number of requests, references,       *)
(* approvals, failures and deaths: the result of a request holds, what is  *)
(* put up for decision rests on evidence in force, a decision is kept and  *)
(* a direction is approved once.                                           *)
(***************************************************************************)
EXTENDS LearnSession, FiniteSetTheorems, TLAPS

Processes == Requests \union Approvers
Artifacts == [status : {"READY", "ANALYZED"}, dna : Scans \union {None}]

\* What is on disk keeps its type.
Typed ==
    /\ status \in [References -> {"READY", "ANALYZED"}]
    /\ dna \in [References -> Scans \union {None}]
    /\ session \in [Requests -> Record]
    /\ claim \in [Evolves -> {None} \union [owner : Approvers, record : Record]]
    /\ drafts \in SUBSET [session : Evolves, by : Approvers]
    /\ evidence \in 0 .. MaxEvidence
    /\ faults \in Nat

\* What the processes keep in memory, too.
Kept ==
    /\ pc = [p \in Processes |-> pc[p]] /\ kept = [p \in Processes |-> kept[p]]
    /\ \A s \in Scans : pc[s] \in Committing => kept[s] \in Artifacts
    /\ \A e \in Evolves : pc[e] # "idle" => kept[e] \in 0 .. evidence
    /\ \A a \in Approvers : pc[a] # "idle" => kept[a] \in [session : Evolves, record : Record]
    /\ answeredAt \in [Evolves -> 0 .. evidence]

\* Where a request stands, its session stands; whoever has ended says so.
Follows(p) ==
    /\ pc[p] \in {"idle", "analyses", "draft"} => session[p].status = "NONE"
    /\ pc[p] = "begin" => session[p].status = "DRAFT"
    /\ pc[p] = "catch" => session[p].status # "NONE"
    /\ pc[p] \in {"agent", "recheck", "check", "commit", "original", "dna", "reference",
                  "body", "undoDNA", "undoReference"} => session[p].status = "ANALYZING"
    /\ pc[p] \in {"await", "head"} => session[p].status = "RESULT_READY"
    /\ session[p].status \in {"AWAITING_DECISION", "APPROVED"} => pc[p] = "done" /\ p \in Evolves
    /\ session[p].status \notin {"REVISE", "REJECT"}
    /\ ~Approved(session[p]) => session[p].chosen = None
FollowsAll == \A p \in Requests : Follows(p)

\* The evidence a session names is what its request has read, and until the
\* answer was checked the answer may only be newer.
Founded(e) ==
    /\ session[e].status # "NONE" => session[e].evidence = kept[e]
    /\ pc[e] = "recheck" => kept[e] <= answeredAt[e]
    /\ pc[e] \in {"commit", "await"} => answeredAt[e] = kept[e]
    /\ Result(session[e]) \/ Approved(session[e]) => answeredAt[e] = kept[e]
FoundedAll == \A e \in Evolves : Founded(e)

\* What an approver works on is the one record that was put up for decision.
Proposed(r) == [r EXCEPT !.status = "AWAITING_DECISION", !.chosen = None]
Read(a) ==
    pc[a] # "idle" =>
        /\ session[kept[a].session].status \in {"AWAITING_DECISION", "APPROVED"}
        /\ kept[a].record = Proposed(session[kept[a].session])
ReadAll == \A a \in Approvers : Read(a)

\* Unless a lease expired, the claim is held by who has read the session
\* under it, as long as the session is what was read.
Holds(a) ==
    LET e == kept[a].session
        mine == [owner |-> a, record |-> kept[a].record]
    IN  /\ pc[a] = "pair" => session[e] = kept[a].record
        /\ pc[a] \in {"reread", "pair"} /\ session[e] = kept[a].record => claim[e] = mine
HoldsAll == evicted = {} => \A a \in Approvers : Holds(a)

\* Drafts and approved sessions correspond one to one.
Paired ==
    /\ IsFiniteSet(drafts)
    /\ evicted = {} =>
         /\ \A d \in drafts : Approved(session[d.session]) /\ session[d.session].chosen = d.by
         /\ \A e \in Evolves : Approved(session[e]) =>
               [session |-> e, by |-> session[e].chosen] \in drafts

\* A reference that is not torn is committed by one SCAN at a time ...
Alone ==
    \A s, t \in Scans :
        s # t /\ Target[s] = Target[t] /\ pc[s] \in Committing /\ pc[t] \in Committing
            => Target[s] \in torn

Backed(r) == \E s \in Scans : Target[s] = r /\ session[s].status = "RESULT_READY"

\* ... which knows what it has replaced, and can restore it.
Restorable(s) ==
    LET r == Target[s] IN
    /\ pc[s] \in {"original", "dna", "reference"} => kept[s].status = status[r]
    /\ pc[s] = "dna" => kept[s].dna = dna[r]
    /\ pc[s] \in {"reference", "body"} => dna[r] = s
    /\ pc[s] = "body" => status[r] = "ANALYZED"
    /\ pc[s] \in {"reference", "body"} \union Undoing =>
         /\ kept[s].status = "ANALYZED" => kept[s].dna # None
         /\ Backed(r) => kept[s].status = "ANALYZED"
    /\ pc[s] = "undoDNA" => dna[r] \in {kept[s].dna, s} /\ status[r] \in {kept[s].status, "ANALYZED"}
    /\ pc[s] = "undoReference" => dna[r] = kept[s].dna /\ status[r] \in {kept[s].status, "ANALYZED"}
RestorableAll == \A s \in Scans : Target[s] \notin torn => Restorable(s)

\* Who ended without a result says so, or is an analysis ...
ToldOf(p) ==
    pc[p] = "done" /\ session[p].status = "ANALYZING"
        => session[p].error \/ p \in lost \/ p \in Analyses
Spoken == \A p \in Requests : ToldOf(p)

\* ... which has found the Design DNA of its reference, so that only a SCAN
\* that failed can have taken it away.
Grounded(n) ==
    pc[n] = "draft" \/ session[n].status # "NONE"
        => HasAnalysis(Target[n]) \/ Abandoned(Target[n])
Excused(n) ==
    pc[n] = "done" /\ session[n].status = "ANALYZING"
        => session[n].error \/ n \in lost \/ Abandoned(Target[n])
Bereft == \A n \in Analyses : Grounded(n) /\ Excused(n)

LearnInv ==
    /\ Typed /\ Kept /\ FollowsAll /\ Spoken /\ Bereft
    /\ FoundedAll
    /\ ReadAll /\ HoldsAll /\ Paired
    /\ Alone /\ RestorableAll /\ AnalyzedHasDNA /\ ResultBacked


-----------------------------------------------------------------------------
(* Steps of a request.                                                      *)

\* A process that takes a step leaves the step of every other alone.
LEMMA Stepping ==
    ASSUME NEW p \in Processes, NEW l, pc = [q \in Processes |-> pc[q]], Goto(p, l)
    PROVE  /\ pc'[p] = l
           /\ \A q \in Processes \ {p} : pc'[q] = pc[q]
           /\ pc' = [q \in Processes |-> pc'[q]]
    BY DEF Goto

\* A save is seen in the session of the request alone.
LEMMA Saving ==
    ASSUME NEW p \in Requests, NEW s \in Record, session \in [Requests -> Record],
           faults \in Nat, Saved(p, s) \/ Unsure(p, s)
    PROVE  /\ session'[p] \in {session[p], s}
           /\ Saved(p, s) => session'[p] = s
           /\ \A q \in Requests \ {p} : session'[q] = session[q]
           /\ session' \in [Requests -> Record]
           /\ faults' \in Nat
    BY DEF Saved, Unsure, Fault

\* The statuses the table names.
LEMMA Statuses == DOMAIN learnSessionTransitions =
        {"DRAFT", "ANALYZING", "RESULT_READY", "AWAITING_DECISION", "APPROVED", "REVISE", "REJECT"}
    BY DEF learnSessionTransitions

\* The records the requests save.
LEMMA SavedRecords ==
    ASSUME NEW p \in Requests, session \in [Requests -> Record]
    PROVE  /\ Analyzing(p) \in Record /\ Analyzing(p).status = "ANALYZING"
           /\ Ready(p) \in Record /\ Ready(p).status = "RESULT_READY"
           /\ Awaiting(p) \in Record /\ Awaiting(p).status = "AWAITING_DECISION"
           /\ Failed(p) \in Record /\ Failed(p).status = "ANALYZING" /\ Failed(p).error
           /\ \A s \in {Analyzing(p), Ready(p), Awaiting(p), Failed(p)} :
                 s.chosen = session[p].chosen /\ s.evidence = session[p].evidence
  <1>1. session[p] \in Record
    OBVIOUS
  <1>2. {"ANALYZING", "RESULT_READY", "AWAITING_DECISION"} \subseteq DOMAIN learnSessionTransitions
    BY Statuses
  <1>3. /\ Analyzing(p) \in Record /\ Analyzing(p).status = "ANALYZING"
        /\ Analyzing(p).chosen = session[p].chosen
        /\ Analyzing(p).evidence = session[p].evidence
    BY <1>1, <1>2 DEF Analyzing, Record
  <1>4. /\ Ready(p) \in Record /\ Ready(p).status = "RESULT_READY"
        /\ Ready(p).chosen = session[p].chosen /\ Ready(p).evidence = session[p].evidence
    BY <1>1, <1>2 DEF Ready, Record
  <1>5. /\ Awaiting(p) \in Record /\ Awaiting(p).status = "AWAITING_DECISION"
        /\ Awaiting(p).chosen = session[p].chosen /\ Awaiting(p).evidence = session[p].evidence
    BY <1>1, <1>2 DEF Awaiting, Record
  <1>6. /\ Failed(p) \in Record /\ Failed(p).status = "ANALYZING" /\ Failed(p).error
        /\ Failed(p).chosen = session[p].chosen /\ Failed(p).evidence = session[p].evidence
    BY <1>1, <1>2 DEF Failed, Record
  <1> QED BY <1>3, <1>4, <1>5, <1>6

\* The record of a new session.
LEMMA DraftRecord ==
    ASSUME NEW p \in Requests, Kept, evidence \in 0 .. MaxEvidence, pc[p] # "idle"
    PROVE  /\ Draft(p) \in Record /\ Draft(p).status = "DRAFT" /\ Draft(p).chosen = None
           /\ p \in Evolves => Draft(p).evidence = kept[p]
  <1> DEFINE named == IF p \in Evolves THEN kept[p] ELSE 0
  <1>1. named \in 0 .. MaxEvidence
    BY RequestsAssumption DEF Kept
  <1>2. NoSession \in Record /\ NoSession.chosen = None
    BY RequestsAssumption DEF NoSession, Record
  <1>3. Draft(p) = [NoSession EXCEPT !.status = "DRAFT", !.evidence = named]
    BY DEF Draft
  <1> HIDE DEF named
  <1>4. /\ Draft(p) \in Record
        /\ Draft(p).status = "DRAFT"
        /\ Draft(p).chosen = None
        /\ Draft(p).evidence = named
    BY <1>1, <1>2, <1>3, Statuses DEF Record
  <1> QED BY <1>4 DEF named

\* Types, and where the requests stand.
Shape == Typed /\ Kept /\ FollowsAll /\ Spoken

\* What a request has read keeps its type, and so does what it writes.
Remembers(p) ==
    /\ status \in [References -> {"READY", "ANALYZED"}]
    /\ dna \in [References -> Scans \union {None}]
    /\ answeredAt \in [Evolves -> 0 .. evidence]
    /\ p \in Scans /\ pc[p] \in Committing => kept[p] \in Artifacts
    /\ p \in Evolves /\ pc[p] # "idle" => kept[p] \in 0 .. evidence

\* A result is taken back by the request whose own commit reported a failure.
TakenBack(p) ==
    session[p].status = "RESULT_READY" /\ session'[p].status # "RESULT_READY"
        => session'[p].status = "AWAITING_DECISION" \/ pc[p] = "catch"

\* What every step of a request does to what the approvers share with it, and
\* to its own session.
Moves(p) ==
    /\ pc[p] \notin {"done", "dead"}
    /\ pc'[p] # "idle"
    /\ \A q \in Processes \ {p} : pc'[q] = pc[q] /\ kept'[q] = kept[q]
    /\ \A q \in Requests \ {p} : session'[q] = session[q]
    /\ session' \in [Requests -> Record]
    /\ pc' = [q \in Processes |-> pc'[q]] /\ kept' = [q \in Processes |-> kept'[q]]
    /\ faults' \in Nat
    /\ lost \subseteq lost'
    /\ UNCHANGED <<approvals, evidence, evicted>>
    /\ Remembers(p)' /\ Follows(p)' /\ ToldOf(p)' /\ TakenBack(p)
    /\ ~Approved(session'[p])

\* A SCAN starts.
LEMMA StartScanMoves ==
    ASSUME Shape, NEW p \in Scans, StartScan(p)
    PROVE  Moves(p)
  <1>1. p \in Processes /\ p \in Requests
    BY DEF Processes, Requests
  <1>2. /\ pc[p] = "idle" /\ pc'[p] \in {"draft"}
        /\ \A q \in Processes \ {p} : pc'[q] = pc[q]
        /\ pc' = [q \in Processes |-> pc'[q]]
    BY <1>1, Stepping DEF Shape, Kept, StartScan, At
  <1>3. UNCHANGED <<drafts, claim, evidence, evicted>> /\ lost \subseteq lost'
    BY DEF StartScan, approvals, history
  <1>5. session' = session /\ session' \in [Requests -> Record] /\ faults' \in Nat
    BY DEF Shape, Typed, StartScan
  <1>6. /\ \A q \in Processes \ {p} : kept'[q] = kept[q]
        /\ kept' = [q \in Processes |-> kept'[q]]
    BY <1>1 DEF Shape, Kept, StartScan
  <1>7. Follows(p)
    BY <1>1 DEF Shape, FollowsAll
  <1>9. Follows(p)' /\ ToldOf(p)' /\ TakenBack(p) /\ ~Approved(session'[p])
    BY <1>1, <1>2, <1>5, <1>7 DEF Follows, ToldOf, TakenBack, Approved
  <1>10. Remembers(p)'
    <2>1. UNCHANGED <<status, dna, kept, answeredAt>>
        BY DEF StartScan, artifacts, history
    <2> QED BY <1>1, <1>2, <1>3, <2>1, RequestsAssumption
        DEF Remembers, Shape, Typed, Kept, Committing
  <1> QED BY <1>1, <1>2, <1>3, <1>5, <1>6, <1>9, <1>10 DEF Moves, approvals

\* An EVOLVE starts with the evidence in force.
LEMMA StartEvolveMoves ==
    ASSUME Shape, NEW p \in Evolves, StartEvolve(p)
    PROVE  Moves(p)
  <1>1. p \in Processes /\ p \in Requests
    BY DEF Processes, Requests
  <1>2. /\ pc[p] = "idle" /\ pc'[p] \in {"analyses", "done"}
        /\ \A q \in Processes \ {p} : pc'[q] = pc[q]
        /\ pc' = [q \in Processes |-> pc'[q]]
    BY <1>1, Stepping DEF Shape, Kept, StartEvolve, At
  <1>3. UNCHANGED <<drafts, claim, evidence, evicted>> /\ lost \subseteq lost'
    BY DEF StartEvolve, approvals, history
  <1>5. session' = session /\ session' \in [Requests -> Record] /\ faults' \in Nat
    BY DEF Shape, Typed, StartEvolve
  <1>6. /\ \A q \in Processes \ {p} : kept'[q] = kept[q]
        /\ kept' = [q \in Processes |-> kept'[q]]
    BY <1>1 DEF Shape, Kept, StartEvolve
  <1>7. Follows(p)
    BY <1>1 DEF Shape, FollowsAll
  <1>9. Follows(p)' /\ ToldOf(p)' /\ TakenBack(p) /\ ~Approved(session'[p])
    BY <1>1, <1>2, <1>5, <1>7 DEF Follows, ToldOf, TakenBack, Approved
  <1>10. Remembers(p)'
    <2>1. UNCHANGED <<status, dna, answeredAt>> /\ kept'[p] = evidence
        BY <1>1 DEF StartEvolve, artifacts, history, Shape, Kept
    <2> QED BY <1>1, <1>2, <1>3, <2>1, RequestsAssumption
        DEF Remembers, Shape, Typed, Kept, Committing
  <1> QED BY <1>1, <1>2, <1>3, <1>5, <1>6, <1>9, <1>10 DEF Moves, approvals

\* An EVOLVE loads its Design DNA.
LEMMA LoadAnalysesMoves ==
    ASSUME Shape, NEW p \in Evolves, LoadAnalyses(p)
    PROVE  Moves(p)
  <1>1. p \in Processes /\ p \in Requests
    BY DEF Processes, Requests
  <1>2. /\ pc[p] = "analyses" /\ pc'[p] \in {"draft", "done"}
        /\ \A q \in Processes \ {p} : pc'[q] = pc[q]
        /\ pc' = [q \in Processes |-> pc'[q]]
    BY <1>1, Stepping DEF Shape, Kept, LoadAnalyses, At
  <1>3. UNCHANGED <<drafts, claim, evidence, evicted>> /\ lost \subseteq lost'
    BY DEF LoadAnalyses, approvals, history
  <1>5. session' = session /\ session' \in [Requests -> Record] /\ faults' \in Nat
    BY DEF Shape, Typed, LoadAnalyses
  <1>6. /\ \A q \in Processes \ {p} : kept'[q] = kept[q]
        /\ kept' = [q \in Processes |-> kept'[q]]
    BY <1>1 DEF Shape, Kept, LoadAnalyses
  <1>7. Follows(p)
    BY <1>1 DEF Shape, FollowsAll
  <1>9. Follows(p)' /\ ToldOf(p)' /\ TakenBack(p) /\ ~Approved(session'[p])
    BY <1>1, <1>2, <1>5, <1>7 DEF Follows, ToldOf, TakenBack, Approved
  <1>10. Remembers(p)'
    <2>1. UNCHANGED <<status, dna, kept, answeredAt>>
        BY DEF LoadAnalyses, artifacts, history
    <2> QED BY <1>1, <1>2, <1>3, <2>1, RequestsAssumption
        DEF Remembers, Shape, Typed, Kept, Committing
  <1> QED BY <1>1, <1>2, <1>3, <1>5, <1>6, <1>9, <1>10 DEF Moves, approvals

\* A read-only request starts.
LEMMA StartAnalysisMoves ==
    ASSUME Shape, NEW p \in Analyses, StartAnalysis(p)
    PROVE  Moves(p)
  <1>1. p \in Processes /\ p \in Requests
    BY DEF Processes, Requests
  <1>2. /\ pc[p] = "idle" /\ pc'[p] \in {"draft", "done"}
        /\ \A q \in Processes \ {p} : pc'[q] = pc[q]
        /\ pc' = [q \in Processes |-> pc'[q]]
    BY <1>1, Stepping DEF Shape, Kept, StartAnalysis, At
  <1>3. UNCHANGED <<drafts, claim, evidence, evicted>> /\ lost \subseteq lost'
    BY DEF StartAnalysis, approvals, history
  <1>5. session' = session /\ session' \in [Requests -> Record] /\ faults' \in Nat
    BY DEF Shape, Typed, StartAnalysis
  <1>6. /\ \A q \in Processes \ {p} : kept'[q] = kept[q]
        /\ kept' = [q \in Processes |-> kept'[q]]
    BY <1>1 DEF Shape, Kept, StartAnalysis
  <1>7. Follows(p)
    BY <1>1 DEF Shape, FollowsAll
  <1>9. Follows(p)' /\ ToldOf(p)' /\ TakenBack(p) /\ ~Approved(session'[p])
    BY <1>1, <1>2, <1>5, <1>7 DEF Follows, ToldOf, TakenBack, Approved
  <1>10. Remembers(p)'
    <2>1. UNCHANGED <<status, dna, kept, answeredAt>>
        BY DEF StartAnalysis, artifacts, history
    <2> QED BY <1>1, <1>2, <1>3, <2>1, RequestsAssumption
        DEF Remembers, Shape, Typed, Kept, Committing
  <1> QED BY <1>1, <1>2, <1>3, <1>5, <1>6, <1>9, <1>10 DEF Moves, approvals

\* The DRAFT is saved.
LEMMA SaveDraftMoves ==
    ASSUME Shape, NEW p \in Requests, SaveDraft(p)
    PROVE  Moves(p)
  <1>1. p \in Processes /\ p \in Requests
    BY DEF Processes, Requests
  <1>2. /\ pc[p] = "draft" /\ pc'[p] \in {"begin", "done"}
        /\ \A q \in Processes \ {p} : pc'[q] = pc[q]
        /\ pc' = [q \in Processes |-> pc'[q]]
    BY <1>1, Stepping DEF Shape, Kept, SaveDraft, At
  <1>3. UNCHANGED <<drafts, claim, evidence, evicted>> /\ lost \subseteq lost'
    BY DEF SaveDraft, approvals, history
  <1>4. Draft(p) \in Record /\ Draft(p).status = "DRAFT" /\ Draft(p).chosen = None
    BY <1>1, <1>2, DraftRecord DEF Shape, Typed
  <1>5. /\ session'[p] \in {session[p], Draft(p)}
        /\ \A q \in Requests \ {p} : session'[q] = session[q]
        /\ session' \in [Requests -> Record]
        /\ faults' \in Nat
    BY <1>1, <1>4, Saving DEF Shape, Typed, SaveDraft, Saved
  <1>6. /\ \A q \in Processes \ {p} : kept'[q] = kept[q]
        /\ kept' = [q \in Processes |-> kept'[q]]
    BY <1>1 DEF Shape, Kept, SaveDraft
  <1>7. Follows(p)
    BY <1>1 DEF Shape, FollowsAll
  <1>8. pc'[p] = "begin" => session'[p] = Draft(p)
    BY <1>1, <1>2, Stepping DEF Shape, Typed, Kept, SaveDraft, Saved
  <1>9. Follows(p)' /\ ToldOf(p)' /\ TakenBack(p) /\ ~Approved(session'[p])
    BY <1>1, <1>2, <1>4, <1>5, <1>7, <1>8 DEF Follows, ToldOf, TakenBack, Approved
  <1>10. Remembers(p)'
    <2>1. UNCHANGED <<status, dna, kept, answeredAt>>
        BY DEF SaveDraft, artifacts, history
    <2> QED BY <1>1, <1>2, <1>3, <2>1, RequestsAssumption
        DEF Remembers, Shape, Typed, Kept, Committing
  <1> QED BY <1>1, <1>2, <1>3, <1>5, <1>6, <1>9, <1>10 DEF Moves, approvals

\* DRAFT becomes ANALYZING.
LEMMA BeginMoves ==
    ASSUME Shape, NEW p \in Requests, Begin(p)
    PROVE  Moves(p)
  <1>1. p \in Processes /\ p \in Requests
    BY DEF Processes, Requests
  <1>2. /\ pc[p] = "begin" /\ pc'[p] \in {"agent", "done", "catch"}
        /\ \A q \in Processes \ {p} : pc'[q] = pc[q]
        /\ pc' = [q \in Processes |-> pc'[q]]
    BY <1>1, Stepping DEF Shape, Kept, Begin, At, OnRefusedBegin
  <1>3. UNCHANGED <<drafts, claim, evidence, evicted>> /\ lost \subseteq lost'
    BY DEF Begin, approvals, history
  <1>4. /\ Analyzing(p) \in Record /\ Analyzing(p).status = "ANALYZING"
        /\ Analyzing(p).chosen = session[p].chosen
    BY <1>1, SavedRecords DEF Shape, Typed
  <1>5. /\ session'[p] \in {session[p], Analyzing(p)}
        /\ \A q \in Requests \ {p} : session'[q] = session[q]
        /\ session' \in [Requests -> Record]
        /\ faults' \in Nat
    BY <1>1, <1>4, Saving DEF Shape, Typed, Begin, Saved
  <1>6. /\ \A q \in Processes \ {p} : kept'[q] = kept[q]
        /\ kept' = [q \in Processes |-> kept'[q]]
    BY <1>1 DEF Shape, Kept, Begin
  <1>7. Follows(p)
    BY <1>1 DEF Shape, FollowsAll
  <1>8. /\ pc'[p] = "agent" => session'[p] = Analyzing(p)
        /\ pc'[p] = "done" => session'[p] = session[p] \/ p \in lost'
    BY <1>1, <1>2, Stepping
    DEF Shape, Typed, Kept, Begin, Saved, OnRefusedBegin, UnrecordedBegin
  <1>9. Follows(p)' /\ ToldOf(p)' /\ TakenBack(p) /\ ~Approved(session'[p])
    BY <1>1, <1>2, <1>4, <1>5, <1>7, <1>8 DEF Follows, ToldOf, TakenBack, Approved
  <1>10. Remembers(p)'
    <2>1. UNCHANGED <<status, dna, kept, answeredAt>>
        BY DEF Begin, artifacts, history
    <2> QED BY <1>1, <1>2, <1>3, <2>1, RequestsAssumption
        DEF Remembers, Shape, Typed, Kept, Committing
  <1> QED BY <1>1, <1>2, <1>3, <1>5, <1>6, <1>9, <1>10 DEF Moves, approvals

\* The agent answers a SCAN.
LEMMA ScanAnswerMoves ==
    ASSUME Shape, NEW p \in Scans, ScanAnswer(p)
    PROVE  Moves(p)
  <1>1. p \in Processes /\ p \in Requests
    BY DEF Processes, Requests
  <1>2. /\ pc[p] = "agent" /\ pc'[p] \in {"check", "catch"}
        /\ \A q \in Processes \ {p} : pc'[q] = pc[q]
        /\ pc' = [q \in Processes |-> pc'[q]]
    BY <1>1, Stepping DEF Shape, Kept, ScanAnswer, At, Answer
  <1>3. UNCHANGED <<drafts, claim, evidence, evicted>> /\ lost \subseteq lost'
    BY DEF ScanAnswer, approvals, history, Answer
  <1>5. session' = session /\ session' \in [Requests -> Record] /\ faults' \in Nat
    BY DEF Shape, Typed, ScanAnswer, Answer
  <1>6. /\ \A q \in Processes \ {p} : kept'[q] = kept[q]
        /\ kept' = [q \in Processes |-> kept'[q]]
    BY <1>1 DEF Shape, Kept, ScanAnswer, Answer
  <1>7. Follows(p)
    BY <1>1 DEF Shape, FollowsAll
  <1>9. Follows(p)' /\ ToldOf(p)' /\ TakenBack(p) /\ ~Approved(session'[p])
    BY <1>1, <1>2, <1>5, <1>7 DEF Follows, ToldOf, TakenBack, Approved
  <1>10. Remembers(p)'
    <2>1. UNCHANGED <<status, dna, kept, answeredAt>>
        BY DEF ScanAnswer, artifacts, history, Answer
    <2> QED BY <1>1, <1>2, <1>3, <2>1, RequestsAssumption
        DEF Remembers, Shape, Typed, Kept, Committing
  <1> QED BY <1>1, <1>2, <1>3, <1>5, <1>6, <1>9, <1>10 DEF Moves, approvals

\* The agent answers a read-only request.
LEMMA AnalysisAnswerMoves ==
    ASSUME Shape, NEW p \in Analyses, AnalysisAnswer(p)
    PROVE  Moves(p)
  <1>1. p \in Processes /\ p \in Requests
    BY DEF Processes, Requests
  <1>2. /\ pc[p] = "agent" /\ pc'[p] \in {"commit", "catch"}
        /\ \A q \in Processes \ {p} : pc'[q] = pc[q]
        /\ pc' = [q \in Processes |-> pc'[q]]
    BY <1>1, Stepping DEF Shape, Kept, AnalysisAnswer, At, Answer
  <1>3. UNCHANGED <<drafts, claim, evidence, evicted>> /\ lost \subseteq lost'
    BY DEF AnalysisAnswer, approvals, history, Answer
  <1>5. session' = session /\ session' \in [Requests -> Record] /\ faults' \in Nat
    BY DEF Shape, Typed, AnalysisAnswer, Answer
  <1>6. /\ \A q \in Processes \ {p} : kept'[q] = kept[q]
        /\ kept' = [q \in Processes |-> kept'[q]]
    BY <1>1 DEF Shape, Kept, AnalysisAnswer, Answer
  <1>7. Follows(p)
    BY <1>1 DEF Shape, FollowsAll
  <1>9. Follows(p)' /\ ToldOf(p)' /\ TakenBack(p) /\ ~Approved(session'[p])
    BY <1>1, <1>2, <1>5, <1>7 DEF Follows, ToldOf, TakenBack, Approved
  <1>10. Remembers(p)'
    <2>1. UNCHANGED <<status, dna, kept, answeredAt>>
        BY DEF AnalysisAnswer, artifacts, history, Answer
    <2> QED BY <1>1, <1>2, <1>3, <2>1, RequestsAssumption
        DEF Remembers, Shape, Typed, Kept, Committing
  <1> QED BY <1>1, <1>2, <1>3, <1>5, <1>6, <1>9, <1>10 DEF Moves, approvals

\* The agent answers an EVOLVE.
LEMMA EvolveAnswerMoves ==
    ASSUME Shape, NEW p \in Evolves, EvolveAnswer(p)
    PROVE  Moves(p)
  <1>1. p \in Processes /\ p \in Requests
    BY DEF Processes, Requests
  <1>2. /\ pc[p] = "agent" /\ pc'[p] \in {"recheck", "catch"}
        /\ \A q \in Processes \ {p} : pc'[q] = pc[q]
        /\ pc' = [q \in Processes |-> pc'[q]]
    BY <1>1, Stepping DEF Shape, Kept, EvolveAnswer, At, Answer
  <1>3. UNCHANGED <<drafts, claim, evidence, evicted>> /\ lost \subseteq lost'
    BY DEF EvolveAnswer, approvals, history, Answer
  <1>5. session' = session /\ session' \in [Requests -> Record] /\ faults' \in Nat
    BY DEF Shape, Typed, EvolveAnswer, Answer
  <1>6. /\ \A q \in Processes \ {p} : kept'[q] = kept[q]
        /\ kept' = [q \in Processes |-> kept'[q]]
    BY <1>1 DEF Shape, Kept, EvolveAnswer, Answer
  <1>7. Follows(p)
    BY <1>1 DEF Shape, FollowsAll
  <1>9. Follows(p)' /\ ToldOf(p)' /\ TakenBack(p) /\ ~Approved(session'[p])
    BY <1>1, <1>2, <1>5, <1>7 DEF Follows, ToldOf, TakenBack, Approved
  <1>10. Remembers(p)'
    <2>1. UNCHANGED <<status, dna, kept>> /\ answeredAt' = [answeredAt EXCEPT ![p] = evidence]
        BY DEF EvolveAnswer, Answer, artifacts
    <2>2. evidence \in 0 .. evidence
        BY RequestsAssumption DEF Shape, Typed
    <2>3. answeredAt' \in [Evolves -> 0 .. evidence]
        BY <2>1, <2>2 DEF Shape, Kept
    <2> QED BY <1>1, <1>2, <1>3, <2>1, <2>3, RequestsAssumption
        DEF Remembers, Shape, Typed, Kept, Committing
  <1> QED BY <1>1, <1>2, <1>3, <1>5, <1>6, <1>9, <1>10 DEF Moves, approvals

\* The evidence is read again.
LEMMA RecheckMoves ==
    ASSUME Shape, NEW p \in Evolves, Recheck(p)
    PROVE  Moves(p)
  <1>1. p \in Processes /\ p \in Requests
    BY DEF Processes, Requests
  <1>2. /\ pc[p] = "recheck" /\ pc'[p] \in {"commit", "catch"}
        /\ \A q \in Processes \ {p} : pc'[q] = pc[q]
        /\ pc' = [q \in Processes |-> pc'[q]]
    BY <1>1, Stepping DEF Shape, Kept, Recheck, At
  <1>3. UNCHANGED <<drafts, claim, evidence, evicted>> /\ lost \subseteq lost'
    BY DEF Recheck, approvals, history
  <1>5. session' = session /\ session' \in [Requests -> Record] /\ faults' \in Nat
    BY DEF Shape, Typed, Recheck
  <1>6. /\ \A q \in Processes \ {p} : kept'[q] = kept[q]
        /\ kept' = [q \in Processes |-> kept'[q]]
    BY <1>1 DEF Shape, Kept, Recheck
  <1>7. Follows(p)
    BY <1>1 DEF Shape, FollowsAll
  <1>9. Follows(p)' /\ ToldOf(p)' /\ TakenBack(p) /\ ~Approved(session'[p])
    BY <1>1, <1>2, <1>5, <1>7 DEF Follows, ToldOf, TakenBack, Approved
  <1>10. Remembers(p)'
    <2>1. UNCHANGED <<status, dna, kept, answeredAt>>
        BY DEF Recheck, artifacts, history
    <2> QED BY <1>1, <1>2, <1>3, <2>1, RequestsAssumption
        DEF Remembers, Shape, Typed, Kept, Committing
  <1> QED BY <1>1, <1>2, <1>3, <1>5, <1>6, <1>9, <1>10 DEF Moves, approvals

\* The EVOLVE result is committed.
LEMMA CommitResultMoves ==
    ASSUME Shape, NEW p \in Evolves, CommitResult(p)
    PROVE  Moves(p)
  <1>1. p \in Processes /\ p \in Requests
    BY DEF Processes, Requests
  <1>2. /\ pc[p] = "commit" /\ pc'[p] \in {"await", "catch"}
        /\ \A q \in Processes \ {p} : pc'[q] = pc[q]
        /\ pc' = [q \in Processes |-> pc'[q]]
    BY <1>1, Stepping DEF Shape, Kept, CommitResult, At
  <1>3. UNCHANGED <<drafts, claim, evidence, evicted>> /\ lost \subseteq lost'
    BY DEF CommitResult, approvals, history
  <1>4. /\ Ready(p) \in Record /\ Ready(p).status = "RESULT_READY"
        /\ Ready(p).chosen = session[p].chosen
    BY <1>1, SavedRecords DEF Shape, Typed
  <1>5. /\ session'[p] \in {session[p], Ready(p)}
        /\ \A q \in Requests \ {p} : session'[q] = session[q]
        /\ session' \in [Requests -> Record]
        /\ faults' \in Nat
    BY <1>1, <1>4, Saving DEF Shape, Typed, CommitResult
  <1>6. /\ \A q \in Processes \ {p} : kept'[q] = kept[q]
        /\ kept' = [q \in Processes |-> kept'[q]]
    BY <1>1 DEF Shape, Kept, CommitResult
  <1>7. Follows(p)
    BY <1>1 DEF Shape, FollowsAll
  <1>8. pc'[p] = "await" => session'[p] = Ready(p)
    BY <1>1, <1>2, Stepping DEF Shape, Typed, Kept, CommitResult, Saved
  <1>9. Follows(p)' /\ ToldOf(p)' /\ TakenBack(p) /\ ~Approved(session'[p])
    BY <1>1, <1>2, <1>4, <1>5, <1>7, <1>8 DEF Follows, ToldOf, TakenBack, Approved
  <1>10. Remembers(p)'
    <2>1. UNCHANGED <<status, dna, kept, answeredAt>>
        BY DEF CommitResult, artifacts, history
    <2> QED BY <1>1, <1>2, <1>3, <2>1, RequestsAssumption
        DEF Remembers, Shape, Typed, Kept, Committing
  <1> QED BY <1>1, <1>2, <1>3, <1>5, <1>6, <1>9, <1>10 DEF Moves, approvals

\* The EVOLVE result is put up for decision.
LEMMA AwaitMoves ==
    ASSUME Shape, NEW p \in Evolves, Await(p)
    PROVE  Moves(p)
  <1>1. p \in Processes /\ p \in Requests
    BY DEF Processes, Requests
  <1>2. /\ pc[p] = "await" /\ pc'[p] \in {"done"}
        /\ \A q \in Processes \ {p} : pc'[q] = pc[q]
        /\ pc' = [q \in Processes |-> pc'[q]]
    BY <1>1, Stepping DEF Shape, Kept, Await, At, OnPersistedFailure
  <1>3. UNCHANGED <<drafts, claim, evidence, evicted>> /\ lost \subseteq lost'
    BY DEF Await, approvals, history
  <1>4. /\ Awaiting(p) \in Record /\ Awaiting(p).status = "AWAITING_DECISION"
        /\ Awaiting(p).chosen = session[p].chosen
    BY <1>1, SavedRecords DEF Shape, Typed
  <1>5. /\ session'[p] \in {session[p], Awaiting(p)}
        /\ \A q \in Requests \ {p} : session'[q] = session[q]
        /\ session' \in [Requests -> Record]
        /\ faults' \in Nat
    BY <1>1, <1>4, Saving DEF Shape, Typed, Await
  <1>6. /\ \A q \in Processes \ {p} : kept'[q] = kept[q]
        /\ kept' = [q \in Processes |-> kept'[q]]
    BY <1>1 DEF Shape, Kept, Await
  <1>7. Follows(p)
    BY <1>1 DEF Shape, FollowsAll
  <1>9. Follows(p)' /\ ToldOf(p)' /\ TakenBack(p) /\ ~Approved(session'[p])
    BY <1>1, <1>2, <1>4, <1>5, <1>7 DEF Follows, ToldOf, TakenBack, Approved
  <1>10. Remembers(p)'
    <2>1. UNCHANGED <<status, dna, kept, answeredAt>>
        BY DEF Await, artifacts, history
    <2> QED BY <1>1, <1>2, <1>3, <2>1, RequestsAssumption
        DEF Remembers, Shape, Typed, Kept, Committing
  <1> QED BY <1>1, <1>2, <1>3, <1>5, <1>6, <1>9, <1>10 DEF Moves, approvals

\* A read-only result is committed.
LEMMA CommitAnalysisMoves ==
    ASSUME Shape, NEW p \in Analyses, CommitAnalysis(p)
    PROVE  Moves(p)
  <1>1. p \in Processes /\ p \in Requests
    BY DEF Processes, Requests
  <1>2. /\ pc[p] = "commit" /\ pc'[p] \in {"done", "catch"}
        /\ \A q \in Processes \ {p} : pc'[q] = pc[q]
        /\ pc' = [q \in Processes |-> pc'[q]]
    BY <1>1, Stepping DEF Shape, Kept, CommitAnalysis, At
  <1>3. UNCHANGED <<drafts, claim, evidence, evicted>> /\ lost \subseteq lost'
    BY DEF CommitAnalysis, approvals, history
  <1>4. /\ Ready(p) \in Record /\ Ready(p).status = "RESULT_READY"
        /\ Ready(p).chosen = session[p].chosen
    BY <1>1, SavedRecords DEF Shape, Typed
  <1>5. /\ session'[p] \in {session[p], Ready(p)}
        /\ \A q \in Requests \ {p} : session'[q] = session[q]
        /\ session' \in [Requests -> Record]
        /\ faults' \in Nat
    BY <1>1, <1>4, Saving DEF Shape, Typed, CommitAnalysis, Saved
  <1>6. /\ \A q \in Processes \ {p} : kept'[q] = kept[q]
        /\ kept' = [q \in Processes |-> kept'[q]]
    BY <1>1 DEF Shape, Kept, CommitAnalysis
  <1>7. Follows(p)
    BY <1>1 DEF Shape, FollowsAll
  <1>8. pc'[p] = "done" => session'[p] = Ready(p)
    BY <1>1, <1>2, Stepping DEF Shape, Typed, Kept, CommitAnalysis, Saved
  <1>9. Follows(p)' /\ ToldOf(p)' /\ TakenBack(p) /\ ~Approved(session'[p])
    BY <1>1, <1>2, <1>4, <1>5, <1>7, <1>8 DEF Follows, ToldOf, TakenBack, Approved
  <1>10. Remembers(p)'
    <2>1. UNCHANGED <<status, dna, kept, answeredAt>>
        BY DEF CommitAnalysis, artifacts, history
    <2> QED BY <1>1, <1>2, <1>3, <2>1, RequestsAssumption
        DEF Remembers, Shape, Typed, Kept, Committing
  <1> QED BY <1>1, <1>2, <1>3, <1>5, <1>6, <1>9, <1>10 DEF Moves, approvals

\* The failure is recorded.
LEMMA CatchMoves ==
    ASSUME Shape, NEW p \in Requests, Catch(p)
    PROVE  Moves(p)
  <1>1. p \in Processes /\ p \in Requests
    BY DEF Processes, Requests
  <1>2. /\ pc[p] = "catch" /\ pc'[p] \in {"done"}
        /\ \A q \in Processes \ {p} : pc'[q] = pc[q]
        /\ pc' = [q \in Processes |-> pc'[q]]
    BY <1>1, Stepping DEF Shape, Kept, Catch, At
  <1>3. UNCHANGED <<drafts, claim, evidence, evicted>> /\ lost \subseteq lost'
    BY DEF Catch, approvals, history
  <1>4. /\ Failed(p) \in Record /\ Failed(p).status = "ANALYZING"
        /\ Failed(p).chosen = session[p].chosen  /\ Failed(p).error
    BY <1>1, SavedRecords DEF Shape, Typed
  <1>5. /\ session'[p] \in {session[p], Failed(p)}
        /\ \A q \in Requests \ {p} : session'[q] = session[q]
        /\ session' \in [Requests -> Record]
        /\ faults' \in Nat
    BY <1>1, <1>4, Saving DEF Shape, Typed, Catch
  <1>6. /\ \A q \in Processes \ {p} : kept'[q] = kept[q]
        /\ kept' = [q \in Processes |-> kept'[q]]
    BY <1>1 DEF Shape, Kept, Catch
  <1>7. Follows(p)
    BY <1>1 DEF Shape, FollowsAll
  <1>8. session'[p] = Failed(p) \/ p \in lost' \/ p \in Analyses
    BY <1>1, <1>2, Stepping DEF Shape, Typed, Kept, Catch, Saved, Refused
  <1>9. Follows(p)' /\ ToldOf(p)' /\ TakenBack(p) /\ ~Approved(session'[p])
    BY <1>1, <1>2, <1>4, <1>5, <1>7, <1>8 DEF Follows, ToldOf, TakenBack, Approved
  <1>10. Remembers(p)'
    <2>1. UNCHANGED <<status, dna, kept, answeredAt>>
        BY DEF Catch, artifacts, history
    <2> QED BY <1>1, <1>2, <1>3, <2>1, RequestsAssumption
        DEF Remembers, Shape, Typed, Kept, Committing
  <1> QED BY <1>1, <1>2, <1>3, <1>5, <1>6, <1>9, <1>10 DEF Moves, approvals

\* A SCAN loads its reference.
LEMMA CheckScanMoves ==
    ASSUME Shape, NEW p \in Scans, CheckScan(p)
    PROVE  Moves(p)
  <1>1. p \in Processes /\ p \in Requests
    BY DEF Processes, Requests
  <1>2. /\ pc[p] = "check" /\ pc'[p] \in {"original"}
        /\ \A q \in Processes \ {p} : pc'[q] = pc[q]
        /\ pc' = [q \in Processes |-> pc'[q]]
    BY <1>1, Stepping DEF Shape, Kept, CheckScan, At
  <1>3. UNCHANGED <<drafts, claim, evidence, evicted>> /\ lost \subseteq lost'
    BY DEF CheckScan, approvals, history
  <1>5. session' = session /\ session' \in [Requests -> Record] /\ faults' \in Nat
    BY DEF Shape, Typed, CheckScan
  <1>6. /\ \A q \in Processes \ {p} : kept'[q] = kept[q]
        /\ kept' = [q \in Processes |-> kept'[q]]
    BY <1>1 DEF Shape, Kept, CheckScan
  <1>7. Follows(p)
    BY <1>1 DEF Shape, FollowsAll
  <1>9. Follows(p)' /\ ToldOf(p)' /\ TakenBack(p) /\ ~Approved(session'[p])
    BY <1>1, <1>2, <1>5, <1>7 DEF Follows, ToldOf, TakenBack, Approved
  <1>10. Remembers(p)'
    <2>1. /\ UNCHANGED <<status, dna, answeredAt>>
          /\ kept'[p] = [status |-> status[Target[p]], dna |-> None]
        BY <1>1 DEF CheckScan, artifacts, Shape, Kept
    <2> QED BY <1>1, <1>2, <1>3, <2>1, RequestsAssumption
        DEF Remembers, Shape, Typed, Kept, Committing, Artifacts
  <1> QED BY <1>1, <1>2, <1>3, <1>5, <1>6, <1>9, <1>10 DEF Moves, approvals

\* The commit is opened.
LEMMA OpenCommitMoves ==
    ASSUME Shape, NEW p \in Scans, OpenCommit(p)
    PROVE  Moves(p)
  <1>1. p \in Processes /\ p \in Requests
    BY DEF Processes, Requests
  <1>2. /\ pc[p] = "original" /\ pc'[p] \in {"dna", "catch"}
        /\ \A q \in Processes \ {p} : pc'[q] = pc[q]
        /\ pc' = [q \in Processes |-> pc'[q]]
    BY <1>1, Stepping DEF Shape, Kept, OpenCommit, At
  <1>3. UNCHANGED <<drafts, claim, evidence, evicted>> /\ lost \subseteq lost'
    BY DEF OpenCommit, approvals, history
  <1>5. session' = session /\ session' \in [Requests -> Record] /\ faults' \in Nat
    BY DEF Shape, Typed, OpenCommit, Fault
  <1>6. /\ \A q \in Processes \ {p} : kept'[q] = kept[q]
        /\ kept' = [q \in Processes |-> kept'[q]]
    BY <1>1 DEF Shape, Kept, OpenCommit
  <1>7. Follows(p)
    BY <1>1 DEF Shape, FollowsAll
  <1>9. Follows(p)' /\ ToldOf(p)' /\ TakenBack(p) /\ ~Approved(session'[p])
    BY <1>1, <1>2, <1>5, <1>7 DEF Follows, ToldOf, TakenBack, Approved
  <1>10. Remembers(p)'
    <2>1. /\ UNCHANGED <<status, dna, answeredAt>>
          /\ kept'[p] = [kept[p] EXCEPT !.dna = dna[Target[p]]]
        BY <1>1 DEF OpenCommit, artifacts, history, Shape, Kept
    <2>2. kept[p] \in Artifacts
        BY <1>2 DEF Shape, Kept, Committing
    <2>3. kept'[p] \in Artifacts
        BY <1>1, <2>1, <2>2, RequestsAssumption DEF Shape, Typed, Artifacts
    <2> QED BY <1>1, <1>2, <1>3, <2>1, <2>3, RequestsAssumption
        DEF Remembers, Shape, Typed, Kept, Committing
  <1> QED BY <1>1, <1>2, <1>3, <1>5, <1>6, <1>9, <1>10 DEF Moves, approvals

\* The Design DNA is written.
LEMMA WriteDNAMoves ==
    ASSUME Shape, NEW p \in Scans, WriteDNA(p)
    PROVE  Moves(p)
  <1>1. p \in Processes /\ p \in Requests
    BY DEF Processes, Requests
  <1>2. /\ pc[p] = "dna" /\ pc'[p] \in {"reference", "undoDNA"}
        /\ \A q \in Processes \ {p} : pc'[q] = pc[q]
        /\ pc' = [q \in Processes |-> pc'[q]]
    BY <1>1, Stepping DEF Shape, Kept, WriteDNA, At
  <1>3. UNCHANGED <<drafts, claim, evidence, evicted>> /\ lost \subseteq lost'
    BY DEF WriteDNA, approvals, history
  <1>5. session' = session /\ session' \in [Requests -> Record] /\ faults' \in Nat
    BY DEF Shape, Typed, WriteDNA, Fault
  <1>6. /\ \A q \in Processes \ {p} : kept'[q] = kept[q]
        /\ kept' = [q \in Processes |-> kept'[q]]
    BY <1>1 DEF Shape, Kept, WriteDNA
  <1>7. Follows(p)
    BY <1>1 DEF Shape, FollowsAll
  <1>9. Follows(p)' /\ ToldOf(p)' /\ TakenBack(p) /\ ~Approved(session'[p])
    BY <1>1, <1>2, <1>5, <1>7 DEF Follows, ToldOf, TakenBack, Approved
  <1>10. Remembers(p)'
    <2>1. UNCHANGED <<kept, answeredAt>>
        BY DEF WriteDNA, history
    <2>2. kept[p] \in Artifacts
        BY <1>2 DEF Shape, Kept, Committing
    <2>3. /\ status' \in [References -> {"READY", "ANALYZED"}]
          /\ dna' \in [References -> Scans \union {None}]
        BY <2>2, RequestsAssumption DEF WriteDNA, Shape, Typed, Artifacts
    <2> QED BY <1>1, <1>2, <1>3, <2>1, <2>2, <2>3, RequestsAssumption
        DEF Remembers, Shape, Typed, Kept, Committing
  <1> QED BY <1>1, <1>2, <1>3, <1>5, <1>6, <1>9, <1>10 DEF Moves, approvals

\* The reference is marked ANALYZED.
LEMMA WriteReferenceMoves ==
    ASSUME Shape, NEW p \in Scans, WriteReference(p)
    PROVE  Moves(p)
  <1>1. p \in Processes /\ p \in Requests
    BY DEF Processes, Requests
  <1>2. /\ pc[p] = "reference" /\ pc'[p] \in {"body", "undoDNA"}
        /\ \A q \in Processes \ {p} : pc'[q] = pc[q]
        /\ pc' = [q \in Processes |-> pc'[q]]
    BY <1>1, Stepping DEF Shape, Kept, WriteReference, At
  <1>3. UNCHANGED <<drafts, claim, evidence, evicted>> /\ lost \subseteq lost'
    BY DEF WriteReference, approvals, history
  <1>5. session' = session /\ session' \in [Requests -> Record] /\ faults' \in Nat
    BY DEF Shape, Typed, WriteReference, Fault
  <1>6. /\ \A q \in Processes \ {p} : kept'[q] = kept[q]
        /\ kept' = [q \in Processes |-> kept'[q]]
    BY <1>1 DEF Shape, Kept, WriteReference
  <1>7. Follows(p)
    BY <1>1 DEF Shape, FollowsAll
  <1>9. Follows(p)' /\ ToldOf(p)' /\ TakenBack(p) /\ ~Approved(session'[p])
    BY <1>1, <1>2, <1>5, <1>7 DEF Follows, ToldOf, TakenBack, Approved
  <1>10. Remembers(p)'
    <2>1. UNCHANGED <<kept, answeredAt>>
        BY DEF WriteReference, history
    <2>2. kept[p] \in Artifacts
        BY <1>2 DEF Shape, Kept, Committing
    <2>3. /\ status' \in [References -> {"READY", "ANALYZED"}]
          /\ dna' \in [References -> Scans \union {None}]
        BY <2>2, RequestsAssumption DEF WriteReference, Shape, Typed, Artifacts
    <2> QED BY <1>1, <1>2, <1>3, <2>1, <2>2, <2>3, RequestsAssumption
        DEF Remembers, Shape, Typed, Kept, Committing
  <1> QED BY <1>1, <1>2, <1>3, <1>5, <1>6, <1>9, <1>10 DEF Moves, approvals

\* The session becomes durable.
LEMMA WriteBodyMoves ==
    ASSUME Shape, NEW p \in Scans, WriteBody(p)
    PROVE  Moves(p)
  <1>1. p \in Processes /\ p \in Requests
    BY DEF Processes, Requests
  <1>2. /\ pc[p] = "body" /\ pc'[p] \in {"head", "undoDNA"}
        /\ \A q \in Processes \ {p} : pc'[q] = pc[q]
        /\ pc' = [q \in Processes |-> pc'[q]]
    BY <1>1, Stepping DEF Shape, Kept, WriteBody, At
  <1>3. UNCHANGED <<drafts, claim, evidence, evicted>> /\ lost \subseteq lost'
    BY DEF WriteBody, approvals, history
  <1>4. /\ Ready(p) \in Record /\ Ready(p).status = "RESULT_READY"
        /\ Ready(p).chosen = session[p].chosen
    BY <1>1, SavedRecords DEF Shape, Typed
  <1>5. /\ session'[p] \in {session[p], Ready(p)}
        /\ \A q \in Requests \ {p} : session'[q] = session[q]
        /\ session' \in [Requests -> Record]
        /\ faults' \in Nat
    BY <1>1, <1>4 DEF Shape, Typed, WriteBody, Saved, Fault
  <1>6. /\ \A q \in Processes \ {p} : kept'[q] = kept[q]
        /\ kept' = [q \in Processes |-> kept'[q]]
    BY <1>1 DEF Shape, Kept, WriteBody
  <1>7. Follows(p)
    BY <1>1 DEF Shape, FollowsAll
  <1>8. IF pc'[p] = "head" THEN session'[p] = Ready(p) ELSE session'[p] = session[p]
    BY <1>1, <1>2, Stepping DEF Shape, Typed, Kept, WriteBody, Saved
  <1>9. Follows(p)' /\ ToldOf(p)' /\ TakenBack(p) /\ ~Approved(session'[p])
    BY <1>1, <1>2, <1>4, <1>5, <1>7, <1>8 DEF Follows, ToldOf, TakenBack, Approved
  <1>10. Remembers(p)'
    <2>1. UNCHANGED <<status, dna, kept, answeredAt>>
        BY DEF WriteBody, artifacts, history
    <2> QED BY <1>1, <1>2, <1>3, <2>1, RequestsAssumption
        DEF Remembers, Shape, Typed, Kept, Committing
  <1> QED BY <1>1, <1>2, <1>3, <1>5, <1>6, <1>9, <1>10 DEF Moves, approvals

\* The head is published.
LEMMA PublishHeadMoves ==
    ASSUME Shape, NEW p \in Scans, PublishHead(p)
    PROVE  Moves(p)
  <1>1. p \in Processes /\ p \in Requests
    BY DEF Processes, Requests
  <1>2. /\ pc[p] = "head" /\ pc'[p] \in {"done", "catch"}
        /\ \A q \in Processes \ {p} : pc'[q] = pc[q]
        /\ pc' = [q \in Processes |-> pc'[q]]
    BY <1>1, Stepping DEF Shape, Kept, PublishHead, At, OnFailedHead
  <1>3. UNCHANGED <<drafts, claim, evidence, evicted>> /\ lost \subseteq lost'
    BY DEF PublishHead, approvals, history
  <1>5. session' = session /\ session' \in [Requests -> Record] /\ faults' \in Nat
    BY DEF Shape, Typed, PublishHead, Fault
  <1>6. /\ \A q \in Processes \ {p} : kept'[q] = kept[q]
        /\ kept' = [q \in Processes |-> kept'[q]]
    BY <1>1 DEF Shape, Kept, PublishHead
  <1>7. Follows(p)
    BY <1>1 DEF Shape, FollowsAll
  <1>9. Follows(p)' /\ ToldOf(p)' /\ TakenBack(p) /\ ~Approved(session'[p])
    BY <1>1, <1>2, <1>5, <1>7 DEF Follows, ToldOf, TakenBack, Approved
  <1>10. Remembers(p)'
    <2>1. UNCHANGED <<status, dna, kept, answeredAt>>
        BY DEF PublishHead, artifacts, history
    <2> QED BY <1>1, <1>2, <1>3, <2>1, RequestsAssumption
        DEF Remembers, Shape, Typed, Kept, Committing
  <1> QED BY <1>1, <1>2, <1>3, <1>5, <1>6, <1>9, <1>10 DEF Moves, approvals

\* The Design DNA is restored.
LEMMA UndoDNAMoves ==
    ASSUME Shape, NEW p \in Scans, UndoDNA(p)
    PROVE  Moves(p)
  <1>1. p \in Processes /\ p \in Requests
    BY DEF Processes, Requests
  <1>2. /\ pc[p] = "undoDNA" /\ pc'[p] \in {"undoReference"}
        /\ \A q \in Processes \ {p} : pc'[q] = pc[q]
        /\ pc' = [q \in Processes |-> pc'[q]]
    BY <1>1, Stepping DEF Shape, Kept, UndoDNA, At
  <1>3. UNCHANGED <<drafts, claim, evidence, evicted>> /\ lost \subseteq lost'
    BY DEF UndoDNA, approvals, history
  <1>5. session' = session /\ session' \in [Requests -> Record] /\ faults' \in Nat
    BY DEF Shape, Typed, UndoDNA, Fault
  <1>6. /\ \A q \in Processes \ {p} : kept'[q] = kept[q]
        /\ kept' = [q \in Processes |-> kept'[q]]
    BY <1>1 DEF Shape, Kept, UndoDNA
  <1>7. Follows(p)
    BY <1>1 DEF Shape, FollowsAll
  <1>9. Follows(p)' /\ ToldOf(p)' /\ TakenBack(p) /\ ~Approved(session'[p])
    BY <1>1, <1>2, <1>5, <1>7 DEF Follows, ToldOf, TakenBack, Approved
  <1>10. Remembers(p)'
    <2>1. UNCHANGED <<kept, answeredAt>>
        BY DEF UndoDNA, history
    <2>2. kept[p] \in Artifacts
        BY <1>2 DEF Shape, Kept, Committing
    <2>3. /\ status' \in [References -> {"READY", "ANALYZED"}]
          /\ dna' \in [References -> Scans \union {None}]
        BY <2>2, RequestsAssumption DEF UndoDNA, Shape, Typed, Artifacts
    <2> QED BY <1>1, <1>2, <1>3, <2>1, <2>2, <2>3, RequestsAssumption
        DEF Remembers, Shape, Typed, Kept, Committing
  <1> QED BY <1>1, <1>2, <1>3, <1>5, <1>6, <1>9, <1>10 DEF Moves, approvals

\* The reference is restored.
LEMMA UndoReferenceMoves ==
    ASSUME Shape, NEW p \in Scans, UndoReference(p)
    PROVE  Moves(p)
  <1>1. p \in Processes /\ p \in Requests
    BY DEF Processes, Requests
  <1>2. /\ pc[p] = "undoReference" /\ pc'[p] \in {"catch"}
        /\ \A q \in Processes \ {p} : pc'[q] = pc[q]
        /\ pc' = [q \in Processes |-> pc'[q]]
    BY <1>1, Stepping DEF Shape, Kept, UndoReference, At
  <1>3. UNCHANGED <<drafts, claim, evidence, evicted>> /\ lost \subseteq lost'
    BY DEF UndoReference, approvals, history
  <1>5. session' = session /\ session' \in [Requests -> Record] /\ faults' \in Nat
    BY DEF Shape, Typed, UndoReference, Fault
  <1>6. /\ \A q \in Processes \ {p} : kept'[q] = kept[q]
        /\ kept' = [q \in Processes |-> kept'[q]]
    BY <1>1 DEF Shape, Kept, UndoReference
  <1>7. Follows(p)
    BY <1>1 DEF Shape, FollowsAll
  <1>9. Follows(p)' /\ ToldOf(p)' /\ TakenBack(p) /\ ~Approved(session'[p])
    BY <1>1, <1>2, <1>5, <1>7 DEF Follows, ToldOf, TakenBack, Approved
  <1>10. Remembers(p)'
    <2>1. UNCHANGED <<kept, answeredAt>>
        BY DEF UndoReference, history
    <2>2. kept[p] \in Artifacts
        BY <1>2 DEF Shape, Kept, Committing
    <2>3. /\ status' \in [References -> {"READY", "ANALYZED"}]
          /\ dna' \in [References -> Scans \union {None}]
        BY <2>2, RequestsAssumption DEF UndoReference, Shape, Typed, Artifacts
    <2> QED BY <1>1, <1>2, <1>3, <2>1, <2>2, <2>3, RequestsAssumption
        DEF Remembers, Shape, Typed, Kept, Committing
  <1> QED BY <1>1, <1>2, <1>3, <1>5, <1>6, <1>9, <1>10 DEF Moves, approvals

-----------------------------------------------------------------------------
(* Steps of an approver.                                                    *)

\* An approver changes at most the decision on the session it works on, and
\* that request has ended.
Decided(p) ==
    /\ pc[p] = "done" /\ p \in Evolves
    /\ session[p].status \in {"AWAITING_DECISION", "APPROVED"}
    /\ session'[p].status \in {"AWAITING_DECISION", "APPROVED"}
    /\ ~Approved(session'[p]) => session'[p].chosen = None
    /\ session'[p].evidence = session[p].evidence
    /\ Proposed(session'[p]) = Proposed(session[p])

\* What every step of an approver does to what it shares with others.
Handles(a) ==
    /\ pc'[a] # "idle"
    /\ \A q \in Processes \ {a} : pc'[q] = pc[q] /\ kept'[q] = kept[q]
    /\ pc' = [q \in Processes |-> pc'[q]] /\ kept' = [q \in Processes |-> kept'[q]]
    /\ kept'[a] \in [session : Evolves, record : Record]
    /\ UNCHANGED <<status, dna, evidence, answeredAt, torn, lost>>
    /\ faults' \in Nat
    /\ session' \in [Requests -> Record]
    /\ \A p \in Requests : session'[p] = session[p] \/ Decided(p)
    /\ claim' \in [Evolves -> {None} \union [owner : Approvers, record : Record]]
    /\ drafts' \in SUBSET [session : Evolves, by : Approvers]
    /\ Read(a)'

\* A record put up for decision, and what an approval makes of it.
LEMMA Proposal ==
    ASSUME NEW r \in Record
    PROVE  /\ r.status = "AWAITING_DECISION" /\ r.chosen = None => r = Proposed(r)
           /\ \A a \in Approvers :
                LET s == [Proposed(r) EXCEPT !.status = "APPROVED", !.chosen = a] IN
                /\ s \in Record /\ s.status = "APPROVED" /\ s.chosen = a
                /\ s.evidence = r.evidence /\ Proposed(s) = Proposed(r)
           /\ Proposed(r) \in Record /\ Proposed(r).status = "AWAITING_DECISION"
           /\ Proposed(r).chosen = None
           /\ Proposed(r).evidence = r.evidence /\ Proposed(Proposed(r)) = Proposed(r)
  <1> USE Statuses
  <1>1. r.status = "AWAITING_DECISION" /\ r.chosen = None => r = Proposed(r)
    BY DEF Proposed, Record
  <1>2. /\ Proposed(r) \in Record /\ Proposed(r).status = "AWAITING_DECISION"
        /\ Proposed(r).chosen = None
        /\ Proposed(r).evidence = r.evidence
    BY DEF Proposed, Record
  <1>3. Proposed(Proposed(r)) = Proposed(r)
    BY DEF Proposed, Record
  <1>4. ASSUME NEW a \in Approvers
        PROVE  LET s == [Proposed(r) EXCEPT !.status = "APPROVED", !.chosen = a] IN
                /\ s \in Record /\ s.status = "APPROVED" /\ s.chosen = a
                /\ s.evidence = r.evidence /\ Proposed(s) = Proposed(r)
    <2> DEFINE s == [Proposed(r) EXCEPT !.status = "APPROVED", !.chosen = a]
    <2>1. s \in Record /\ s.status = "APPROVED" /\ s.chosen = a /\ s.evidence = r.evidence
        BY <1>2 DEF Record
    <2>2. Proposed(s) = Proposed(r)
        BY DEF Proposed, Record
    <2> QED BY <2>1, <2>2
  <1> QED BY <1>1, <1>2, <1>3, <1>4

\* What an approver at work knows of its session.
LEMMA AtWork ==
    ASSUME Shape, ReadAll, NEW a \in Approvers, pc[a] # "idle"
    PROVE  /\ kept[a].session \in Evolves /\ kept[a].session \in Requests
           /\ kept[a] \in [session : Evolves, record : Record]
           /\ session[kept[a].session].status \in {"AWAITING_DECISION", "APPROVED"}
           /\ session[kept[a].session] \in Record
           /\ pc[kept[a].session] = "done"
           /\ kept[a].record = Proposed(session[kept[a].session])
  <1>1. kept[a] \in [session : Evolves, record : Record]
    BY DEF Shape, Kept
  <1>2. kept[a].session \in Evolves /\ kept[a].session \in Requests
    BY <1>1 DEF Requests
  <1>3. /\ session[kept[a].session].status \in {"AWAITING_DECISION", "APPROVED"}
        /\ kept[a].record = Proposed(session[kept[a].session])
    BY DEF ReadAll, Read
  <1>4. pc[kept[a].session] = "done"
    BY <1>2, <1>3 DEF Shape, FollowsAll, Follows
  <1> QED BY <1>1, <1>2, <1>3, <1>4 DEF Shape, Typed

\* Opening an approval reads the session and changes nothing else.
LEMMA OpenApprovalHandles ==
    ASSUME Shape, ReadAll, NEW a \in Approvers, NEW e \in Evolves, OpenApproval(a, e)
    PROVE  /\ Handles(a) /\ pc'[a] = "claim"
           /\ UNCHANGED <<session, claim, drafts, evicted>>
  <1>1. a \in Processes /\ e \in Requests
    BY DEF Processes, Requests
  <1>2. /\ pc'[a] = "claim"
        /\ \A q \in Processes \ {a} : pc'[q] = pc[q]
        /\ pc' = [q \in Processes |-> pc'[q]]
    BY <1>1, Stepping DEF Shape, Kept, OpenApproval
  <1>3. UNCHANGED <<status, dna, session, claim, drafts, evidence, faults, torn, lost,
                    evicted, answeredAt>>
    BY DEF OpenApproval, artifacts, approvals, history
  <1>4. /\ session[e].status = "AWAITING_DECISION"
        /\ session[e] \in Record
        /\ session[e].chosen = None
    BY <1>1 DEF OpenApproval, Shape, Typed, FollowsAll, Follows, Approved
  <1>5. /\ kept'[a] = [session |-> e, record |-> session[e]]
        /\ \A q \in Processes \ {a} : kept'[q] = kept[q]
        /\ kept' = [q \in Processes |-> kept'[q]]
    BY <1>1 DEF Shape, Kept, OpenApproval
  <1>6. Read(a)'
    <2>1. kept'[a].session = e /\ kept'[a].record = session[e]
        BY <1>5
    <2>2. session[e] = Proposed(session[e])
        BY <1>4, Proposal
    <2> QED BY <1>3, <1>4, <2>1, <2>2 DEF Read
  <1> QED BY <1>2, <1>3, <1>4, <1>5, <1>6 DEF Handles, Shape, Typed

\* A claim is taken when it is free or stale, or its owner is evicted.
LEMMA TakeClaimHandles ==
    ASSUME Shape, ReadAll, NEW a \in Approvers, TakeClaim(a)
    PROVE  /\ Handles(a) /\ pc[a] = "claim" /\ pc'[a] \in {"reread", "done"}
           /\ UNCHANGED <<session, kept, drafts>>
           /\ IF pc'[a] = "reread"
              THEN /\ claim' =
                        [claim EXCEPT ![kept[a].session] = [owner |-> a, record |-> kept[a].record]]
                   /\ \/ /\ UNCHANGED evicted
                         /\ claim[kept[a].session] = None \/ Stale(kept[a].session)
                      \/ evicted' = evicted \union {Owner(kept[a].session)}
              ELSE UNCHANGED <<claim, evicted>>
  <1>1. a \in Processes /\ pc[a] = "claim"
    BY DEF Processes, TakeClaim, At
  <1>2. /\ pc'[a] \in {"reread", "done"}
        /\ \A q \in Processes \ {a} : pc'[q] = pc[q]
        /\ pc' = [q \in Processes |-> pc'[q]]
    BY <1>1, Stepping DEF Shape, Kept, TakeClaim
  <1>3. /\ UNCHANGED <<status, dna, session, drafts, evidence, kept, torn, lost, answeredAt>>
        /\ faults' \in Nat
    BY DEF TakeClaim, artifacts, Fault, Shape, Typed
  <1>4. IF pc'[a] = "reread"
        THEN /\ claim' =
                  [claim EXCEPT ![kept[a].session] = [owner |-> a, record |-> kept[a].record]]
             /\ \/ /\ UNCHANGED evicted
                   /\ claim[kept[a].session] = None \/ Stale(kept[a].session)
                \/ evicted' = evicted \union {Owner(kept[a].session)}
        ELSE UNCHANGED <<claim, evicted>>
    BY <1>1, Stepping DEF TakeClaim, SessionOf, Shape, Kept
  <1>5. claim' \in [Evolves -> {None} \union [owner : Approvers, record : Record]]
    BY <1>1, <1>4, AtWork DEF Shape, Typed
  <1>6. Read(a)
    BY DEF ReadAll
  <1>7. Read(a)'
    BY <1>1, <1>3, <1>6 DEF Read
  <1>8. kept[a] \in [session : Evolves, record : Record]
    BY <1>1, AtWork
  <1> QED BY <1>1, <1>2, <1>3, <1>4, <1>5, <1>7, <1>8 DEF Handles, Shape, Typed, Kept

\* Under the claim the session is read again; a pair is only committed of what was read.
LEMMA RereadHandles ==
    ASSUME Shape, ReadAll, NEW a \in Approvers, Reread(a)
    PROVE  /\ Handles(a) /\ pc[a] = "reread" /\ pc'[a] \in {"pair", "release"}
           /\ UNCHANGED <<session, kept, drafts, claim, evicted>>
           /\ pc'[a] = "pair" => session[kept[a].session] = kept[a].record
  <1>1. a \in Processes /\ pc[a] = "reread"
    BY DEF Processes, Reread, At
  <1>2. /\ pc'[a] \in {"pair", "release"}
        /\ pc'[a] = "pair" => session[kept[a].session].status = "AWAITING_DECISION"
        /\ \A q \in Processes \ {a} : pc'[q] = pc[q]
        /\ pc' = [q \in Processes |-> pc'[q]]
    BY <1>1, Stepping DEF Shape, Kept, Reread, SessionOf, MayTransition
  <1>3. UNCHANGED <<status, dna, session, claim, drafts, evidence, kept, faults, torn,
                    lost, evicted, answeredAt>>
    BY DEF Reread, artifacts, approvals, history
  <1>4. pc'[a] = "pair" => session[kept[a].session] = kept[a].record
    <2> SUFFICES ASSUME pc'[a] = "pair" PROVE session[kept[a].session] = kept[a].record
        OBVIOUS
    <2>1. session[kept[a].session].chosen = None
        BY <1>1, <1>2, AtWork DEF Shape, FollowsAll, Follows, Approved
    <2> QED BY <1>1, <1>2, <2>1, AtWork, Proposal
  <1>5. Read(a)
    BY DEF ReadAll
  <1>6. Read(a)'
    BY <1>1, <1>3, <1>5 DEF Read
  <1>7. kept[a] \in [session : Evolves, record : Record]
    BY <1>1, AtWork
  <1> QED BY <1>1, <1>2, <1>3, <1>4, <1>6, <1>7 DEF Handles, Shape, Typed, Kept

\* Only an approver's own claim is removed.
LEMMA ReleaseHandles ==
    ASSUME Shape, ReadAll, NEW a \in Approvers, Release(a)
    PROVE  /\ Handles(a) /\ pc[a] = "release" /\ pc'[a] = "done"
           /\ UNCHANGED <<session, kept, drafts, evicted>>
           /\ \/ claim' = claim
              \/ /\ claim[kept[a].session] # None /\ Owner(kept[a].session) = a
                 /\ claim' = [claim EXCEPT ![kept[a].session] = None]
  <1>1. a \in Processes /\ pc[a] = "release"
    BY DEF Processes, Release, At
  <1>2. /\ pc'[a] = "done"
        /\ \A q \in Processes \ {a} : pc'[q] = pc[q]
        /\ pc' = [q \in Processes |-> pc'[q]]
    BY <1>1, Stepping DEF Shape, Kept, Release
  <1>3. /\ UNCHANGED <<status, dna, session, drafts, evidence, kept, torn, lost, evicted, answeredAt>>
        /\ faults' \in Nat
    BY DEF Release, artifacts, history, Fault, Shape, Typed
  <1>4. kept[a].session \in Evolves /\ kept[a] \in [session : Evolves, record : Record]
    BY <1>1, AtWork
  <1>5. \/ claim' = claim
        \/ /\ claim[kept[a].session] # None /\ Owner(kept[a].session) = a
           /\ claim' = [claim EXCEPT ![kept[a].session] = None]
    BY <1>4 DEF Release, SessionOf, Shape, Typed
  <1>6. claim' \in [Evolves -> {None} \union [owner : Approvers, record : Record]]
    BY <1>4, <1>5 DEF Shape, Typed
  <1>7. Read(a)
    BY DEF ReadAll
  <1>8. Read(a)'
    BY <1>1, <1>3, <1>7 DEF Read
  <1> QED BY <1>1, <1>2, <1>3, <1>4, <1>5, <1>6, <1>8 DEF Handles, Shape, Typed, Kept

\* The decision and its draft change together, or the record read is put back.
LEMMA ApproveHandles ==
    ASSUME Shape, ReadAll, NEW a \in Approvers, Approve(a)
    PROVE  /\ Handles(a) /\ pc[a] = "pair" /\ pc'[a] = "release"
           /\ UNCHANGED <<kept, claim, evicted>>
           /\ \A p \in Requests \ {kept[a].session} : session'[p] = session[p]
           /\ \/ /\ Approved(session'[kept[a].session]) /\ session'[kept[a].session].chosen = a
                 /\ drafts' = drafts \union {[session |-> kept[a].session, by |-> a]}
              \/ /\ session'[kept[a].session] = kept[a].record
                 /\ UNCHANGED drafts
  <1> DEFINE e == kept[a].session
             approved == [kept[a].record EXCEPT !.status = "APPROVED", !.chosen = a]
  <1>1. a \in Processes /\ pc[a] = "pair"
    BY DEF Processes, Approve, At
  <1>2. /\ pc'[a] = "release"
        /\ \A q \in Processes \ {a} : pc'[q] = pc[q]
        /\ pc' = [q \in Processes |-> pc'[q]]
    BY <1>1, Stepping DEF Shape, Kept, Approve
  <1>3. /\ UNCHANGED <<status, dna, evidence, kept, claim, torn, lost, evicted, answeredAt>>
        /\ faults' \in Nat
    BY DEF Approve, artifacts, history, Fault, Shape, Typed
  <1>4. /\ e \in Evolves /\ e \in Requests /\ kept[a] \in [session : Evolves, record : Record]
        /\ session[e].status \in {"AWAITING_DECISION", "APPROVED"}
        /\ session[e] \in Record /\ pc[e] = "done" /\ kept[a].record = Proposed(session[e])
    BY <1>1, AtWork
  <1>5. /\ approved \in Record /\ approved.status = "APPROVED" /\ approved.chosen = a
        /\ approved.evidence = session[e].evidence /\ Proposed(approved) = Proposed(session[e])
    <2>1. approved = [Proposed(session[e]) EXCEPT !.status = "APPROVED", !.chosen = a]
        BY <1>4
    <2> HIDE DEF approved
    <2> QED BY <1>4, <2>1, Proposal
  <1>6. /\ kept[a].record \in Record /\ kept[a].record.status = "AWAITING_DECISION"
        /\ kept[a].record.chosen = None
        /\ kept[a].record.evidence = session[e].evidence
        /\ Proposed(kept[a].record) = Proposed(session[e])
    BY <1>4, Proposal
  <1>7. \/ session' = [session EXCEPT ![e] = approved] /\ drafts' = drafts \union {[session |-> e, by |-> a]}
        \/ session' = [session EXCEPT ![e] = kept[a].record] /\ drafts' = drafts
    BY DEF Approve, SessionOf
  <1> HIDE DEF approved
  <1>8. /\ session' \in [Requests -> Record]
        /\ \A p \in Requests \ {e} : session'[p] = session[p]
        /\ \/ session'[e] = approved /\ drafts' = drafts \union {[session |-> e, by |-> a]}
           \/ session'[e] = kept[a].record /\ drafts' = drafts
    BY <1>4, <1>5, <1>6, <1>7 DEF Shape, Typed
  <1>9. Decided(e)
    BY <1>4, <1>5, <1>6, <1>8 DEF Decided, Approved
  <1>10. Read(a)'
    BY <1>1, <1>2, <1>3, <1>4, <1>9 DEF Read, Decided
  <1>11. drafts' \in SUBSET [session : Evolves, by : Approvers]
    BY <1>4, <1>8 DEF Shape, Typed
  <1>12. Handles(a)
    BY <1>1, <1>2, <1>3, <1>4, <1>8, <1>9, <1>10, <1>11 DEF Handles, Shape, Typed, Kept
  <1> QED BY <1>1, <1>2, <1>3, <1>5, <1>8, <1>12 DEF Approved

-----------------------------------------------------------------------------
(* What holds after a step, whoever takes it.                               *)

RequestStep(p) ==
    \/ p \in Scans /\ ScanStep(p)
    \/ p \in Evolves /\ EvolveStep(p)
    \/ p \in Analyses /\ AnalysisStep(p)

\* Who takes a step.
LEMMA Steps ==
    ASSUME Next
    PROVE  \/ \E p \in Requests : RequestStep(p)
           \/ \E a \in Approvers : ApprovalStep(a)
           \/ \E p \in Processes : Die(p)
           \/ ChangeEvidence
    BY DEF Next, RequestStep, Requests, Processes

\* Every step of a request moves only its own session.
LEMMA RequestMoves ==
    ASSUME Shape, NEW p \in Requests, RequestStep(p)
    PROVE  Moves(p)
  <1>1. ASSUME p \in Scans, ScanStep(p) PROVE Moves(p)
    BY <1>1, StartScanMoves, SaveDraftMoves, BeginMoves, ScanAnswerMoves, CheckScanMoves,
       OpenCommitMoves, WriteDNAMoves, WriteReferenceMoves, WriteBodyMoves,
       PublishHeadMoves, UndoDNAMoves, UndoReferenceMoves, CatchMoves DEF ScanStep
  <1>2. ASSUME p \in Evolves, EvolveStep(p) PROVE Moves(p)
    BY <1>2, StartEvolveMoves, LoadAnalysesMoves, SaveDraftMoves, BeginMoves,
       EvolveAnswerMoves, RecheckMoves, CommitResultMoves, AwaitMoves, CatchMoves DEF EvolveStep
  <1>3. ASSUME p \in Analyses, AnalysisStep(p) PROVE Moves(p)
    BY <1>3, StartAnalysisMoves, SaveDraftMoves, BeginMoves, AnalysisAnswerMoves,
       CommitAnalysisMoves, CatchMoves DEF AnalysisStep
  <1> QED BY <1>1, <1>2, <1>3 DEF RequestStep

\* Every step of an approver touches at most the decision it works on.
LEMMA ApproverHandles ==
    ASSUME Shape, ReadAll, NEW a \in Approvers, ApprovalStep(a)
    PROVE  Handles(a)
    BY OpenApprovalHandles, TakeClaimHandles, RereadHandles, ApproveHandles, ReleaseHandles
    DEF ApprovalStep

\* A death changes no artifact.
LEMMA Dies ==
    ASSUME Shape, NEW p \in Processes, Die(p)
    PROVE  /\ pc[p] \notin {"idle", "done", "dead"} /\ pc'[p] = "dead"
           /\ \A q \in Processes \ {p} : pc'[q] = pc[q]
           /\ pc' = [q \in Processes |-> pc'[q]]
           /\ UNCHANGED <<status, dna, session, drafts, claim, evidence, kept, lost, evicted,
                          answeredAt>>
           /\ faults' \in Nat
           /\ torn' = torn \union (IF pc[p] \in Undoing THEN {Target[p]} ELSE {})
    BY Stepping DEF Die, Shape, Kept, Typed, Fault, artifacts, approvals

\* New evidence changes nothing else.
LEMMA Changes ==
    ASSUME Shape, ChangeEvidence
    PROVE  /\ evidence' = evidence + 1 /\ evidence' \in 0 .. MaxEvidence
           /\ UNCHANGED <<status, dna, session, drafts, claim, pc, kept, faults, torn, lost,
                          evicted, answeredAt>>
    BY RequestsAssumption DEF ChangeEvidence, Shape, Typed, artifacts, approvals, history

-----------------------------------------------------------------------------
(* Types, and where a request stands.                                       *)

\* At first every session is absent and everybody idle.
LEMMA ShapeInit == Init => Shape
  <1> SUFFICES ASSUME Init PROVE Shape
    OBVIOUS
  <1> USE RequestsAssumption, Statuses
  <1>1. NoSession \in Record /\ NoSession.status = "NONE" /\ NoSession.chosen = None
    BY DEF NoSession, Record
  <1>2. Typed
    <2>1. /\ evidence \in 0 .. MaxEvidence
          /\ faults \in Nat
          /\ drafts \in SUBSET [session : Evolves, by : Approvers]
        BY DEF Init
    <2>2. /\ status \in [References -> {"READY", "ANALYZED"}]
          /\ dna \in [References -> Scans \union {None}]
        BY DEF Init
    <2>3. session \in [Requests -> Record]
        BY <1>1 DEF Init
    <2>4. claim \in [Evolves -> {None} \union [owner : Approvers, record : Record]]
        BY DEF Init
    <2> QED BY <2>1, <2>2, <2>3, <2>4 DEF Typed
  <1>3. Kept
    <2>1. pc = [p \in Processes |-> "idle"] /\ kept = [p \in Processes |-> None]
        BY DEF Init, Processes
    <2>2. pc = [p \in Processes |-> pc[p]] /\ kept = [p \in Processes |-> kept[p]]
        BY <2>1
    <2>3. \A p \in Processes : pc[p] = "idle"
        BY <2>1
    <2>4. answeredAt \in [Evolves -> 0 .. evidence]
        BY DEF Init
    <2> QED BY <2>2, <2>3, <2>4 DEF Kept, Processes, Requests, Committing
  <1>4. FollowsAll
    BY <1>1 DEF Init, FollowsAll, Follows, Requests
  <1>5. Spoken
    BY DEF Init, Spoken, ToldOf, Requests
  <1> QED BY <1>2, <1>3, <1>4, <1>5 DEF Shape

\* A step of a request keeps types and places.
LEMMA MovesShape ==
    ASSUME Shape, NEW p \in Requests, Moves(p)
    PROVE  Shape'
  <1>1. /\ Remembers(p)' /\ Follows(p)' /\ ToldOf(p)'
        /\ \A q \in Requests \ {p} : pc'[q] = pc[q] /\ kept'[q] = kept[q] /\ session'[q] = session[q]
        /\ \A a \in Approvers : pc'[a] = pc[a] /\ kept'[a] = kept[a]
        /\ UNCHANGED <<drafts, claim, evidence>> /\ lost \subseteq lost'
        /\ session' \in [Requests -> Record] /\ faults' \in Nat
        /\ pc' = [q \in Processes |-> pc'[q]] /\ kept' = [q \in Processes |-> kept'[q]]
    BY RequestsAssumption DEF Moves, approvals, Processes
  <1>2. Typed'
    BY <1>1 DEF Shape, Typed, Remembers
  <1>3. Kept'
    <2>1. ASSUME NEW s \in Scans, pc'[s] \in Committing PROVE kept'[s] \in Artifacts
        BY <1>1, <2>1 DEF Remembers, Shape, Kept, Requests, Committing
    <2>2. ASSUME NEW e \in Evolves, pc'[e] # "idle" PROVE kept'[e] \in 0 .. evidence'
        BY <1>1, <2>2 DEF Remembers, Shape, Kept, Requests
    <2>3. ASSUME NEW a \in Approvers, pc'[a] # "idle"
          PROVE kept'[a] \in [session : Evolves, record : Record]
        BY <1>1, <2>3 DEF Shape, Kept
    <2>4. answeredAt' \in [Evolves -> 0 .. evidence']
        BY <1>1 DEF Remembers
    <2> QED BY <1>1, <2>1, <2>2, <2>3, <2>4 DEF Kept, Committing, Artifacts
  <1>4. FollowsAll'
    <2>1. ASSUME NEW q \in Requests, q # p PROVE Follows(q)'
        BY <1>1, <2>1 DEF Shape, FollowsAll, Follows, Approved
    <2> QED BY <1>1, <2>1 DEF FollowsAll
  <1>5. Spoken'
    BY <1>1 DEF Shape, Spoken, ToldOf
  <1> QED BY <1>2, <1>3, <1>4, <1>5 DEF Shape

\* A step of an approver keeps types and places.
LEMMA HandlesShape ==
    ASSUME Shape, NEW a \in Approvers, Handles(a)
    PROVE  Shape'
  <1>1. Typed'
    BY DEF Handles, Shape, Typed
  <1>2. \A q \in Requests : q \in Processes \ {a}
    BY RequestsAssumption DEF Processes
  <1>3. \A q \in Requests : pc'[q] = pc[q] /\ kept'[q] = kept[q]
    BY <1>2 DEF Handles
  <1>4. Kept'
    BY <1>3 DEF Handles, Shape, Kept, Requests, Committing, Processes
  <1>5. FollowsAll'
    <2>1. ASSUME NEW q \in Requests, session'[q] = session[q] PROVE Follows(q)'
        BY <1>3, <2>1 DEF Shape, FollowsAll, Follows, Approved
    <2>2. ASSUME NEW q \in Requests, Decided(q) PROVE Follows(q)'
        BY <1>3, <2>2 DEF Decided, Follows, Approved
    <2> QED BY <2>1, <2>2 DEF Handles, FollowsAll
  <1>6. Spoken'
    BY <1>3 DEF Shape, Spoken, ToldOf, Handles, Decided
  <1> QED BY <1>1, <1>4, <1>5, <1>6 DEF Shape

\* So does a death ...
LEMMA DiesShape ==
    ASSUME Shape, NEW p \in Processes, Die(p)
    PROVE  Shape'
  <1>1. Typed'
    BY Dies DEF Shape, Typed
  <1>2. Kept'
    BY Dies DEF Shape, Kept, Committing, Processes, Requests
  <1>3. FollowsAll'
    <2>1. ASSUME NEW q \in Requests PROVE Follows(q)'
        BY Dies DEF Shape, FollowsAll, Follows, Approved, Processes
    <2> QED BY <2>1 DEF FollowsAll
  <1>4. Spoken'
    BY Dies DEF Shape, Spoken, ToldOf, Processes
  <1> QED BY <1>1, <1>2, <1>3, <1>4 DEF Shape

\* ... and a change of the evidence ...
LEMMA ChangesShape ==
    ASSUME Shape, ChangeEvidence
    PROVE  Shape'
  <1>1. Typed' /\ FollowsAll' /\ Spoken'
    BY Changes DEF Shape, Typed, FollowsAll, Follows, Spoken, ToldOf, Approved
  <1>2. \A x \in 0 .. evidence : x \in 0 .. evidence'
    BY Changes DEF Shape, Typed
  <1>3. Kept'
    BY <1>2, Changes DEF Shape, Kept
  <1> QED BY <1>1, <1>3 DEF Shape

\* ... and hence every step.
LEMMA ShapeNext ==
    ASSUME Shape, ReadAll, Next
    PROVE  Shape'
    BY Steps, RequestMoves, ApproverHandles, MovesShape, HandlesShape, DiesShape, ChangesShape

-----------------------------------------------------------------------------
(* Analyses whose Design DNA a SCAN has taken away.                         *)

\* A SCAN that was abandoned stays so, and only one that is abandoned takes
\* the Design DNA of a reference away.
LEMMA ScanLeaves ==
    ASSUME Shape, NEW p \in Scans, ScanStep(p), NEW r \in References
    PROVE  /\ Abandoned(r) => Abandoned(r)'
           /\ HasAnalysis(r) => HasAnalysis(r)' \/ Abandoned(r)'
  <1>1. p \in Requests /\ p \in Processes /\ Moves(p)
    BY RequestMoves DEF RequestStep, Requests, Processes
  <1>2. \A s \in Scans \ {p} : pc'[s] = pc[s] /\ session'[s] = session[s]
    BY <1>1 DEF Moves, Requests, Processes
  <1>3. ASSUME session[p].status = "ANALYZING",
               pc[p] \in {"undoReference", "catch", "done", "dead"}
        PROVE  /\ session'[p].status = "ANALYZING"
               /\ pc'[p] \in {"undoReference", "catch", "done", "dead"}
    <2>1. UndoReference(p) \/ Catch(p)
        BY <1>3 DEF ScanStep, At, StartScan, SaveDraft, Begin, ScanAnswer, Answer, CheckScan,
                    OpenCommit, WriteDNA, WriteReference, WriteBody, PublishHead, UndoDNA
    <2>2. CASE UndoReference(p)
        <3>1. pc'[p] = "catch" /\ session' = session
            BY <1>1, <2>2, Stepping DEF UndoReference, Shape, Kept
        <3> QED BY <1>3, <3>1
    <2>3. CASE Catch(p)
        <3>1. pc'[p] = "done"
            BY <1>1, <2>3, Stepping DEF Catch, Shape, Kept
        <3>2. Failed(p) \in Record /\ Failed(p).status = "ANALYZING"
            BY <1>1, SavedRecords DEF Shape, Typed
        <3>3. session'[p] \in {session[p], Failed(p)}
            BY <1>1, <2>3, <3>2, Saving DEF Catch, Shape, Typed
        <3> QED BY <1>3, <3>1, <3>2, <3>3
    <2> QED BY <2>1, <2>2, <2>3
  <1>4. Abandoned(r) => Abandoned(r)'
    BY <1>2, <1>3 DEF Abandoned
  <1>5. ASSUME HasAnalysis(r), ~HasAnalysis(r)'
        PROVE  Abandoned(r)'
    <2>1. dna'[r] # dna[r] /\ dna \in [References -> Scans \union {None}] /\ p # None
        BY <1>1, <1>5, RequestsAssumption DEF HasAnalysis, Shape, Typed
    <2>2. WriteDNA(p) \/ UndoDNA(p)
        BY <2>1 DEF ScanStep, StartScan, SaveDraft, Begin, ScanAnswer, Answer, CheckScan, OpenCommit,
                    WriteReference, WriteBody, PublishHead, UndoReference, Catch, artifacts
    <2>3. ~WriteDNA(p)
        BY <1>5, <2>1 DEF WriteDNA, HasAnalysis
    <2>4. UndoDNA(p)
        BY <2>2, <2>3
    <2>5. r = Target[p]
        BY <2>1, <2>4 DEF UndoDNA
    <2>6. /\ pc[p] = "undoDNA" /\ pc'[p] = "undoReference"
          /\ session'[p] = session[p]
        BY <1>1, <2>4, Stepping DEF UndoDNA, Shape, Kept, At
    <2>7. session[p].status = "ANALYZING"
        BY <1>1, <2>6 DEF Shape, FollowsAll, Follows
    <2> QED BY <2>5, <2>6, <2>7 DEF Abandoned
  <1> QED BY <1>4, <1>5

\* A step that leaves an analysis and the SCANs alone.
LEMMA BereftElsewhere ==
    ASSUME NEW n \in Analyses, Grounded(n), Excused(n),
           pc'[n] \in {pc[n], "dead"}, session'[n] = session[n], lost \subseteq lost',
           Abandoned(Target[n]) => Abandoned(Target[n])',
           HasAnalysis(Target[n]) => HasAnalysis(Target[n])' \/ Abandoned(Target[n])'
    PROVE  (Grounded(n) /\ Excused(n))'
    BY DEF Grounded, Excused

\* What keeps the SCANs and their Design DNA keeps what analyses rest on.
LEMMA ScansAlone ==
    ASSUME dna' = dna, NEW r \in References,
           \A s \in Scans : pc'[s] \in {pc[s], "dead"} /\ session'[s] = session[s]
    PROVE  /\ Abandoned(r) => Abandoned(r)'
           /\ HasAnalysis(r) => HasAnalysis(r)'
    BY DEF Abandoned, HasAnalysis

\* A step of the analysis itself.
LEMMA AnalysisBereft ==
    ASSUME Shape, NEW n \in Analyses, Grounded(n), Excused(n), AnalysisStep(n)
    PROVE  (Grounded(n) /\ Excused(n))'
  <1>1. n \in Requests /\ n \in Processes /\ Moves(n) /\ Target[n] \in References
    BY RequestMoves, RequestsAssumption DEF RequestStep, Requests, Processes
  <1>2. dna' = dna
    BY DEF AnalysisStep, StartAnalysis, SaveDraft, Begin, AnalysisAnswer, Answer, CommitAnalysis,
           Catch, artifacts
  <1>3. \A s \in Scans : pc'[s] = pc[s] /\ session'[s] = session[s]
    BY <1>1, RequestsAssumption DEF Moves, Requests, Processes
  <1>4. /\ Abandoned(Target[n]) => Abandoned(Target[n])'
        /\ HasAnalysis(Target[n]) => HasAnalysis(Target[n])'
    BY <1>1, <1>2, <1>3, ScansAlone
  <1>5. Follows(n)
    BY <1>1 DEF Shape, FollowsAll
  <1>6. CASE StartAnalysis(n)
    <2>1. /\ pc[n] = "idle" /\ session'[n] = session[n]
          /\ pc'[n] = IF HasAnalysis(Target[n]) THEN "draft" ELSE "done"
        BY <1>1, <1>6, Stepping DEF StartAnalysis, Shape, Kept, At
    <2>2. session[n].status = "NONE"
        BY <1>5, <2>1 DEF Follows
    <2> QED BY <1>4, <2>1, <2>2 DEF Grounded, Excused
  <1>7. CASE ~StartAnalysis(n)
    <2>1. pc[n] = "draft" \/ session[n].status # "NONE"
        BY <1>5, <1>7 DEF AnalysisStep, SaveDraft, Begin, AnalysisAnswer, Answer, CommitAnalysis,
                          Catch, At, Follows
    <2>2. HasAnalysis(Target[n]) \/ Abandoned(Target[n])
        BY <2>1 DEF Grounded
    <2>3. Grounded(n)'
        BY <1>4, <2>2 DEF Grounded
    <2>4. CASE SaveDraft(n)
        <3>1. pc[n] = "draft" /\ Draft(n) \in Record /\ Draft(n).status = "DRAFT"
            BY <1>1, <2>4, DraftRecord DEF SaveDraft, At, Shape, Typed
        <3>2. session[n].status = "NONE" /\ session'[n] \in {session[n], Draft(n)}
            BY <1>1, <1>5, <2>4, <3>1, Saving DEF SaveDraft, Shape, Typed, Follows
        <3> QED BY <2>3, <3>1, <3>2 DEF Excused
    <2>5. CASE Begin(n)
        <3>1. pc[n] = "begin" /\ session[n].status = "DRAFT"
            BY <1>5, <2>5 DEF Begin, At, Follows
        <3>2. \/ pc'[n] = "agent"
              \/ n \in lost'
              \/ session'[n] = session[n]
            BY <1>1, <2>5, Stepping DEF Begin, UnrecordedBegin, Shape, Kept
        <3> QED BY <2>3, <3>1, <3>2 DEF Excused
    <2>6. CASE AnalysisAnswer(n)
        <3>1. pc'[n] # "done"
            BY <1>1, <2>6, Stepping DEF AnalysisAnswer, Answer, Shape, Kept
        <3> QED BY <2>3, <3>1 DEF Excused
    <2>7. CASE CommitAnalysis(n)
        <3>1. Ready(n) \in Record /\ Ready(n).status = "RESULT_READY"
            BY <1>1, SavedRecords DEF Shape, Typed
        <3>2. pc'[n] = "catch" \/ session'[n] = Ready(n)
            BY <1>1, <2>7, <3>1, Saving, Stepping DEF CommitAnalysis, Shape, Typed, Kept
        <3> QED BY <2>3, <3>1, <3>2 DEF Excused
    <2>8. CASE Catch(n)
        <3>1. Failed(n) \in Record /\ Failed(n).error
            BY <1>1, SavedRecords DEF Shape, Typed
        <3>2. session'[n] = Failed(n) \/ n \in lost' \/ Refused(n)
            BY <1>1, <2>8, <3>1, Saving DEF Catch, Shape, Typed
        <3>3. Refused(n) => Abandoned(Target[n])
            BY <2>2 DEF Refused
        <3> QED BY <1>4, <2>3, <3>1, <3>2, <3>3 DEF Excused
    <2> QED BY <1>7, <2>4, <2>5, <2>6, <2>7, <2>8 DEF AnalysisStep
  <1> QED BY <1>6, <1>7

\* At first no analysis has begun.
LEMMA BereftInit == Init => Bereft
    BY DEF Init, Bereft, Grounded, Excused, NoSession, Requests

\* Every step keeps what excuses an analysis.
LEMMA BereftNext ==
    ASSUME Shape, ReadAll, Bereft, Next
    PROVE  Bereft'
  <1> SUFFICES ASSUME NEW n \in Analyses PROVE (Grounded(n) /\ Excused(n))'
    BY DEF Bereft
  <1>1. /\ n \in Requests /\ n \in Processes /\ n \notin Scans /\ n \notin Evolves
        /\ Target[n] \in References /\ n \notin Approvers
        /\ Grounded(n) /\ Excused(n)
    BY RequestsAssumption DEF Bereft, Requests, Processes
  <1>2. ASSUME NEW p \in Requests, RequestStep(p), p # n
        PROVE  (Grounded(n) /\ Excused(n))'
    <2>1. /\ pc'[n] = pc[n] /\ session'[n] = session[n] /\ lost \subseteq lost'
        BY <1>1, <1>2, RequestMoves DEF Moves
    <2>2. CASE p \in Scans
        <3>1. ScanStep(p)
            BY <1>2, <2>2, RequestsAssumption DEF RequestStep
        <3> QED BY <1>1, <2>1, <2>2, <3>1, ScanLeaves, BereftElsewhere
    <2>3. CASE p \notin Scans
        <3>1. EvolveStep(p) \/ AnalysisStep(p)
            BY <1>2, <2>3 DEF RequestStep
        <3>2. dna' = dna
            BY <3>1 DEF EvolveStep, AnalysisStep, StartEvolve, LoadAnalyses, SaveDraft, Begin,
                        EvolveAnswer, Answer, Recheck, CommitResult, Await, Catch, StartAnalysis,
                        AnalysisAnswer, CommitAnalysis, artifacts
        <3>3. \A s \in Scans : pc'[s] = pc[s] /\ session'[s] = session[s]
            BY <1>2, <2>3, RequestMoves DEF Moves, Requests, Processes
        <3> QED BY <1>1, <2>1, <3>2, <3>3, ScansAlone, BereftElsewhere
    <2> QED BY <2>2, <2>3
  <1>3. ASSUME RequestStep(n) PROVE (Grounded(n) /\ Excused(n))'
    <2>1. AnalysisStep(n)
        BY <1>1, <1>3 DEF RequestStep
    <2> QED BY <1>1, <2>1, AnalysisBereft
  <1>4. ASSUME NEW a \in Approvers, ApprovalStep(a) PROVE (Grounded(n) /\ Excused(n))'
    <2>1. Handles(a)
        BY <1>4, ApproverHandles
    <2>2. \A p \in Requests \ Evolves : pc'[p] = pc[p] /\ session'[p] = session[p]
        BY <2>1, RequestsAssumption DEF Handles, Decided, Processes
    <2>3. \A s \in Scans : s \in Requests \ Evolves
        BY RequestsAssumption DEF Requests
    <2> QED BY <1>1, <2>1, <2>2, <2>3, ScansAlone, BereftElsewhere DEF Handles
  <1>5. ASSUME NEW p \in Processes, Die(p) PROVE (Grounded(n) /\ Excused(n))'
    <2>1. /\ UNCHANGED <<dna, session, lost>>
          /\ \A q \in Processes : pc'[q] \in {pc[q], "dead"}
        BY <1>5, Dies
    <2>2. \A s \in Scans : s \in Processes
        BY DEF Processes, Requests
    <2> QED BY <1>1, <2>1, <2>2, ScansAlone, BereftElsewhere
  <1>6. ASSUME ChangeEvidence PROVE (Grounded(n) /\ Excused(n))'
    <2>1. UNCHANGED <<dna, session, lost, pc>>
        BY <1>6, Changes
    <2> QED BY <1>1, <2>1, ScansAlone, BereftElsewhere
  <1> QED BY <1>1, <1>2, <1>3, <1>4, <1>5, <1>6, Steps

-----------------------------------------------------------------------------
(* The evidence of a result.                                                *)

\* The evidence of a session its request leaves alone.
LEMMA FoundedElsewhere ==
    ASSUME FoundedAll, NEW e \in Evolves,
           pc'[e] = pc[e], kept'[e] = kept[e], session'[e] = session[e], answeredAt'[e] = answeredAt[e]
    PROVE  Founded(e)'
    BY DEF FoundedAll, Founded, Result, Approved

\* The evidence: An EVOLVE starts with the evidence in force.
LEMMA StartEvolveFounded ==
    ASSUME Shape, FoundedAll, NEW e \in Evolves, StartEvolve(e)
    PROVE  Founded(e)'
  <1>1. e \in Requests /\ e \in Processes /\ e \notin Analyses
    BY RequestsAssumption DEF Requests, Processes
  <1>2. Founded(e) /\ Follows(e)
    BY <1>1 DEF FoundedAll, Shape, FollowsAll
  <1>3. pc[e] = "idle" /\ pc'[e] \in {"analyses", "done"}
    BY <1>1, Stepping DEF StartEvolve, Shape, Kept, At
  <1>4. UNCHANGED <<session, answeredAt>>
    BY DEF StartEvolve, history
  <1> QED BY <1>2, <1>3, <1>4 DEF Founded, Follows, Result, Approved

\* The evidence: An EVOLVE loads its Design DNA.
LEMMA LoadAnalysesFounded ==
    ASSUME Shape, FoundedAll, NEW e \in Evolves, LoadAnalyses(e)
    PROVE  Founded(e)'
  <1>1. e \in Requests /\ e \in Processes /\ e \notin Analyses
    BY RequestsAssumption DEF Requests, Processes
  <1>2. Founded(e) /\ Follows(e)
    BY <1>1 DEF FoundedAll, Shape, FollowsAll
  <1>3. pc[e] = "analyses" /\ pc'[e] \in {"draft", "done"}
    BY <1>1, Stepping DEF LoadAnalyses, Shape, Kept, At
  <1>4. UNCHANGED <<session, kept, answeredAt>>
    BY DEF LoadAnalyses, history
  <1> QED BY <1>2, <1>3, <1>4 DEF Founded, Follows, Result, Approved

\* The evidence: the DRAFT is saved.
LEMMA SaveDraftFounded ==
    ASSUME Shape, FoundedAll, NEW e \in Evolves, SaveDraft(e)
    PROVE  Founded(e)'
  <1>1. e \in Requests /\ e \in Processes /\ e \notin Analyses
    BY RequestsAssumption DEF Requests, Processes
  <1>2. Founded(e) /\ Follows(e)
    BY <1>1 DEF FoundedAll, Shape, FollowsAll
  <1>3. pc[e] = "draft" /\ pc'[e] \in {"begin", "done"}
    BY <1>1, Stepping DEF SaveDraft, Shape, Kept, At
  <1>4. UNCHANGED <<kept, answeredAt>>
    BY DEF SaveDraft, history
  <1>5. Draft(e) \in Record /\ Draft(e).status = "DRAFT" /\ Draft(e).evidence = kept[e]
    BY <1>1, <1>3, DraftRecord DEF Shape, Typed
  <1>6. session'[e] \in {session[e], Draft(e)}
    BY <1>1, <1>5, Saving DEF SaveDraft, Shape, Typed
  <1> QED BY <1>2, <1>3, <1>4, <1>5, <1>6 DEF Founded, Follows, Result, Approved

\* The evidence: DRAFT becomes ANALYZING.
LEMMA BeginFounded ==
    ASSUME Shape, FoundedAll, NEW e \in Evolves, Begin(e)
    PROVE  Founded(e)'
  <1>1. e \in Requests /\ e \in Processes /\ e \notin Analyses
    BY RequestsAssumption DEF Requests, Processes
  <1>2. Founded(e) /\ Follows(e)
    BY <1>1 DEF FoundedAll, Shape, FollowsAll
  <1>3. pc[e] = "begin" /\ pc'[e] \in {"agent", "done", "catch"}
    BY <1>1, Stepping DEF Begin, Shape, Kept, At, OnRefusedBegin
  <1>4. UNCHANGED <<kept, answeredAt>>
    BY DEF Begin, history
  <1>5. /\ Analyzing(e) \in Record
        /\ Analyzing(e).status = "ANALYZING"
        /\ Analyzing(e).evidence = session[e].evidence
    BY <1>1, <1>3, SavedRecords DEF Shape, Typed
  <1>6. session'[e] \in {session[e], Analyzing(e)}
    BY <1>1, <1>5, Saving DEF Begin, Shape, Typed
  <1> QED BY <1>2, <1>3, <1>4, <1>5, <1>6 DEF Founded, Follows, Result, Approved

\* The evidence: the agent answers an EVOLVE.
LEMMA EvolveAnswerFounded ==
    ASSUME Shape, FoundedAll, NEW e \in Evolves, EvolveAnswer(e)
    PROVE  Founded(e)'
  <1>1. e \in Requests /\ e \in Processes /\ e \notin Analyses
    BY RequestsAssumption DEF Requests, Processes
  <1>2. Founded(e) /\ Follows(e)
    BY <1>1 DEF FoundedAll, Shape, FollowsAll
  <1>3. pc[e] = "agent" /\ pc'[e] \in {"recheck", "catch"}
    BY <1>1, Stepping DEF EvolveAnswer, Answer, Shape, Kept, At
  <1>4. UNCHANGED <<session, kept>> /\ answeredAt'[e] = evidence
    BY DEF EvolveAnswer, Answer, Shape, Kept
  <1>5. evidence \in Nat
    BY RequestsAssumption DEF Shape, Typed
  <1>6. kept[e] \in 0 .. evidence
    BY <1>3 DEF Shape, Kept
  <1> QED BY <1>2, <1>3, <1>4, <1>5, <1>6 DEF Founded, Follows, Result, Approved

\* The evidence: the evidence is read again.
LEMMA RecheckFounded ==
    ASSUME Shape, FoundedAll, NEW e \in Evolves, Recheck(e)
    PROVE  Founded(e)'
  <1>1. e \in Requests /\ e \in Processes /\ e \notin Analyses
    BY RequestsAssumption DEF Requests, Processes
  <1>2. Founded(e) /\ Follows(e)
    BY <1>1 DEF FoundedAll, Shape, FollowsAll
  <1>3. /\ pc[e] = "recheck" /\ pc'[e] \in {"commit", "catch"}
        /\ pc'[e] = "commit" => evidence = kept[e]
    BY <1>1, Stepping DEF Recheck, Shape, Kept, At
  <1>4. UNCHANGED <<session, kept, answeredAt>>
    BY DEF Recheck, history
  <1>5. answeredAt[e] \in 0 .. evidence /\ kept[e] \in 0 .. evidence
    BY <1>3 DEF Shape, Kept
  <1>6. evidence \in Nat
    BY RequestsAssumption DEF Shape, Typed
  <1>7. pc'[e] = "commit" => answeredAt[e] = kept[e]
    BY <1>2, <1>3, <1>5, <1>6 DEF Founded
  <1> QED BY <1>2, <1>3, <1>4, <1>7 DEF Founded, Follows, Result, Approved

\* The evidence: the EVOLVE result is committed.
LEMMA CommitResultFounded ==
    ASSUME Shape, FoundedAll, NEW e \in Evolves, CommitResult(e)
    PROVE  Founded(e)'
  <1>1. e \in Requests /\ e \in Processes /\ e \notin Analyses
    BY RequestsAssumption DEF Requests, Processes
  <1>2. Founded(e) /\ Follows(e)
    BY <1>1 DEF FoundedAll, Shape, FollowsAll
  <1>3. pc[e] = "commit" /\ pc'[e] \in {"await", "catch"}
    BY <1>1, Stepping DEF CommitResult, Shape, Kept, At
  <1>4. UNCHANGED <<kept, answeredAt>>
    BY DEF CommitResult, history
  <1>5. /\ Ready(e) \in Record
        /\ Ready(e).status = "RESULT_READY"
        /\ Ready(e).evidence = session[e].evidence
    BY <1>1, <1>3, SavedRecords DEF Shape, Typed
  <1>6. session'[e] \in {session[e], Ready(e)}
    BY <1>1, <1>5, Saving DEF CommitResult, Shape, Typed
  <1> QED BY <1>2, <1>3, <1>4, <1>5, <1>6 DEF Founded, Follows, Result, Approved

\* The evidence: the EVOLVE result is put up for decision.
LEMMA AwaitFounded ==
    ASSUME Shape, FoundedAll, NEW e \in Evolves, Await(e)
    PROVE  Founded(e)'
  <1>1. e \in Requests /\ e \in Processes /\ e \notin Analyses
    BY RequestsAssumption DEF Requests, Processes
  <1>2. Founded(e) /\ Follows(e)
    BY <1>1 DEF FoundedAll, Shape, FollowsAll
  <1>3. pc[e] = "await" /\ pc'[e] \in {"done"}
    BY <1>1, Stepping DEF Await, Shape, Kept, At, OnPersistedFailure
  <1>4. UNCHANGED <<kept, answeredAt>>
    BY DEF Await, history
  <1>5. /\ Awaiting(e) \in Record
        /\ Awaiting(e).status = "AWAITING_DECISION"
        /\ Awaiting(e).evidence = session[e].evidence
    BY <1>1, <1>3, SavedRecords DEF Shape, Typed
  <1>6. session'[e] \in {session[e], Awaiting(e)}
    BY <1>1, <1>5, Saving DEF Await, Shape, Typed
  <1> QED BY <1>2, <1>3, <1>4, <1>5, <1>6 DEF Founded, Follows, Result, Approved

\* The evidence: the failure is recorded.
LEMMA CatchFounded ==
    ASSUME Shape, FoundedAll, NEW e \in Evolves, Catch(e)
    PROVE  Founded(e)'
  <1>1. e \in Requests /\ e \in Processes /\ e \notin Analyses
    BY RequestsAssumption DEF Requests, Processes
  <1>2. Founded(e) /\ Follows(e)
    BY <1>1 DEF FoundedAll, Shape, FollowsAll
  <1>3. pc[e] = "catch" /\ pc'[e] \in {"done"}
    BY <1>1, Stepping DEF Catch, Shape, Kept, At
  <1>4. UNCHANGED <<kept, answeredAt>>
    BY DEF Catch, history
  <1>5. /\ Failed(e) \in Record
        /\ Failed(e).status = "ANALYZING"
        /\ Failed(e).evidence = session[e].evidence
    BY <1>1, <1>3, SavedRecords DEF Shape, Typed
  <1>6. session'[e] \in {session[e], Failed(e)}
    BY <1>1, <1>5, Saving DEF Catch, Shape, Typed
  <1> QED BY <1>2, <1>3, <1>4, <1>5, <1>6 DEF Founded, Follows, Result, Approved

\* At first no session names any evidence.
LEMMA FoundedInit == Init => FoundedAll
    BY DEF Init, FoundedAll, Founded, Requests, NoSession, Result, Approved

\* No step makes a result name other evidence than was in force at its answer.
LEMMA FoundedNext ==
    ASSUME Shape, FoundedAll, ReadAll, Next
    PROVE  FoundedAll'
  <1>1. ASSUME NEW p \in Requests, RequestStep(p), NEW e \in Evolves PROVE Founded(e)'
    <2>1. Moves(p)
        BY <1>1, RequestMoves
    <2>2. CASE p # e
        <3>1. answeredAt'[e] = answeredAt[e]
            BY <1>1, <2>2, RequestsAssumption
            DEF RequestStep, ScanStep, EvolveStep, AnalysisStep, Shape, Kept, history, StartScan, SaveDraft,
                Begin, ScanAnswer, CheckScan, OpenCommit, WriteDNA, WriteReference, WriteBody, PublishHead,
                UndoDNA, UndoReference, Catch, StartEvolve, LoadAnalyses, EvolveAnswer, Recheck,
                CommitResult, Await, StartAnalysis, AnalysisAnswer, CommitAnalysis
        <3>2. e \in Requests \ {p} /\ e \in Processes \ {p}
            BY <2>2 DEF Requests, Processes
        <3> QED BY <2>1, <3>1, <3>2, FoundedElsewhere DEF Moves
    <2>3. CASE p = e
        <3>1. EvolveStep(e)
            BY <1>1, <2>3, RequestsAssumption DEF RequestStep
        <3> QED BY <3>1, StartEvolveFounded, LoadAnalysesFounded, SaveDraftFounded, BeginFounded,
                EvolveAnswerFounded, RecheckFounded, CommitResultFounded, AwaitFounded, CatchFounded
            DEF EvolveStep
    <2> QED BY <2>2, <2>3
  <1>2. ASSUME NEW a \in Approvers, ApprovalStep(a), NEW e \in Evolves PROVE Founded(e)'
    <2>1. Handles(a)
        BY <1>2, ApproverHandles
    <2>2. /\ e \in Requests
          /\ pc'[e] = pc[e]
          /\ kept'[e] = kept[e]
          /\ answeredAt'[e] = answeredAt[e]
        BY <2>1, RequestsAssumption DEF Handles, Requests, Processes
    <2>3. CASE session'[e] = session[e]
        BY <2>2, <2>3, FoundedElsewhere
    <2>4. CASE Decided(e)
        BY <2>2, <2>4 DEF Decided, FoundedAll, Founded, Result, Approved
    <2> QED BY <2>1, <2>2, <2>3, <2>4 DEF Handles
  <1>3. ASSUME NEW p \in Processes, Die(p), NEW e \in Evolves PROVE Founded(e)'
    <2>1. e \in Processes
        BY DEF Requests, Processes
    <2> QED BY <1>3, <2>1, Dies DEF FoundedAll, Founded, Result, Approved
  <1>4. ASSUME ChangeEvidence, NEW e \in Evolves PROVE Founded(e)'
    BY <1>4, Changes, FoundedElsewhere
  <1> QED BY <1>1, <1>2, <1>3, <1>4, Steps DEF FoundedAll

-----------------------------------------------------------------------------
(* Decisions.                                                               *)

\* What an approver has read stays the record that was put up for decision.
LEMMA ReadNext ==
    ASSUME Shape, ReadAll, Next
    PROVE  ReadAll'
  <1>1. ASSUME NEW p \in Requests, RequestStep(p), NEW a \in Approvers PROVE Read(a)'
    <2>1. Moves(p) /\ a # p /\ a \in Processes
        BY <1>1, RequestMoves, RequestsAssumption DEF Processes
    <2>2. pc'[a] = pc[a] /\ kept'[a] = kept[a]
        BY <2>1 DEF Moves
    <2>3. SUFFICES ASSUME pc[a] # "idle" PROVE Read(a)'
        BY <2>2 DEF Read
    <2>4. kept[a].session \in Requests /\ kept[a].session # p
        BY <2>1, <2>3, AtWork DEF Moves
    <2>5. session'[kept[a].session] = session[kept[a].session]
        BY <2>1, <2>4 DEF Moves
    <2>6. Read(a)
        BY DEF ReadAll
    <2> QED BY <2>2, <2>3, <2>5, <2>6 DEF Read
  <1>2. ASSUME NEW b \in Approvers, ApprovalStep(b), NEW a \in Approvers PROVE Read(a)'
    <2>1. Handles(b)
        BY <1>2, ApproverHandles
    <2>2. SUFFICES ASSUME a # b, pc[a] # "idle" PROVE Read(a)'
        BY <2>1 DEF Handles, Read, Processes
    <2>3. pc'[a] = pc[a] /\ kept'[a] = kept[a]
        BY <2>1, <2>2 DEF Handles, Processes
    <2>4. kept[a].session \in Requests
        BY <2>2, AtWork
    <2>5. Read(a)
        BY DEF ReadAll
    <2>6. session'[kept[a].session] = session[kept[a].session] \/ Decided(kept[a].session)
        BY <2>1, <2>4 DEF Handles
    <2> QED BY <2>2, <2>3, <2>5, <2>6 DEF Read, Decided
  <1>3. ASSUME NEW p \in Processes, Die(p), NEW a \in Approvers PROVE Read(a)'
    BY <1>3, Dies DEF ReadAll, Read, Processes
  <1>4. ASSUME ChangeEvidence, NEW a \in Approvers PROVE Read(a)'
    BY <1>4, Changes DEF ReadAll, Read
  <1> QED BY <1>1, <1>2, <1>3, <1>4, Steps DEF ReadAll

\* What an approver relies on is disturbed neither by a request ...
LEMMA HoldsElsewhere ==
    ASSUME NEW a \in Approvers, Holds(a), pc'[a] \in {pc[a], "idle", "claim", "release", "done", "dead"},
           kept'[a] = kept[a],
           pc[a] # "idle" => /\ session'[kept[a].session] = session[kept[a].session]
                             /\ claim'[kept[a].session] = claim[kept[a].session]
    PROVE  Holds(a)'
    BY DEF Holds

\* Unless a lease expires, nobody takes the claim from an approver that relies on it.
LEMMA HoldsNext ==
    ASSUME Shape, ReadAll, HoldsAll, Next, evicted' = {}
    PROVE  evicted = {} /\ \A a \in Approvers : Holds(a)'
  <1>1. ASSUME NEW p \in Requests, RequestStep(p), NEW a \in Approvers
        PROVE  evicted = {} /\ Holds(a)'
    <2>1. Moves(p) /\ a # p /\ a \in Processes
        BY <1>1, RequestMoves, RequestsAssumption DEF Processes
    <2>2. /\ pc'[a] = pc[a] /\ kept'[a] = kept[a] /\ UNCHANGED claim /\ evicted = {}
        BY <2>1 DEF Moves, approvals
    <2>3. Holds(a)
        BY <2>2 DEF HoldsAll
    <2>4. CASE pc[a] = "idle"
        BY <2>2, <2>4 DEF Holds
    <2>5. CASE pc[a] # "idle"
        <3>1. kept[a].session \in Requests /\ kept[a].session # p
            BY <2>1, <2>5, AtWork DEF Moves
        <3>2. session'[kept[a].session] = session[kept[a].session]
            BY <2>1, <3>1 DEF Moves
        <3> QED BY <2>2, <2>3, <3>2, HoldsElsewhere
    <2> QED BY <2>2, <2>4, <2>5
  <1>2. ASSUME NEW b \in Approvers, NEW e \in Evolves, OpenApproval(b, e), NEW a \in Approvers
        PROVE  evicted = {} /\ Holds(a)'
    <2>1. Handles(b) /\ pc'[b] = "claim" /\ UNCHANGED <<session, claim, drafts, evicted>>
        BY <1>2, OpenApprovalHandles
    <2>2. Holds(a)
        BY <2>1 DEF HoldsAll
    <2>3. CASE a = b
        BY <2>1, <2>3 DEF Holds
    <2>4. CASE a # b
        BY <2>1, <2>2, <2>4, HoldsElsewhere DEF Handles, Processes
    <2> QED BY <2>1, <2>3, <2>4
  <1>3. ASSUME NEW b \in Approvers, TakeClaim(b), NEW a \in Approvers
        PROVE  evicted = {} /\ Holds(a)'
    <2>1. /\ Handles(b) /\ pc[b] = "claim" /\ pc'[b] \in {"reread", "done"}
          /\ UNCHANGED <<session, kept, drafts>>
          /\ IF pc'[b] = "reread"
              THEN /\ claim' =
                        [claim EXCEPT ![kept[b].session] = [owner |-> b, record |-> kept[b].record]]
                   /\ \/ /\ UNCHANGED evicted
                         /\ claim[kept[b].session] = None \/ Stale(kept[b].session)
                      \/ evicted' = evicted \union {Owner(kept[b].session)}
              ELSE UNCHANGED <<claim, evicted>>
        BY <1>3, TakeClaimHandles
    <2>2. evicted = {} /\ (pc'[b] = "reread" => claim[kept[b].session] = None \/ Stale(kept[b].session))
        BY <2>1
    <2>3. Holds(a)
        BY <2>2 DEF HoldsAll
    <2>4. kept[b].session \in Evolves
        BY <2>1, AtWork
    <2>5. CASE a = b /\ pc'[b] = "reread"
        BY <2>1, <2>4, <2>5 DEF Holds, Shape, Typed
    <2>6. CASE pc'[b] = "done"
        BY <2>1, <2>2, <2>3, <2>6, HoldsElsewhere DEF Handles, Processes
    <2>7. CASE a # b /\ pc'[b] = "reread" /\ kept[a].session # kept[b].session
        <3>1. pc[a] # "idle" => claim'[kept[a].session] = claim[kept[a].session]
            BY <2>1, <2>4, <2>7, AtWork DEF Shape, Typed
        <3> QED BY <2>1, <2>2, <2>3, <2>7, <3>1, HoldsElsewhere DEF Handles, Processes
    <2>8. CASE a # b /\ pc'[b] = "reread" /\ kept[a].session = kept[b].session
        <3>1. pc'[a] = pc[a]
            BY <2>1, <2>8 DEF Handles, Processes
        <3>2. SUFFICES ASSUME pc[a] \in {"reread", "pair"},
                              session[kept[a].session] = kept[a].record
                       PROVE  FALSE
            BY <2>1, <2>2, <2>3, <3>1 DEF Holds
        <3>3. claim[kept[a].session] = [owner |-> a, record |-> kept[a].record]
            BY <2>3, <3>2 DEF Holds
        <3>4. kept[a] \in [session : Evolves, record : Record]
            BY <3>2, AtWork
        <3>5. claim[kept[a].session] # None
            BY <3>3, <3>4, ClaimAssumption
        <3>6. ~Stale(kept[a].session)
            BY <3>2, <3>3 DEF Stale, Owner
        <3> QED BY <2>2, <2>8, <3>5, <3>6
    <2> QED BY <2>1, <2>2, <2>5, <2>6, <2>7, <2>8
  <1>4. ASSUME NEW b \in Approvers, Reread(b), NEW a \in Approvers
        PROVE  evicted = {} /\ Holds(a)'
    <2>1. /\ Handles(b) /\ pc[b] = "reread" /\ pc'[b] \in {"pair", "release"}
          /\ UNCHANGED <<session, kept, drafts, claim, evicted>>
          /\ pc'[b] = "pair" => session[kept[b].session] = kept[b].record
        BY <1>4, RereadHandles
    <2>2. Holds(a)
        BY <2>1 DEF HoldsAll
    <2>3. CASE a = b
        BY <2>1, <2>2, <2>3 DEF Holds
    <2>4. CASE a # b
        BY <2>1, <2>2, <2>4, HoldsElsewhere DEF Handles, Processes
    <2> QED BY <2>1, <2>3, <2>4
  <1>5. ASSUME NEW b \in Approvers, Approve(b), NEW a \in Approvers
        PROVE  evicted = {} /\ Holds(a)'
    <2>1. /\ Handles(b) /\ pc[b] = "pair" /\ pc'[b] = "release"
          /\ UNCHANGED <<kept, claim, evicted>>
          /\ \A p \in Requests \ {kept[b].session} : session'[p] = session[p]
          /\ Approved(session'[kept[b].session]) \/ session'[kept[b].session] = kept[b].record
        BY <1>5, ApproveHandles
    <2>2. Holds(a) /\ Holds(b)
        BY <2>1 DEF HoldsAll
    <2>3. CASE a = b
        BY <2>1, <2>3 DEF Holds
    <2>4. CASE a # b /\ pc[a] = "idle"
        BY <2>1, <2>4 DEF Holds, Handles, Processes
    <2>5. CASE a # b /\ pc[a] # "idle" /\ kept[a].session # kept[b].session
        <3>1. session'[kept[a].session] = session[kept[a].session]
            BY <2>1, <2>5, AtWork
        <3> QED BY <2>1, <2>2, <2>5, <3>1, HoldsElsewhere DEF Handles, Processes
    <2>6. CASE a # b /\ pc[a] # "idle" /\ kept[a].session = kept[b].session
        <3>1. /\ session[kept[b].session] = kept[b].record
              /\ claim[kept[b].session] = [owner |-> b, record |-> kept[b].record]
            BY <2>1, <2>2 DEF Holds
        <3>2. pc[a] # "pair"
            BY <2>2, <2>6, <3>1 DEF Holds
        <3>3. pc'[a] = pc[a]
            BY <2>1, <2>6 DEF Handles, Processes
        <3>4. /\ kept[a].record = Proposed(session[kept[a].session])
              /\ session[kept[a].session] \in Record
            BY <2>6, AtWork
        <3>5. kept[a].record.status = "AWAITING_DECISION"
            BY <3>4 DEF Proposed, Record
        <3>6. CASE Approved(session'[kept[b].session])
            BY <2>1, <2>6, <3>2, <3>3, <3>5, <3>6 DEF Holds, Approved
        <3>7. CASE session'[kept[b].session] = kept[b].record
            BY <2>1, <2>2, <2>6, <3>1, <3>3, <3>7, HoldsElsewhere
        <3> QED BY <2>1, <3>6, <3>7
    <2> QED BY <2>1, <2>3, <2>4, <2>5, <2>6
  <1>6. ASSUME NEW b \in Approvers, Release(b), NEW a \in Approvers
        PROVE  evicted = {} /\ Holds(a)'
    <2>1. /\ Handles(b) /\ pc[b] = "release" /\ pc'[b] = "done"
          /\ UNCHANGED <<session, kept, drafts, evicted>>
          /\ \/ claim' = claim
             \/ /\ claim[kept[b].session] # None /\ Owner(kept[b].session) = b
                /\ claim' = [claim EXCEPT ![kept[b].session] = None]
        BY <1>6, ReleaseHandles
    <2>2. Holds(a)
        BY <2>1 DEF HoldsAll
    <2>3. CASE a = b
        BY <2>1, <2>3 DEF Holds
    <2>4. CASE a # b /\ (claim' = claim \/ kept[a].session # kept[b].session)
        <3>1. pc[a] # "idle" => claim'[kept[a].session] = claim[kept[a].session]
            BY <2>1, <2>4, AtWork DEF Shape, Typed
        <3> QED BY <2>1, <2>2, <2>4, <3>1, HoldsElsewhere DEF Handles, Processes
    <2>5. CASE a # b /\ kept[a].session = kept[b].session /\ Owner(kept[b].session) = b
        <3>1. pc'[a] = pc[a]
            BY <2>1, <2>5 DEF Handles, Processes
        <3>2. ~(pc[a] \in {"reread", "pair"} /\ session[kept[a].session] = kept[a].record)
            BY <2>2, <2>5 DEF Holds, Owner
        <3> QED BY <2>1, <2>2, <3>1, <3>2 DEF Holds
    <2> QED BY <2>1, <2>3, <2>4, <2>5
  <1>7. ASSUME NEW p \in Processes, Die(p), NEW a \in Approvers
        PROVE  evicted = {} /\ Holds(a)'
    <2>1. evicted = {} /\ UNCHANGED <<session, claim, kept>> /\ pc'[a] \in {pc[a], "dead"}
        BY <1>7, Dies DEF Processes
    <2> QED BY <2>1, HoldsElsewhere DEF HoldsAll
  <1>8. ASSUME ChangeEvidence, NEW a \in Approvers
        PROVE  evicted = {} /\ Holds(a)'
    <2>1. evicted = {} /\ UNCHANGED <<session, claim, kept, pc>>
        BY <1>8, Changes
    <2> QED BY <2>1, HoldsElsewhere DEF HoldsAll
  <1>9. evicted = {}
    BY <1>1, <1>2, <1>3, <1>4, <1>5, <1>6, <1>7, <1>8, Steps, RequestMoves, Dies, Changes
    DEF ApprovalStep, Moves
  <1> QED BY <1>1, <1>2, <1>3, <1>4, <1>5, <1>6, <1>7, <1>8, <1>9, Steps DEF ApprovalStep

\* A draft is made with the decision it belongs to, and both stay.
LEMMA PairedNext ==
    ASSUME Shape, ReadAll, HoldsAll, Paired, Next
    PROVE  Paired'
  <1> DEFINE Agrees == /\ \A d \in drafts : Approved(session[d.session]) /\ session[d.session].chosen = d.by
                       /\ \A e \in Evolves : Approved(session[e]) =>
                             [session |-> e, by |-> session[e].chosen] \in drafts
  <1>1. ASSUME NEW p \in Requests, RequestStep(p) PROVE Paired'
    <2>1. Moves(p) /\ UNCHANGED <<drafts, evicted>>
        BY <1>1, RequestMoves DEF Moves, approvals
    <2>2. ~Approved(session[p]) /\ ~Approved(session'[p])
        BY <2>1 DEF Moves, Shape, FollowsAll, Follows, Approved
    <2>3. \A q \in Requests \ {p} : session'[q] = session[q]
        BY <2>1 DEF Moves
    <2>4. \A d \in drafts : d.session \in Requests
        BY DEF Shape, Typed, Requests
    <2>5. Agrees => Agrees'
        BY <2>1, <2>2, <2>3, <2>4 DEF Approved, Requests
    <2> QED BY <2>1, <2>5 DEF Paired
  <1>2. ASSUME NEW a \in Approvers, Approve(a) PROVE Paired'
    <2> DEFINE e == kept[a].session
               d == [session |-> e, by |-> a]
    <2>1. /\ pc[a] = "pair" /\ UNCHANGED evicted
          /\ \A p \in Requests \ {e} : session'[p] = session[p]
          /\ \/ /\ Approved(session'[e]) /\ session'[e].chosen = a
                /\ drafts' = drafts \union {d}
             \/ /\ session'[e] = kept[a].record
                /\ UNCHANGED drafts
        BY <1>2, ApproveHandles
    <2>2. /\ e \in Evolves
          /\ e \in Requests
          /\ session[e] \in Record
          /\ kept[a].record = Proposed(session[e])
        BY <2>1, AtWork
    <2>3. IsFiniteSet(drafts')
        <3>1. IsFiniteSet(drafts)
            BY DEF Paired
        <3>2. IsFiniteSet(drafts \union {d})
            BY <3>1, FS_AddElement
        <3> QED BY <2>1, <3>1, <3>2
    <2>4. kept[a].record.status = "AWAITING_DECISION"
        BY <2>2, Statuses DEF Proposed, Record
    <2>5. evicted = {} => session[e] = kept[a].record /\ ~Approved(session[e])
        BY <2>1, <2>4 DEF HoldsAll, Holds, Approved
    <2>6. \A q \in drafts : q.session \in Requests
        BY DEF Shape, Typed, Requests
    <2> HIDE DEF e
    <2>7. evicted = {} => Agrees'
        <3> SUFFICES ASSUME evicted = {} PROVE Agrees'
            OBVIOUS
        <3>1. Agrees
            BY DEF Paired
        <3>2. \A q \in drafts : q.session # e
            BY <2>5, <3>1
        <3>3. CASE session'[e] = kept[a].record /\ UNCHANGED drafts
            BY <2>1, <2>5, <2>6, <3>1, <3>2, <3>3 DEF Approved, Requests
        <3>4. CASE Approved(session'[e]) /\ session'[e].chosen = a /\ drafts' = drafts \union {d}
            <4>1. \A q \in drafts' : Approved(session'[q.session]) /\ session'[q.session].chosen = q.by
                BY <2>1, <2>6, <3>1, <3>2, <3>4
            <4>2. \A f \in Evolves : Approved(session'[f]) =>
                             [session |-> f, by |-> session'[f].chosen] \in drafts'
                BY <2>1, <3>1, <3>4 DEF Requests
            <4> QED BY <4>1, <4>2 DEF Approved
        <3> QED BY <2>1, <3>3, <3>4
    <2> QED BY <2>1, <2>3, <2>7 DEF Paired
  <1>3. ASSUME UNCHANGED <<session, drafts>>, evicted' = {} => evicted = {} PROVE Paired'
    BY <1>3 DEF Paired, Approved
  <1>4. ASSUME NEW a \in Approvers, ApprovalStep(a), ~Approve(a) PROVE Paired'
    <2>1. UNCHANGED <<session, drafts>>
        BY <1>4, OpenApprovalHandles, TakeClaimHandles, RereadHandles, ReleaseHandles
        DEF ApprovalStep
    <2> QED BY <1>3, <2>1, HoldsNext
  <1>5. ASSUME NEW p \in Processes, Die(p) PROVE Paired'
    BY <1>3, <1>5, Dies
  <1>6. ASSUME ChangeEvidence PROVE Paired'
    BY <1>3, <1>6, Changes
  <1> QED BY <1>1, <1>2, <1>4, <1>5, <1>6, Steps

\* One draft for each approved session.
LEMMA OneApprovalHolds ==
    ASSUME Typed, Paired
    PROVE  OneApproval
  <1> SUFFICES ASSUME evicted = {}, NEW e \in Evolves
               PROVE  /\ Cardinality({d \in drafts : d.session = e}) <= 1
                      /\ Approved(session[e]) <=> \E d \in drafts : d.session = e
                      /\ Approved(session[e]) /\ Cardinality(drafts) = 1 => Direction = drafts
    BY DEF OneApproval
  <1>1. /\ \A d \in drafts : Approved(session[d.session]) /\ session[d.session].chosen = d.by
        /\ \A f \in Evolves : Approved(session[f]) =>
              [session |-> f, by |-> session[f].chosen] \in drafts
    BY DEF Paired
  <1>2. Approved(session[e]) <=> \E d \in drafts : d.session = e
    BY <1>1
  <1>3. Cardinality({d \in drafts : d.session = e}) <= 1
    <2> DEFINE D == {d \in drafts : d.session = e}
    <2>1. \A d \in D : d = [session |-> e, by |-> session[e].chosen]
        BY <1>1 DEF Typed
    <2>2. D = {} \/ D = {[session |-> e, by |-> session[e].chosen]}
        BY <2>1
    <2> HIDE DEF D
    <2>3. Cardinality(D) \in {0, 1}
        BY <2>2, FS_EmptySet, FS_Singleton
    <2>4. Cardinality(D) <= 1
        BY <2>3
    <2> QED BY <2>4 DEF D
  <1>4. Cardinality(drafts) = 1 => Direction = drafts
    <2> SUFFICES ASSUME Cardinality(drafts) = 1 PROVE Direction = drafts
        OBVIOUS
    <2>1. PICK d : drafts = {d}
        BY FS_Singleton DEF Paired
    <2> QED BY <1>1, <2>1 DEF Direction
  <1> QED BY <1>2, <1>3, <1>4

-----------------------------------------------------------------------------
(* What the SCANs do to the analysis of a reference.                        *)

Shared == Alone /\ RestorableAll /\ AnalyzedHasDNA /\ ResultBacked

\* What a SCAN that commits a reference alone may rely on.
Own(s) ==
    LET r == Target[s] IN
    /\ Restorable(s)
    /\ status[r] = "ANALYZED" => dna[r] # None \/ pc[s] \in Undoing
    /\ Backed(r) => status[r] = "ANALYZED" /\ dna[r] # None

\* Every SCAN has a reference.
LEMMA Targets == \A s \in Scans : s \in Requests /\ s \in Processes /\ s # None /\ Target[s] \in References
    BY RequestsAssumption DEF Requests, Processes

\* What the invariant says of a SCAN that commits alone.
LEMMA OwnFirst ==
    ASSUME Shared, NEW s \in Scans, pc[s] \in Committing, Target[s] \notin torn
    PROVE  Own(s)
  <1>1. Restorable(s)
    BY DEF Shared, RestorableAll
  <1>2. RollingBack(Target[s]) => pc[s] \in Undoing
    BY DEF RollingBack, Shared, Alone, Undoing, Committing
  <1>3. status[Target[s]] = "ANALYZED" => dna[Target[s]] # None \/ pc[s] \in Undoing
    BY <1>2, Targets DEF Shared, AnalyzedHasDNA, HasAnalysis
  <1>4. Backed(Target[s]) => status[Target[s]] = "ANALYZED" /\ dna[Target[s]] # None
    BY DEF Backed, Shared, ResultBacked, HasAnalysis
  <1> QED BY <1>1, <1>3, <1>4 DEF Own

\* A step that touches no artifact, and at most ends a commit.
LEMMA QuietShared ==
    ASSUME Shared, UNCHANGED <<status, dna>>, torn \subseteq torn',
           \A s \in Scans : /\ \/ pc'[s] = pc[s]
                               \/ pc'[s] \notin Committing /\ (pc[s] \in Undoing => Target[s] \in torn')
                            /\ pc[s] \in Committing => kept'[s] = kept[s]
                            /\ session'[s].status = "RESULT_READY" =>
                                  session[s].status = "RESULT_READY"
    PROVE  Shared'
  <1> USE DEF Undoing, Committing
  <1>1. Alone'
    BY DEF Shared, Alone
  <1>2. \A r : Backed(r)' => Backed(r)
    BY DEF Backed
  <1>3. RestorableAll'
    <2> SUFFICES ASSUME NEW s \in Scans, Target[s] \notin torn' PROVE Restorable(s)'
        BY DEF RestorableAll
    <2>1. Restorable(s)
        BY DEF Shared, RestorableAll
    <2>2. CASE pc'[s] \notin Committing
        BY <2>2 DEF Restorable
    <2>3. CASE pc'[s] = pc[s] /\ pc'[s] \in Committing
        BY <1>2, <2>1, <2>3 DEF Restorable
    <2> QED BY <2>2, <2>3
  <1>4. AnalyzedHasDNA'
    <2> SUFFICES ASSUME NEW r \in References, status'[r] = "ANALYZED", dna'[r] = None,
                        r \notin torn'
                 PROVE  RollingBack(r)'
        BY DEF AnalyzedHasDNA, HasAnalysis
    <2>1. RollingBack(r)
        BY DEF Shared, AnalyzedHasDNA, HasAnalysis
    <2> QED BY <2>1 DEF RollingBack
  <1>5. ResultBacked'
    BY DEF Shared, ResultBacked, HasAnalysis
  <1> QED BY <1>1, <1>3, <1>4, <1>5 DEF Shared

\* A step of the commit of one SCAN.
Commits(s) ==
    /\ \A t \in Scans \ {s} : pc'[t] = pc[t] /\ kept'[t] = kept[t] /\ session'[t] = session[t]
    /\ \A r \in References \ {Target[s]} : status'[r] = status[r] /\ dna'[r] = dna[r]
    /\ torn \subseteq torn'
    /\ \/ pc[s] \in Committing
       \/ pc[s] \notin Committing /\ (Overlapped(s) => Target[s] \in torn')

\* A commit need only look after its own reference.
LEMMA CommitsShared ==
    ASSUME Shared, NEW s \in Scans, Commits(s), Target[s] \notin torn' => Own(s)'
    PROVE  Shared'
  <1> USE DEF Commits
  <1>1. ASSUME NEW t \in Scans \ {s}, Target[t] = Target[s], pc[t] \in Committing
        PROVE  Target[s] \in torn'
    BY <1>1 DEF Shared, Alone, Overlapped
  <1>2. Alone'
    <2> SUFFICES ASSUME NEW t \in Scans, NEW u \in Scans, t # u, Target[t] = Target[u],
                        pc'[t] \in Committing', pc'[u] \in Committing'
                 PROVE  Target[t] \in torn'
        BY DEF Alone
    <2>1. CASE t = s
        BY <1>1, <2>1 DEF Committing
    <2>2. CASE u = s
        BY <1>1, <2>2 DEF Committing
    <2>3. CASE t # s /\ u # s
        BY <2>3 DEF Shared, Alone, Committing
    <2> QED BY <2>1, <2>2, <2>3
  <1>3. \A r : r # Target[s] => (Backed(r)' => Backed(r)) /\ (RollingBack(r) => RollingBack(r)')
    BY DEF Backed, RollingBack, Undoing
  <1>4. RestorableAll'
    <2> SUFFICES ASSUME NEW t \in Scans, Target[t] \notin torn' PROVE Restorable(t)'
        BY DEF RestorableAll
    <2>1. CASE t = s
        BY <2>1 DEF Own
    <2>2. CASE t # s /\ Target[t] = Target[s]
        <3>1. pc'[t] \notin Committing
            BY <1>1, <2>2
        <3> QED BY <3>1 DEF Restorable, Committing, Undoing
    <2>3. CASE t # s /\ Target[t] # Target[s]
        <3>1. Restorable(t)
            BY DEF Shared, RestorableAll
        <3>2. Backed(Target[t])' => Backed(Target[t])
            BY <1>3, <2>3
        <3>3. /\ status'[Target[t]] = status[Target[t]]
              /\ dna'[Target[t]] = dna[Target[t]]
              /\ pc'[t] = pc[t]
              /\ kept'[t] = kept[t]
            BY <2>3, Targets
        <3> QED BY <3>1, <3>2, <3>3 DEF Restorable, Undoing
    <2> QED BY <2>1, <2>2, <2>3
  <1>5. AnalyzedHasDNA'
    <2> SUFFICES ASSUME NEW r \in References, status'[r] = "ANALYZED", dna'[r] = None,
                        r \notin torn'
                 PROVE  RollingBack(r)'
        BY DEF AnalyzedHasDNA, HasAnalysis
    <2>1. CASE r = Target[s]
        BY <2>1 DEF Own, RollingBack
    <2>2. CASE r # Target[s]
        BY <1>3, <2>2 DEF Shared, AnalyzedHasDNA, HasAnalysis
    <2> QED BY <2>1, <2>2
  <1>6. ResultBacked'
    <2> SUFFICES ASSUME NEW t \in Scans, session'[t].status = "RESULT_READY",
                        Target[t] \notin torn'
                 PROVE  status'[Target[t]] = "ANALYZED" /\ dna'[Target[t]] # None
        BY DEF ResultBacked, HasAnalysis
    <2>1. CASE Target[t] = Target[s]
        <3>1. Backed(Target[s])'
            BY <2>1 DEF Backed
        <3> QED BY <2>1, <3>1 DEF Own
    <2>2. CASE Target[t] # Target[s]
        BY <2>2, Targets DEF Shared, ResultBacked, HasAnalysis
    <2> QED BY <2>1, <2>2
  <1> QED BY <1>2, <1>4, <1>5, <1>6 DEF Shared

-----------------------------------------------------------------------------
(* The steps of a commit, one by one.                                       *)

\* The analyses: A SCAN loads its reference.
LEMMA CheckScanShared ==
    ASSUME Shape, Shared, NEW s \in Scans, CheckScan(s)
    PROVE  Shared'
  <1> DEFINE r == Target[s]
  <1>1. Moves(s) /\ s \in Requests /\ s \in Processes /\ s # None /\ r \in References
    BY CheckScanMoves, Targets
  <1>2. \A t \in Scans \ {s} : pc'[t] = pc[t] /\ kept'[t] = kept[t] /\ session'[t] = session[t]
    BY <1>1, Targets DEF Moves
  <1>3. /\ pc[s] = "check" /\ pc'[s] = "original"
        /\ UNCHANGED <<status, dna, session>> /\ kept'[s].status = status[r]
        /\ torn' = torn \union (IF Overlapped(s) THEN {r} ELSE {})
    BY <1>1, Stepping DEF CheckScan, At, artifacts, Shape, Kept
  <1>4. r \notin torn' => ~RollingBack(r)
    BY <1>2, <1>3 DEF Overlapped, RollingBack, Undoing, Committing
  <1>7. Commits(s)
    BY <1>2, <1>3 DEF Commits, Committing
  <1>8. r \notin torn' => Own(s)'
    <2> SUFFICES ASSUME r \notin torn' PROVE Own(s)'
        OBVIOUS
    <2>1. Restorable(s)'
        BY <1>3 DEF Restorable, Undoing
    <2>2. status[r] = "ANALYZED" => dna[r] # None
        BY <1>1, <1>3, <1>4 DEF Shared, AnalyzedHasDNA, HasAnalysis
    <2>3. Backed(r)' => status[r] = "ANALYZED" /\ dna[r] # None
        BY <1>3 DEF Backed, Shared, ResultBacked, HasAnalysis
    <2> QED BY <1>3, <2>1, <2>2, <2>3 DEF Own
  <1> HIDE DEF r
  <1> QED BY <1>7, <1>8, CommitsShared DEF r

\* The analyses: the commit is opened.
LEMMA OpenCommitShared ==
    ASSUME Shape, Shared, NEW s \in Scans, OpenCommit(s)
    PROVE  Shared'
  <1> DEFINE r == Target[s]
  <1>1. Moves(s) /\ s \in Requests /\ s \in Processes /\ s # None /\ r \in References
    BY OpenCommitMoves, Targets
  <1>2. \A t \in Scans \ {s} : pc'[t] = pc[t] /\ kept'[t] = kept[t] /\ session'[t] = session[t]
    BY <1>1, Targets DEF Moves
  <1>3. /\ pc[s] = "original" /\ pc'[s] \in {"dna", "catch"}
        /\ UNCHANGED <<status, dna, session, torn>>
        /\ kept'[s] = [kept[s] EXCEPT !.dna = dna[r]]
    BY <1>1, Stepping DEF OpenCommit, At, artifacts, history, Shape, Kept
  <1>4. kept'[s].status = kept[s].status /\ kept'[s].dna = dna[r]
    BY <1>3 DEF Shape, Kept, Artifacts, Committing
  <1>7. Commits(s)
    BY <1>2, <1>3 DEF Commits, Committing
  <1>8. r \notin torn' => Own(s)'
    <2> SUFFICES ASSUME r \notin torn' PROVE Own(s)'
        OBVIOUS
    <2>1. Own(s)
        BY <1>3, OwnFirst DEF Committing
    <2>2. Backed(r)' => Backed(r)
        BY <1>3 DEF Backed
    <2>3. Restorable(s)'
        BY <1>3, <1>4, <2>1 DEF Own, Restorable, Undoing
    <2> QED BY <1>3, <2>1, <2>2, <2>3 DEF Own, Undoing
  <1> HIDE DEF r
  <1> QED BY <1>7, <1>8, CommitsShared DEF r

\* The analyses: the Design DNA is written.
LEMMA WriteDNAShared ==
    ASSUME Shape, Shared, NEW s \in Scans, WriteDNA(s)
    PROVE  Shared'
  <1> DEFINE r == Target[s]
  <1>1. Moves(s) /\ s \in Requests /\ s \in Processes /\ s # None /\ r \in References
    BY WriteDNAMoves, Targets
  <1>2. \A t \in Scans \ {s} : pc'[t] = pc[t] /\ kept'[t] = kept[t] /\ session'[t] = session[t]
    BY <1>1, Targets DEF Moves
  <1>3. /\ pc[s] = "dna" /\ pc'[s] \in {"reference", "undoDNA"}
        /\ UNCHANGED <<status, session, kept, torn>>
        /\ dna' \in {dna, [dna EXCEPT ![r] = s]}
        /\ pc'[s] = "reference" => dna' = [dna EXCEPT ![r] = s]
    BY <1>1, Stepping DEF WriteDNA, At, history, Shape, Kept
  <1>4. /\ dna'[r] \in {dna[r], s} /\ (pc'[s] = "reference" => dna'[r] = s)
        /\ \A q \in References \ {r} : dna'[q] = dna[q]
    BY <1>1, <1>3 DEF Shape, Typed
  <1>7. Commits(s)
    BY <1>2, <1>3, <1>4 DEF Commits, Committing
  <1>8. r \notin torn' => Own(s)'
    <2> SUFFICES ASSUME r \notin torn' PROVE Own(s)'
        OBVIOUS
    <2>1. Own(s)
        BY <1>3, OwnFirst DEF Committing
    <2>2. Backed(r)' => Backed(r)
        BY <1>3 DEF Backed
    <2>3. Restorable(s)'
        BY <1>3, <1>4, <2>1, <2>2 DEF Own, Restorable, Undoing
    <2> QED BY <1>1, <1>3, <1>4, <2>1, <2>2, <2>3 DEF Own, Undoing
  <1> HIDE DEF r
  <1> QED BY <1>7, <1>8, CommitsShared DEF r

\* The analyses: the reference is marked ANALYZED.
LEMMA WriteReferenceShared ==
    ASSUME Shape, Shared, NEW s \in Scans, WriteReference(s)
    PROVE  Shared'
  <1> DEFINE r == Target[s]
  <1>1. Moves(s) /\ s \in Requests /\ s \in Processes /\ s # None /\ r \in References
    BY WriteReferenceMoves, Targets
  <1>2. \A t \in Scans \ {s} : pc'[t] = pc[t] /\ kept'[t] = kept[t] /\ session'[t] = session[t]
    BY <1>1, Targets DEF Moves
  <1>3. /\ pc[s] = "reference" /\ pc'[s] \in {"body", "undoDNA"}
        /\ UNCHANGED <<dna, session, kept, torn>>
        /\ status' \in {status, [status EXCEPT ![r] = "ANALYZED"]}
        /\ pc'[s] = "body" => status' = [status EXCEPT ![r] = "ANALYZED"]
    BY <1>1, Stepping DEF WriteReference, At, history, Shape, Kept
  <1>4. /\ status'[r] \in {status[r], "ANALYZED"} /\ (pc'[s] = "body" => status'[r] = "ANALYZED")
        /\ \A q \in References \ {r} : status'[q] = status[q]
    BY <1>1, <1>3 DEF Shape, Typed
  <1>7. Commits(s)
    BY <1>2, <1>3, <1>4 DEF Commits, Committing
  <1>8. r \notin torn' => Own(s)'
    <2> SUFFICES ASSUME r \notin torn' PROVE Own(s)'
        OBVIOUS
    <2>1. Own(s)
        BY <1>3, OwnFirst DEF Committing
    <2>2. Backed(r)' => Backed(r)
        BY <1>3 DEF Backed
    <2>3. Restorable(s)'
        BY <1>3, <1>4, <2>1, <2>2 DEF Own, Restorable, Undoing
    <2> QED BY <1>1, <1>3, <1>4, <2>1, <2>2, <2>3 DEF Own, Restorable, Undoing
  <1> HIDE DEF r
  <1> QED BY <1>7, <1>8, CommitsShared DEF r

\* The analyses: the session becomes durable.
LEMMA WriteBodyShared ==
    ASSUME Shape, Shared, NEW s \in Scans, WriteBody(s)
    PROVE  Shared'
  <1> DEFINE r == Target[s]
  <1>1. Moves(s) /\ s \in Requests /\ s \in Processes /\ s # None /\ r \in References
    BY WriteBodyMoves, Targets
  <1>2. \A t \in Scans \ {s} : pc'[t] = pc[t] /\ kept'[t] = kept[t] /\ session'[t] = session[t]
    BY <1>1, Targets DEF Moves
  <1>3. /\ pc[s] = "body" /\ pc'[s] \in {"head", "undoDNA"}
        /\ UNCHANGED <<status, dna, kept, torn>>
        /\ pc'[s] = "undoDNA" => session' = session
    BY <1>1, Stepping DEF WriteBody, At, artifacts, history, Shape, Kept
  <1>7. Commits(s)
    BY <1>2, <1>3 DEF Commits, Committing
  <1>8. r \notin torn' => Own(s)'
    <2> SUFFICES ASSUME r \notin torn' PROVE Own(s)'
        OBVIOUS
    <2>1. Own(s)
        BY <1>3, OwnFirst DEF Committing
    <2>2. pc'[s] = "undoDNA" => (Backed(r)' => Backed(r))
        BY <1>3 DEF Backed
    <2>3. Restorable(s)'
        BY <1>3, <2>1, <2>2 DEF Own, Restorable, Undoing
    <2> QED BY <1>1, <1>3, <2>1, <2>3 DEF Own, Restorable, Undoing
  <1> HIDE DEF r
  <1> QED BY <1>7, <1>8, CommitsShared DEF r

\* The analyses: the Design DNA is restored.
LEMMA UndoDNAShared ==
    ASSUME Shape, Shared, NEW s \in Scans, UndoDNA(s)
    PROVE  Shared'
  <1> DEFINE r == Target[s]
  <1>1. Moves(s) /\ s \in Requests /\ s \in Processes /\ s # None /\ r \in References
    BY UndoDNAMoves, Targets
  <1>2. \A t \in Scans \ {s} : pc'[t] = pc[t] /\ kept'[t] = kept[t] /\ session'[t] = session[t]
    BY <1>1, Targets DEF Moves
  <1>3. /\ pc[s] = "undoDNA" /\ pc'[s] = "undoReference"
        /\ UNCHANGED <<status, session, kept>>
        /\ \/ dna' = [dna EXCEPT ![r] = kept[s].dna] /\ torn' = torn
           \/ dna' = dna /\ torn' = torn \union {r}
    BY <1>1, Stepping DEF UndoDNA, At, Shape, Kept
  <1>4. /\ r \notin torn' => dna'[r] = kept[s].dna /\ torn' = torn
        /\ torn \subseteq torn'
        /\ \A q \in References \ {r} : dna'[q] = dna[q]
    BY <1>1, <1>3 DEF Shape, Typed
  <1>7. Commits(s)
    BY <1>2, <1>3, <1>4 DEF Commits, Committing
  <1>8. r \notin torn' => Own(s)'
    <2> SUFFICES ASSUME r \notin torn' PROVE Own(s)'
        OBVIOUS
    <2>1. Own(s)
        BY <1>3, <1>4, OwnFirst DEF Committing
    <2>2. Backed(r)' => Backed(r)
        BY <1>3 DEF Backed
    <2>3. Restorable(s)'
        BY <1>3, <1>4, <2>1, <2>2 DEF Own, Restorable, Undoing
    <2> QED BY <1>1, <1>3, <1>4, <2>1, <2>2, <2>3 DEF Own, Restorable, Undoing
  <1> HIDE DEF r
  <1> QED BY <1>7, <1>8, CommitsShared DEF r

\* The analyses: the reference is restored.
LEMMA UndoReferenceShared ==
    ASSUME Shape, Shared, NEW s \in Scans, UndoReference(s)
    PROVE  Shared'
  <1> DEFINE r == Target[s]
  <1>1. Moves(s) /\ s \in Requests /\ s \in Processes /\ s # None /\ r \in References
    BY UndoReferenceMoves, Targets
  <1>2. \A t \in Scans \ {s} : pc'[t] = pc[t] /\ kept'[t] = kept[t] /\ session'[t] = session[t]
    BY <1>1, Targets DEF Moves
  <1>3. /\ pc[s] = "undoReference" /\ pc'[s] = "catch"
        /\ UNCHANGED <<dna, session, kept>>
        /\ \/ status' = [status EXCEPT ![r] = kept[s].status] /\ torn' = torn
           \/ status' = status /\ torn' = torn \union {r}
    BY <1>1, Stepping DEF UndoReference, At, Shape, Kept
  <1>4. /\ r \notin torn' => status'[r] = kept[s].status /\ torn' = torn
        /\ torn \subseteq torn'
        /\ \A q \in References \ {r} : status'[q] = status[q]
    BY <1>1, <1>3 DEF Shape, Typed
  <1>7. Commits(s)
    BY <1>2, <1>3, <1>4 DEF Commits, Committing
  <1>8. r \notin torn' => Own(s)'
    <2> SUFFICES ASSUME r \notin torn' PROVE Own(s)'
        OBVIOUS
    <2>1. Own(s)
        BY <1>3, <1>4, OwnFirst DEF Committing
    <2>2. Backed(r)' => Backed(r)
        BY <1>3 DEF Backed
    <2>3. Restorable(s)'
        BY <1>3 DEF Restorable, Undoing
    <2> QED BY <1>1, <1>3, <1>4, <2>1, <2>2, <2>3 DEF Own, Restorable, Undoing
  <1> HIDE DEF r
  <1> QED BY <1>7, <1>8, CommitsShared DEF r

\* The analyses: A SCAN starts.
LEMMA StartScanShared ==
    ASSUME Shape, Shared, NEW s \in Scans, StartScan(s)
    PROVE  Shared'
  <1>1. Moves(s) /\ s \in Requests /\ s \in Processes
    BY StartScanMoves, Targets
  <1>2. /\ pc[s] \notin Committing /\ pc'[s] \notin Committing
        /\ UNCHANGED <<status, dna, kept, torn>>
    BY <1>1, Stepping DEF StartScan, At, artifacts, history, Shape, Kept, Committing
  <1>3. session' = session
    BY DEF StartScan
  <1>4. \A t \in Scans : /\ pc'[t] = pc[t] \/ t = s
                         /\ session'[t].status = "RESULT_READY" =>
                               session[t].status = "RESULT_READY"
    BY <1>1, <1>3, Targets DEF Moves
  <1> QED BY <1>2, <1>4, QuietShared DEF Undoing, Committing

\* The analyses: the DRAFT is saved.
LEMMA SaveDraftShared ==
    ASSUME Shape, Shared, NEW s \in Scans, SaveDraft(s)
    PROVE  Shared'
  <1>1. Moves(s) /\ s \in Requests /\ s \in Processes
    BY SaveDraftMoves, Targets
  <1>2. /\ pc[s] \notin Committing /\ pc'[s] \notin Committing
        /\ UNCHANGED <<status, dna, kept, torn>>
    BY <1>1, Stepping DEF SaveDraft, At, artifacts, history, Shape, Kept, Committing
  <1>3. pc[s] # "idle"
    BY DEF SaveDraft, At
  <1>4. Draft(s) \in Record /\ Draft(s).status # "RESULT_READY"
    BY <1>1, <1>3, DraftRecord DEF Shape, Typed
  <1>5. session'[s] \in {session[s], Draft(s)}
    BY <1>1, <1>4, Saving DEF SaveDraft, Shape, Typed, Saved
  <1>6. \A t \in Scans : /\ pc'[t] = pc[t] \/ t = s
                         /\ session'[t].status = "RESULT_READY" =>
                               session[t].status = "RESULT_READY"
    BY <1>1, <1>4, <1>5, Targets DEF Moves
  <1> QED BY <1>2, <1>6, QuietShared DEF Undoing, Committing

\* The analyses: DRAFT becomes ANALYZING.
LEMMA BeginShared ==
    ASSUME Shape, Shared, NEW s \in Scans, Begin(s)
    PROVE  Shared'
  <1>1. Moves(s) /\ s \in Requests /\ s \in Processes
    BY BeginMoves, Targets
  <1>2. /\ pc[s] \notin Committing /\ pc'[s] \notin Committing
        /\ UNCHANGED <<status, dna, kept, torn>>
    BY <1>1, Stepping DEF Begin, At, artifacts, history, Shape, Kept, Committing, OnRefusedBegin
  <1>4. Analyzing(s) \in Record /\ Analyzing(s).status # "RESULT_READY"
    BY <1>1, SavedRecords DEF Shape, Typed
  <1>5. session'[s] \in {session[s], Analyzing(s)}
    BY <1>1, <1>4, Saving DEF Begin, Shape, Typed, Saved
  <1>6. \A t \in Scans : /\ pc'[t] = pc[t] \/ t = s
                         /\ session'[t].status = "RESULT_READY" =>
                               session[t].status = "RESULT_READY"
    BY <1>1, <1>4, <1>5, Targets DEF Moves
  <1> QED BY <1>2, <1>6, QuietShared DEF Undoing, Committing

\* The analyses: the agent answers a SCAN.
LEMMA ScanAnswerShared ==
    ASSUME Shape, Shared, NEW s \in Scans, ScanAnswer(s)
    PROVE  Shared'
  <1>1. Moves(s) /\ s \in Requests /\ s \in Processes
    BY ScanAnswerMoves, Targets
  <1>2. /\ pc[s] \notin Committing /\ pc'[s] \notin Committing
        /\ UNCHANGED <<status, dna, kept, torn>>
    BY <1>1, Stepping DEF ScanAnswer, At, artifacts, history, Shape, Kept, Committing, Answer
  <1>3. session' = session
    BY DEF ScanAnswer, Answer
  <1>4. \A t \in Scans : /\ pc'[t] = pc[t] \/ t = s
                         /\ session'[t].status = "RESULT_READY" =>
                               session[t].status = "RESULT_READY"
    BY <1>1, <1>3, Targets DEF Moves
  <1> QED BY <1>2, <1>4, QuietShared DEF Undoing, Committing

\* The analyses: the head is published.
LEMMA PublishHeadShared ==
    ASSUME Shape, Shared, NEW s \in Scans, PublishHead(s)
    PROVE  Shared'
  <1>1. Moves(s) /\ s \in Requests /\ s \in Processes
    BY PublishHeadMoves, Targets
  <1>2. /\ pc[s] \notin Committing /\ pc'[s] \notin Committing
        /\ UNCHANGED <<status, dna, kept, torn>>
    BY <1>1, Stepping
    DEF PublishHead, At, artifacts, history, Shape, Kept, Committing, OnFailedHead
  <1>3. session' = session
    BY DEF PublishHead
  <1>4. \A t \in Scans : /\ pc'[t] = pc[t] \/ t = s
                         /\ session'[t].status = "RESULT_READY" =>
                               session[t].status = "RESULT_READY"
    BY <1>1, <1>3, Targets DEF Moves
  <1> QED BY <1>2, <1>4, QuietShared DEF Undoing, Committing

\* The analyses: the failure is recorded.
LEMMA CatchShared ==
    ASSUME Shape, Shared, NEW s \in Scans, Catch(s)
    PROVE  Shared'
  <1>1. Moves(s) /\ s \in Requests /\ s \in Processes
    BY CatchMoves, Targets
  <1>2. /\ pc[s] \notin Committing /\ pc'[s] \notin Committing
        /\ UNCHANGED <<status, dna, kept, torn>>
    BY <1>1, Stepping DEF Catch, At, artifacts, history, Shape, Kept, Committing
  <1>4. Failed(s) \in Record /\ Failed(s).status # "RESULT_READY"
    BY <1>1, SavedRecords DEF Shape, Typed
  <1>5. session'[s] \in {session[s], Failed(s)}
    BY <1>1, <1>4, Saving DEF Catch, Shape, Typed
  <1>6. \A t \in Scans : /\ pc'[t] = pc[t] \/ t = s
                         /\ session'[t].status = "RESULT_READY" =>
                               session[t].status = "RESULT_READY"
    BY <1>1, <1>4, <1>5, Targets DEF Moves
  <1> QED BY <1>2, <1>6, QuietShared DEF Undoing, Committing

\* At first no reference is analyzed.
LEMMA SharedInit == Init => Shared
  <1> SUFFICES ASSUME Init PROVE Shared
    OBVIOUS
  <1>1. \A s \in Scans : pc[s] = "idle" /\ session[s].status = "NONE"
    BY DEF Init, Requests, NoSession
  <1>2. \A r \in References : status[r] = "READY"
    BY DEF Init
  <1> QED BY <1>1, <1>2
      DEF Shared, Alone, RestorableAll, Restorable, AnalyzedHasDNA, ResultBacked,
                            Committing, Undoing

\* Every step keeps the analyses whole.
LEMMA SharedNext ==
    ASSUME Shape, ReadAll, Shared, Next
    PROVE  Shared'
  <1>1. ASSUME NEW s \in Scans, ScanStep(s) PROVE Shared'
    BY <1>1, StartScanShared, SaveDraftShared, BeginShared, ScanAnswerShared, CheckScanShared,
       OpenCommitShared, WriteDNAShared, WriteReferenceShared, WriteBodyShared, PublishHeadShared,
       UndoDNAShared, UndoReferenceShared, CatchShared DEF ScanStep
  <1>2. ASSUME NEW p \in Evolves \union Analyses, RequestStep(p) PROVE Shared'
    <2>1. Moves(p) /\ \A s \in Scans : s \in Processes \ {p} /\ s \in Requests \ {p}
        BY <1>2, RequestMoves, RequestsAssumption DEF Requests, Processes
    <2>2. UNCHANGED <<status, dna, torn>>
        BY <1>2, RequestsAssumption
        DEF RequestStep, EvolveStep, AnalysisStep, artifacts, history, SaveDraft, Begin, Catch,
            StartEvolve, LoadAnalyses, EvolveAnswer, Answer, Recheck, CommitResult, Await,
            StartAnalysis, AnalysisAnswer, CommitAnalysis
    <2>3. \A s \in Scans : pc'[s] = pc[s] /\ kept'[s] = kept[s] /\ session'[s] = session[s]
        BY <2>1 DEF Moves
    <2> QED BY <2>2, <2>3, QuietShared
  <1>3. ASSUME NEW a \in Approvers, ApprovalStep(a) PROVE Shared'
    <2>1. Handles(a) /\ \A s \in Scans : s \in Processes \ {a} /\ s \in Requests /\ s \notin Evolves
        BY <1>3, ApproverHandles, RequestsAssumption DEF Requests, Processes
    <2>2. \A s \in Scans : pc'[s] = pc[s] /\ kept'[s] = kept[s] /\ session'[s] = session[s]
        BY <2>1 DEF Handles, Decided
    <2> QED BY <2>1, <2>2, QuietShared DEF Handles
  <1>4. ASSUME NEW p \in Processes, Die(p) PROVE Shared'
    <2>1. /\ UNCHANGED <<status, dna, session, kept>>
          /\ torn' = torn \union (IF pc[p] \in Undoing THEN {Target[p]} ELSE {})
        BY <1>4, Dies
    <2>2. \A s \in Scans :
            \/ pc'[s] = pc[s]
            \/ pc'[s] \notin Committing /\ (pc[s] \in Undoing => Target[s] \in torn')
        <3>1. ASSUME NEW s \in Scans, s # p PROVE pc'[s] = pc[s]
            BY <1>4, <3>1, Dies, Targets
        <3>2. pc'[p] = "dead" /\ (pc[p] \in Undoing => Target[p] \in torn')
            BY <1>4, <2>1, Dies
        <3>3. "dead" \notin Committing
            BY DEF Committing
        <3>4. ASSUME NEW s \in Scans
              PROVE  \/ pc'[s] = pc[s]
                     \/ pc'[s] \notin Committing /\ (pc[s] \in Undoing => Target[s] \in torn')
            <4>1. CASE s = p
                BY <3>2, <3>3, <4>1
            <4>2. CASE s # p
                BY <3>1, <4>2
            <4> QED BY <4>1, <4>2
        <3> QED BY <3>4
    <2> QED BY <2>1, <2>2, QuietShared
  <1>5. ASSUME ChangeEvidence PROVE Shared'
    BY <1>5, Changes, QuietShared
  <1> QED BY <1>1, <1>2, <1>3, <1>4, <1>5, Steps DEF RequestStep, Requests

-----------------------------------------------------------------------------
(* The theorems.                                                            *)

\* The parts of the invariant.
LEMMA LearnInvParts ==
    LearnInv <=> Shape /\ Bereft /\ FoundedAll /\ ReadAll /\ HoldsAll /\ Paired /\ Shared
    BY DEF LearnInv, Shape, Shared

\* The invariant holds at first ...
LEMMA InitLearnInv == Init => LearnInv
  <1> SUFFICES ASSUME Init PROVE LearnInv
    OBVIOUS
  <1>1. Shape /\ Bereft /\ FoundedAll /\ Shared
    BY ShapeInit, BereftInit, FoundedInit, SharedInit
  <1>2. \A a \in Approvers : pc[a] = "idle"
    BY DEF Init
  <1>3. ReadAll /\ HoldsAll
    BY <1>2 DEF ReadAll, Read, HoldsAll, Holds
  <1>4. \A e \in Evolves : ~Approved(session[e])
    BY DEF Init, NoSession, Approved, Requests
  <1>5. drafts = {}
    BY DEF Init
  <1>6. Paired
    BY <1>4, <1>5, FS_EmptySet DEF Paired
  <1> QED BY <1>1, <1>3, <1>6, LearnInvParts

\* ... and every step keeps it.
LEMMA NextLearnInv == LearnInv /\ [Next]_vars => LearnInv'
  <1> SUFFICES ASSUME LearnInv, [Next]_vars PROVE LearnInv'
    OBVIOUS
  <1>1. Shape /\ Bereft /\ FoundedAll /\ ReadAll /\ HoldsAll /\ Paired /\ Shared
    BY LearnInvParts
  <1>2. CASE Next
    <2>1. Shape' /\ Bereft' /\ FoundedAll' /\ ReadAll' /\ Paired' /\ Shared'
        BY <1>1, <1>2, ShapeNext, BereftNext, FoundedNext, ReadNext, PairedNext, SharedNext
    <2>2. HoldsAll'
        BY <1>1, <1>2, HoldsNext DEF HoldsAll
    <2> QED BY <2>1, <2>2 DEF LearnInv, Shape, Shared
  <1>3. CASE UNCHANGED vars
    <2>1. /\ UNCHANGED <<status, dna, session, drafts, evidence, claim, pc, kept, faults>>
          /\ UNCHANGED <<torn, lost, evicted, answeredAt>>
        BY <1>3 DEF vars
    <2>2. Typed' /\ Kept'
        BY <1>1, <2>1 DEF Shape, Typed, Kept
    <2>3. FollowsAll' /\ Spoken' /\ Bereft' /\ FoundedAll'
        BY <1>1, <2>1
        DEF Shape, FollowsAll, Follows, Spoken, ToldOf, Bereft, Grounded, Excused, HasAnalysis,
            Abandoned, FoundedAll, Founded, Result, Approved
    <2>4. ReadAll' /\ HoldsAll' /\ Paired'
        BY <1>1, <2>1 DEF ReadAll, Read, HoldsAll, Holds, Paired, Approved
    <2>5. Shared'
        BY <1>1, <2>1, QuietShared
    <2> QED BY <2>2, <2>3, <2>4, <2>5 DEF LearnInv, Shared
  <1> QED BY <1>2, <1>3

\* The invariant holds for any number of requests, references, approvals,
\* failures and deaths, and however far the evidence changes.
THEOREM LearnInvariant == Spec => []LearnInv
  <1> QED BY InitLearnInv, NextLearnInv, PTL DEF Spec

\* However a request ends, what the user sees of it holds: a reference that
\* says ANALYZED has its Design DNA, a visible SCAN result its analysis, and a
\* request that ended a result or an error, unless the error was not saved or a
\* failed SCAN left the analysis unable to save one (commitReferenceScan and the
\* catch of the Learn routes).
THEOREM OutcomesKept == Spec => []OutcomesHold
  <1>1. LearnInv => Told
    BY DEF LearnInv, Spoken, ToldOf, Bereft, Excused, Told, At
  <1>2. LearnInv => OutcomesHold
    BY <1>1 DEF LearnInv, OutcomesHold
  <1> QED BY <1>2, LearnInvariant, PTL

\* A direction is approved once, with the one draft that agrees with it, as
\* long as no approver outlives its lease (approveEvolveDirection).
THEOREM ApprovedOnce == Spec => []OneApproval
  <1>1. LearnInv => OneApproval
    BY OneApprovalHolds DEF LearnInv
  <1> QED BY <1>1, LearnInvariant, PTL

\* A result names the evidence that was in force when the agent had answered
\* (the second look of the EVOLVE route).
THEOREM EvidenceRechecked == Spec => []EvidenceInForce
  <1>1. LearnInv => EvidenceInForce
    <2> SUFFICES ASSUME LearnInv, NEW e \in Evolves, Result(session[e]) \/ Approved(session[e])
                 PROVE  session[e].evidence = answeredAt[e]
        BY DEF EvidenceInForce
    <2>1. Founded(e) /\ session[e].status # "NONE"
        BY DEF LearnInv, FoundedAll, Result, Approved
    <2> QED BY <2>1 DEF Founded
  <1> QED BY <1>1, LearnInvariant, PTL

\* A result is taken back only by the request whose commit reported a failure,
\* a decision by nobody.
THEOREM DecisionStays == Spec => DecisionKept
  <1> DEFINE Stays(p) ==
          /\ session[p].status = "RESULT_READY" /\ session'[p].status # "RESULT_READY"
               => session'[p].status = "AWAITING_DECISION" \/ At(p, "catch")
          /\ session[p].status = "AWAITING_DECISION" /\ session'[p] # session[p]
               => Approved(session'[p])
          /\ Approved(session[p]) /\ evicted = {} => session'[p] = session[p]
  <1>1. ASSUME LearnInv, Next, NEW p \in Requests PROVE Stays(p)
    <2>1. Shape /\ ReadAll /\ HoldsAll
        BY <1>1 DEF LearnInv, Shape
    <2>2. CASE session'[p] = session[p]
        BY <2>2 DEF Approved
    <2>3. ASSUME NEW q \in Requests, RequestStep(q) PROVE Stays(p)
        <3>1. Moves(q)
            BY <2>1, <2>3, RequestMoves
        <3>2. CASE p # q
            BY <2>2, <3>1, <3>2 DEF Moves
        <3>3. CASE p = q
            <4>1. session[p].status \notin {"AWAITING_DECISION", "APPROVED"} /\ TakenBack(p)
                BY <2>1, <3>1, <3>3 DEF Moves, Shape, FollowsAll, Follows
            <4> QED BY <4>1 DEF TakenBack, At, Approved
        <3> QED BY <3>2, <3>3
    <2>4. ASSUME NEW a \in Approvers, ApprovalStep(a), session'[p] # session[p] PROVE Stays(p)
        <3>1. Approve(a)
            BY <2>1, <2>4, OpenApprovalHandles, TakeClaimHandles, RereadHandles, ReleaseHandles
            DEF ApprovalStep
        <3>2. /\ pc[a] = "pair"
              /\ \A q \in Requests \ {kept[a].session} : session'[q] = session[q]
              /\ Approved(session'[kept[a].session]) \/ session'[kept[a].session] = kept[a].record
            BY <2>1, <3>1, ApproveHandles
        <3>3. p = kept[a].session
            BY <2>4, <3>2
        <3>4. /\ session[p].status \in {"AWAITING_DECISION", "APPROVED"}
              /\ session[p] \in Record
              /\ kept[a].record = Proposed(session[p])
            BY <2>1, <3>2, <3>3, AtWork
        <3>5. session[p].status = "AWAITING_DECISION" => kept[a].record = session[p]
            <4>1. session[p].status = "AWAITING_DECISION" => session[p].chosen = None
                BY <2>1 DEF Shape, FollowsAll, Follows, Approved
            <4> QED BY <3>4, <4>1, Proposal
        <3>6. evicted = {} => session[p] = kept[a].record
            BY <2>1, <3>2, <3>3 DEF HoldsAll, Holds
        <3>7. kept[a].record.status = "AWAITING_DECISION"
            BY <3>4, Statuses DEF Proposed, Record
        <3> QED BY <2>4, <3>2, <3>3, <3>4, <3>5, <3>6, <3>7 DEF Approved
    <2>5. ASSUME NEW q \in Processes, Die(q) PROVE Stays(p)
        BY <2>1, <2>2, <2>5, Dies
    <2>6. ASSUME ChangeEvidence PROVE Stays(p)
        BY <2>1, <2>2, <2>6, Changes
    <2> QED BY <1>1, <2>2, <2>3, <2>4, <2>5, <2>6, Steps
  <1>2. ASSUME LearnInv, UNCHANGED vars, NEW p \in Requests PROVE Stays(p)
    BY <1>2 DEF vars, Approved
  <1>3. LearnInv /\ [Next]_vars =>
          [\A p \in Requests :
              /\ session[p].status = "RESULT_READY" /\ session'[p].status # "RESULT_READY"
                   => session'[p].status = "AWAITING_DECISION" \/ At(p, "catch")
              /\ session[p].status = "AWAITING_DECISION" /\ session'[p] # session[p]
                   => Approved(session'[p])
              /\ Approved(session[p]) /\ evicted = {} => session'[p] = session[p]]_vars
    BY <1>1, <1>2
  <1> QED BY <1>3, LearnInvariant, PTL DEF Spec, DecisionKept
====
