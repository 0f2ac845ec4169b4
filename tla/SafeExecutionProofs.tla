------------------------- MODULE SafeExecutionProofs -------------------------
(* Proofs about SafeExecution, for every number of directions and requests   *)
(* and any number of deaths and failing saves: one approved proposal is      *)
(* applied at most once and stays recorded, a verification is undisturbed,   *)
(* and without faults no session is stranded.                                *)
EXTENDS SafeExecution, SequenceTheorems, TLAPS

\* The steps under the claim: at work on a live session, and all of them.
Working == {"preparing", "proposing", "agent", "waiting", "rollback", "decided", "approved",
            "execute", "mirror", "apply", "editing", "reconcile", "running", "run", "capturing",
            "capture", "verifying", "analyze", "analyzed", "complete", "prove", "again"}
Owning == Working \cup {"load", "return", "verify", "failed"}
\* Steps that may still put the record back, and those of a verification.
Returning == {"preparing", "proposing", "agent", "waiting", "rollback", "approved",
              "execute", "mirror", "apply"}
Judged == {"running", "run", "capturing", "capture", "verifying", "analyze", "analyzed",
           "complete", "prove", "again", "failed"}
Operations == {"none", "prepare", "approve", "decide", "recover", "verify"}
Asked == [pc : Owning \cup {"idle", "claim"}, op : Operations, d : Directions \cup {"none"},
          start : Session, cur : Session, decision : Decisions, stale : BOOLEAN]

\* Everything has its type.
Typed ==
  /\ TypeOK
  /\ req \in [Requests -> Asked]
  /\ \A r \in Requests : req[r].pc # "idle" => req[r].d \in Directions /\ req[r].op # "none"
  /\ \A r \in Requests : req[r].op = "decide" => req[r].decision \in {"REVISION_REQUESTED", "REJECTED"}
  /\ exec \in [by : Requests \cup {Free, Dead}, proposal : Proposals \cup {<<>>},
               phase : {"none", "PREPARING", "APPLYING"}]
  /\ mutated \in [Proposals -> Nat]
  /\ faults \in Nat

\* A request past its claim owns its session, and an owner is at work.
Owns ==
  /\ \A r \in Requests : req[r].pc \in Owning => claim[req[r].d] = r
  /\ \A r \in Requests, d \in Directions :
       claim[d] = r => req[r].pc \in Owning /\ req[r].d = d

\* What was applied is recorded in s as approved.
Recorded(d, s) ==
  \A i \in 1..MaxHistory : mutated[<<d, i>>] > 0 =>
    i <= Len(s.history) /\ s.history[i].decision = "APPROVED"

\* A record an operation may go on with.
Live(s) == s.status \notin Terminal \cup {"NONE"} /\ ~s.failed

\* A record somebody can go on with, or that is finished.
AtRest(s) ==
  \/ s.status \in Terminal \cup {"NONE", "IDLE", "REVISING", "WAITING_APPROVAL", "EDITING"}
  \/ s.status = "PROPOSING" /\ Proven(s)
  \/ s.status = "APPROVED" /\ s.failed

\* What a request knows, by the step it is at.
Place(r) ==
  LET pc == req[r].pc
      d == req[r].d
      cur == req[r].cur
      start == req[r].start
  IN  /\ pc \in Working => Live(session[d]) /\ Live(cur) /\ Live(start)
      /\ pc \in Working \cup {"failed"} => Recorded(d, cur)
      /\ pc \in Returning => Recorded(d, start) /\ Acceptable(start) /\ AtRest(start)
      /\ pc \in {"preparing", "decided", "approved"} => session[d] = start /\ cur = start
      /\ pc \in {"decided", "approved"} => LastDecision(cur) = "none" /\ AtRest(start)
      /\ pc \in {"execute", "mirror", "apply"} =>
           /\ session[d] = cur /\ LastDecision(cur) = "APPROVED"
           /\ LastDecision(start) = "none" /\ Len(start.history) = Len(cur.history)
      /\ pc \in {"execute", "mirror", "apply", "editing", "reconcile"} =>
           cur.status = "APPROVED" /\ Acceptable(cur)
      /\ pc \in Judged =>
           LastDecision(cur) = "APPROVED" /\ cur.applied /\ ~cur.failed /\ HistoryValid(cur.history)
      /\ pc = "again" => Proven(cur)
      /\ pc \in {"mirror", "apply"} => exec.by = r /\ exec.proposal = Proposal(d, cur)
      /\ pc \in {"load", "return", "verify"} /\ faults = 0 => AtRest(session[d])
Places == \A r \in Requests : Place(r)

\* Whoever is at work on a session works alone, and the others have not begun.
Alone ==
  \A r \in Requests : req[r].pc \in Working =>
    /\ \A q \in Requests \ {r} : req[q].pc \notin Working
    /\ \A d \in Active : d # req[r].d => session[d].status = "IDLE"

\* The executor's claim belongs to a request that is executing.
ExecOwner == \A r \in Requests : exec.by = r => req[r].pc \in {"mirror", "apply"}

\* Without faults, no claim is abandoned and what nobody claims is at rest.
Rests == faults = 0 => \A d \in Directions :
           claim[d] # Dead /\ (claim[d] = Free => AtRest(session[d]))

\* A direction nobody has approved yet has no proposals.
Unstarted == \A d \in Directions : session[d].status = "NONE" => session[d].history = <<>>

SafeInv == Typed /\ Owns /\ Places /\ Alone /\ ExecOwner /\ Rests /\ Unstarted /\ AppliedOnce

-----------------------------------------------------------------------------
(* Records.                                                                  *)

\* Records whose history may still be too long.
Loose == [status : Statuses, history : Seq(Entry), failed : BOOLEAN,
          applied : BOOLEAN, render : BOOLEAN, analysis : {"none", "pass", "fail"}]

\* A session is a record whose history is not too long.
LEMMA Bounded == \A s : s \in Session <=> s \in Loose /\ Len(s.history) <= MaxHistory
  <1>1. ASSUME NEW h PROVE h \in UNION {[1..n -> Entry] : n \in 0..MaxHistory}
                              <=> h \in Seq(Entry) /\ Len(h) <= MaxHistory
    <2>1. ASSUME NEW n \in 0..MaxHistory, h \in [1..n -> Entry]
          PROVE  h \in Seq(Entry) /\ Len(h) <= MaxHistory
        <3>1. n \in Nat /\ n <= MaxHistory
            BY SafeAssumption
        <3>2. h \in Seq(Entry)
            BY <2>1, <3>1, SeqDef
        <3>3. Len(h) \in Nat /\ DOMAIN h = 1..Len(h) /\ DOMAIN h = 1..n
            BY <2>1, <3>2, LenProperties
        <3>4. \A m \in Nat : m \in 1..Len(h) <=> m \in 1..n
            BY <3>3
        <3>5. Len(h) <= n /\ n <= Len(h)
            BY <3>1, <3>3, <3>4
        <3> QED BY <3>1, <3>2, <3>3, <3>5
    <2>2. ASSUME h \in Seq(Entry), Len(h) <= MaxHistory
          PROVE  h \in UNION {[1..n -> Entry] : n \in 0..MaxHistory}
        <3>1. Len(h) \in 0..MaxHistory /\ h \in [1..Len(h) -> Entry]
            BY <2>2, LenProperties, SafeAssumption
        <3> QED BY <3>1
    <2> QED BY <2>1, <2>2
  <1> HIDE SafeAssumption
  <1>2. ASSUME NEW s \in Session PROVE s \in Loose /\ Len(s.history) <= MaxHistory
    <2>1. s.history \in UNION {[1..n -> Entry] : n \in 0..MaxHistory}
        BY DEF Session
    <2>2. s.history \in Seq(Entry) /\ Len(s.history) <= MaxHistory
        BY <1>1, <2>1
    <2> QED BY <2>2 DEF Session, Loose
  <1>3. ASSUME NEW s \in Loose, Len(s.history) <= MaxHistory PROVE s \in Session
    <2>1. s.history \in Seq(Entry)
        BY DEF Loose
    <2>2. s.history \in UNION {[1..n -> Entry] : n \in 0..MaxHistory}
        BY <1>1, <1>3, <2>1
    <2> QED BY <2>2 DEF Session, Loose
  <1> QED BY <1>2, <1>3

\* Histories are sequences of entries.
LEMMA Histories ==
  ASSUME NEW s \in Loose
  PROVE  /\ s.history \in Seq(Entry) /\ Len(s.history) \in Nat
         /\ s.history # <<>> => Len(s.history) \in 1..Len(s.history) /\ Len(s.history) \in Nat \ {0}
         /\ \A i \in 1..Len(s.history) : s.history[i] \in Entry
  <1>1. s.history \in Seq(Entry)
    BY DEF Loose
  <1>2. Len(s.history) \in Nat /\ \A i \in 1..Len(s.history) : s.history[i] \in Entry
    BY <1>1, LenProperties, ElementOfSeq
  <1>3. s.history # <<>> => Len(s.history) \in Nat \ {0}
    BY <1>1, EmptySeq
  <1> QED BY <1>1, <1>2, <1>3

\* The record an approval of a direction creates.
LEMMA FreshRecord == Fresh \in Session /\ Acceptable(Fresh) /\ Fresh.status = "IDLE" /\ ~Fresh.failed
                     /\ [Fresh EXCEPT !.status = "NONE"] \in Session
                     /\ [Fresh EXCEPT !.status = "NONE"].status = "NONE" /\ Fresh.history = <<>>
                     /\ [Fresh EXCEPT !.status = "NONE"].history = <<>>
  <1>1. <<>> \in Seq(Entry) /\ Len(<<>>) = 0
    BY EmptySeq
  <1>2. Fresh \in Loose /\ [Fresh EXCEPT !.status = "NONE"] \in Loose
    BY <1>1 DEF Fresh, Loose, Statuses, Terminal, Verifying
  <1>3. Fresh \in Session /\ [Fresh EXCEPT !.status = "NONE"] \in Session
    BY <1>1, <1>2, Bounded, SafeAssumption DEF Fresh
  <1>4. HistoryValid(<<>>)
    BY <1>1, SafeAssumption DEF HistoryValid
  <1>5. Acceptable(Fresh)
    BY <1>4 DEF Fresh, Acceptable, LastDecision, Terminal, Verifying
  <1> QED BY <1>3, <1>5 DEF Fresh

\* A change of status.
LEMMA WithStatus ==
  ASSUME NEW s \in Session, NEW x \in Statuses
  PROVE  /\ With(s, x) \in Session /\ With(s, x).status = x
         /\ With(s, x).history = s.history /\ With(s, x).failed = s.failed
         /\ With(s, x).applied = s.applied /\ With(s, x).render = s.render
         /\ With(s, x).analysis = s.analysis
  BY DEF With, Session

\* The record after the executor returned.
LEMMA EditedRecord ==
  ASSUME NEW s \in Session
  PROVE  LET t == [With(s, "EDITING") EXCEPT !.applied = TRUE] IN
         /\ t \in Session /\ t.status = "EDITING" /\ t.history = s.history
         /\ t.failed = s.failed /\ t.applied
  <1>1. With(s, "EDITING") \in Session /\ With(s, "EDITING").status = "EDITING"
        /\ With(s, "EDITING").history = s.history /\ With(s, "EDITING").failed = s.failed
    BY WithStatus DEF Statuses
  <1> QED BY <1>1 DEF Session

\* The record of a proposal in doubt.
LEMMA UnresolvedRecord ==
  ASSUME NEW s \in Session
  PROVE  /\ Unresolved(s) \in Session /\ Unresolved(s).status = s.status
         /\ Unresolved(s).history = s.history /\ Unresolved(s).failed
         /\ s.status = "APPROVED" /\ Acceptable(s) => Acceptable(Unresolved(s))
  <1>1. /\ Unresolved(s) \in Session /\ Unresolved(s).status = s.status
        /\ Unresolved(s).history = s.history /\ Unresolved(s).failed
        /\ Unresolved(s).applied = s.applied /\ Unresolved(s).render = s.render
        /\ Unresolved(s).analysis = s.analysis
    BY DEF Unresolved, Session
  <1>2. ASSUME s.status = "APPROVED", Acceptable(s) PROVE Acceptable(Unresolved(s))
    BY <1>1, <1>2 DEF Acceptable, LastDecision, Proven, Last, Verifying
  <1> QED BY <1>1, <1>2

\* A render and its judgement change no decision.
LEMMA JudgedRecords ==
  ASSUME NEW s \in Session
  PROVE  /\ Rendered(s) \in Session /\ Rendered(s).status = s.status
         /\ Rendered(s).history = s.history /\ Rendered(s).failed = s.failed
         /\ Rendered(s).applied = s.applied
         /\ [s EXCEPT !.render = FALSE] \in Session
         /\ [s EXCEPT !.render = FALSE].status = s.status
         /\ [s EXCEPT !.render = FALSE].history = s.history
         /\ [s EXCEPT !.render = FALSE].failed = s.failed
         /\ [s EXCEPT !.render = FALSE].applied = s.applied
         /\ \A a \in {"pass", "fail"} :
              /\ [s EXCEPT !.analysis = a] \in Session
              /\ [s EXCEPT !.analysis = a].status = s.status
              /\ [s EXCEPT !.analysis = a].history = s.history
              /\ [s EXCEPT !.analysis = a].failed = s.failed
              /\ [s EXCEPT !.analysis = a].applied = s.applied
  <1>1. /\ Rendered(s) \in Session /\ Rendered(s).status = s.status
        /\ Rendered(s).history = s.history /\ Rendered(s).failed = s.failed
        /\ Rendered(s).applied = s.applied
    BY DEF Rendered, Session
  <1>2. /\ [s EXCEPT !.render = FALSE] \in Session
        /\ [s EXCEPT !.render = FALSE].status = s.status
        /\ [s EXCEPT !.render = FALSE].history = s.history
        /\ [s EXCEPT !.render = FALSE].failed = s.failed
        /\ [s EXCEPT !.render = FALSE].applied = s.applied
    BY DEF Session
  <1>3. \A a \in {"pass", "fail"} :
              /\ [s EXCEPT !.analysis = a] \in Session
              /\ [s EXCEPT !.analysis = a].status = s.status
              /\ [s EXCEPT !.analysis = a].history = s.history
              /\ [s EXCEPT !.analysis = a].failed = s.failed
              /\ [s EXCEPT !.analysis = a].applied = s.applied
    BY DEF Session
  <1> QED BY <1>1, <1>2, <1>3

\* A new proposal follows those decided on.
LEMMA ProposedRecord ==
  ASSUME NEW s \in Session
  PROVE  /\ Proposed(s) \in Loose /\ Proposed(s).status = "WAITING_APPROVAL"
         /\ Proposed(s).failed = s.failed
         /\ Len(Proposed(s).history) = Len(s.history) + 1
         /\ \A i \in 1..Len(s.history) : Proposed(s).history[i] = s.history[i]
  <1> DEFINE e == [decision |-> "none", proof |-> FALSE]
             w == With(s, "WAITING_APPROVAL")
             h == Append(s.history, e)
  <1>1. s \in Loose /\ s.history \in Seq(Entry) /\ Len(s.history) \in Nat
    BY Bounded, Histories
  <1>2. e \in Entry
    BY DEF Entry, Decisions
  <1> HIDE DEF e
  <1>3. /\ h \in Seq(Entry) /\ Len(h) = Len(s.history) + 1
        /\ \A i \in 1..Len(s.history) : h[i] = s.history[i]
    BY <1>1, <1>2
  <1>4. /\ w \in Session
        /\ w.status = "WAITING_APPROVAL"
        /\ w.history = s.history
        /\ w.failed = s.failed
    BY WithStatus DEF Statuses
  <1>5. w \in Loose
    BY <1>4, Bounded
  <1>6. Proposed(s) = [w EXCEPT !.history = h, !.applied = FALSE, !.render = FALSE, !.analysis = "none"]
    BY <1>4, <1>5 DEF Proposed, Loose, e
  <1> HIDE DEF h, w
  <1>7. /\ Proposed(s) \in Loose
        /\ Proposed(s).status = "WAITING_APPROVAL"
        /\ Proposed(s).failed = s.failed
        /\ Proposed(s).history = h
    BY <1>3, <1>4, <1>5, <1>6 DEF Loose
  <1> QED BY <1>3, <1>7

\* The last entry of a history is changed.
LEMMA LastChanged ==
  ASSUME NEW s \in Session, s.history # <<>>, NEW e \in Entry
  PROVE  LET t == [s EXCEPT !.history = [s.history EXCEPT ![Len(s.history)] = e]] IN
         /\ t \in Session /\ t.status = s.status /\ t.failed = s.failed /\ t.applied = s.applied
         /\ t.history # <<>> /\ Len(t.history) = Len(s.history)
         /\ \A i \in 1..Len(s.history) :
              t.history[i] = IF i = Len(s.history) THEN e ELSE s.history[i]
  <1> DEFINE h == [s.history EXCEPT ![Len(s.history)] = e]
             t == [s EXCEPT !.history = h]
  <1>1. s \in Loose /\ s.history \in Seq(Entry) /\ Len(s.history) \in 1..Len(s.history)
        /\ Len(s.history) <= MaxHistory /\ Len(s.history) \in Nat \ {0}
    BY Bounded, Histories
  <1>2. /\ h \in Seq(Entry) /\ Len(h) = Len(s.history)
        /\ \A i \in 1..Len(s.history) : h[i] = IF i = Len(s.history) THEN e ELSE s.history[i]
    BY <1>1, ExceptSeq
  <1>3. h # <<>>
    BY <1>1, <1>2, EmptySeq
  <1> HIDE DEF h
  <1>4. /\ t \in Loose
        /\ t.history = h
        /\ t.status = s.status
        /\ t.failed = s.failed
        /\ t.applied = s.applied
    BY <1>1, <1>2 DEF Loose
  <1>5. t \in Session
    BY <1>1, <1>2, <1>4, Bounded
  <1> QED BY <1>2, <1>3, <1>4, <1>5 DEF h

\* A decision is entered at the last proposal.
LEMMA DecidedRecord ==
  ASSUME NEW s \in Session, s.history # <<>>, NEW c \in Decisions
  PROVE  LET t == DecidedBy(s, c) IN
         /\ t \in Session /\ t.status = s.status /\ t.failed = s.failed
         /\ Len(t.history) = Len(s.history) /\ LastDecision(t) = c
         /\ \A i \in 1..Len(s.history) : i # Len(s.history) => t.history[i] = s.history[i]
  <1> DEFINE n == Len(s.history)
             e == [s.history[n] EXCEPT !.decision = c]
             t == [s EXCEPT !.history = [s.history EXCEPT ![n] = e]]
  <1>1. n \in 1..n /\ s.history[n] \in Entry
    BY Bounded, Histories
  <1>2. e \in Entry /\ e.decision = c
    BY <1>1 DEF Entry
  <1>3. DecidedBy(s, c) = t
    BY DEF DecidedBy
  <1> HIDE DEF e
  <1>4. /\ t \in Session /\ t.status = s.status /\ t.failed = s.failed
        /\ t.history # <<>> /\ Len(t.history) = n
        /\ \A i \in 1..n : t.history[i] = IF i = n THEN e ELSE s.history[i]
    BY <1>2, LastChanged
  <1>5. t.history[n].decision = c
    BY <1>1, <1>2, <1>4
  <1> HIDE DEF t
  <1> QED BY <1>3, <1>4, <1>5 DEF LastDecision, Last

\* A failed verification is entered at the last proposal.
LEMMA ProvenRecord ==
  ASSUME NEW s \in Session, s.history # <<>>, LastDecision(s) = "APPROVED", HistoryValid(s.history)
  PROVE  LET t == [s EXCEPT !.history[Len(s.history)].proof = TRUE] IN
         /\ t \in Session /\ t.status = s.status /\ t.failed = s.failed /\ t.applied = s.applied
         /\ Len(t.history) = Len(s.history) /\ LastDecision(t) = "APPROVED" /\ Proven(t)
         /\ \A i \in 1..Len(s.history) : t.history[i].decision = s.history[i].decision
         /\ HistoryValid(t.history)
  <1> DEFINE n == Len(s.history)
             e == [s.history[n] EXCEPT !.proof = TRUE]
             t == [s EXCEPT !.history = [s.history EXCEPT ![n] = e]]
  <1>1. n \in 1..n /\ s.history[n] \in Entry /\ n \in Nat
    BY Bounded, Histories
  <1>2. e \in Entry /\ e.decision = s.history[n].decision /\ e.proof
    BY <1>1 DEF Entry
  <1>3. [s EXCEPT !.history[Len(s.history)].proof = TRUE] = t
    OBVIOUS
  <1>4. s.history[n].decision = "APPROVED"
    BY DEF LastDecision, Last
  <1> HIDE DEF e
  <1>5. /\ t \in Session /\ t.status = s.status /\ t.failed = s.failed /\ t.applied = s.applied
        /\ t.history # <<>> /\ Len(t.history) = n
        /\ \A i \in 1..n : t.history[i] = IF i = n THEN e ELSE s.history[i]
    BY <1>2, LastChanged
  <1> HIDE DEF t
  <1>6. t.history[n].decision = "APPROVED" /\ t.history[n].proof
    BY <1>1, <1>2, <1>4, <1>5
  <1>7. \A i \in 1..n : t.history[i].decision = s.history[i].decision
    BY <1>2, <1>5
  <1>8. HistoryValid(t.history)
    BY <1>1, <1>2, <1>4, <1>5, SMTT(30) DEF HistoryValid
  <1> QED BY <1>3, <1>5, <1>6, <1>7, <1>8 DEF LastDecision, Last, Proven

-----------------------------------------------------------------------------
(* What a step of an owner does to the others.                               *)

\* The claims the executor may hold.
Executing == [by : Requests \cup {Free, Dead}, proposal : Proposals \cup {<<>>},
              phase : {"none", "PREPARING", "APPLYING"}]

\* A step leaves what q is doing alone; at most its render becomes stale.
Same(q) ==
  /\ req'[q].pc = req[q].pc /\ req'[q].op = req[q].op /\ req'[q].d = req[q].d
  /\ req'[q].start = req[q].start /\ req'[q].cur = req[q].cur
  /\ req'[q].decision = req[q].decision

\* A step of an owner: it changes its own session, counter and knowledge only.
Acts(r) ==
  /\ req[r].pc \in Owning /\ req'[r].pc \in Owning
  /\ req' \in [Requests -> Asked]
  /\ \A q \in Requests \ {r} : Same(q)
  /\ req'[r].d = req[r].d /\ req'[r].op = req[r].op /\ req'[r].decision = req[r].decision
  /\ UNCHANGED claim
  /\ session' \in [Directions -> Session]
  /\ \A d \in Directions \ {D(r)} : session'[d] = session[d]
  /\ \/ session'[D(r)] = session[D(r)]
     \/ Acceptable(session'[D(r)]) /\ session'[D(r)].status # "NONE"
  /\ mutated' \in [Proposals -> Nat]
  /\ \A p \in Proposals : p[1] # D(r) => mutated'[p] = mutated[p]
  /\ exec' \in Executing
  /\ exec' = exec \/ exec.by \in {r, Free, Dead}
  /\ exec'.by \in Requests \ {r} => exec' = exec
  /\ exec'.by = r => req'[r].pc \in {"mirror", "apply"}
  /\ faults' \in Nat /\ (faults' = 0 => faults = 0)
  /\ req'[r].pc \in Working => req[r].pc \in Working
  /\ \/ req[r].pc \in Working
     \/ session'[D(r)] = session[D(r)] \/ session'[D(r)].status \in Terminal
  /\ \A i \in 1..MaxHistory : mutated'[<<D(r), i>>] <= 1
  /\ Recorded(D(r), session[D(r)])'
  /\ Place(r)'

\* The proposals of one direction.
LEMMA ProposalPairs == \A d \in Directions : \A i \in 1..MaxHistory : <<d, i>> \in Proposals
  BY DEF Proposals

\* What a request must know after a step that does not mutate at its session.
LEMMA PlacingHere ==
  ASSUME NEW r \in Requests, \A i \in 1..MaxHistory : mutated'[<<req'[r].d, i>>] = mutated[<<req'[r].d, i>>],
         LET pc == req'[r].pc
             d == req'[r].d
             cur == req'[r].cur
             start == req'[r].start
             s == session'[d]
         IN  /\ pc \in Working => Live(s) /\ Live(cur) /\ Live(start)
             /\ pc \in Working \cup {"failed"} => Recorded(d, cur)
             /\ pc \in Returning => Recorded(d, start) /\ Acceptable(start) /\ AtRest(start)
             /\ pc \in {"preparing", "decided", "approved"} => s = start /\ cur = start
             /\ pc \in {"decided", "approved"} => LastDecision(cur) = "none" /\ AtRest(start)
             /\ pc \in {"execute", "mirror", "apply"} =>
                  /\ s = cur /\ LastDecision(cur) = "APPROVED"
                  /\ LastDecision(start) = "none" /\ Len(start.history) = Len(cur.history)
             /\ pc \in {"execute", "mirror", "apply", "editing", "reconcile"} =>
                  cur.status = "APPROVED" /\ Acceptable(cur)
             /\ pc \in Judged =>
                  LastDecision(cur) = "APPROVED" /\ cur.applied /\ ~cur.failed /\ HistoryValid(cur.history)
             /\ pc = "again" => Proven(cur)
             /\ pc \in {"mirror", "apply"} => exec'.by = r /\ exec'.proposal = Proposal(d, cur)
             /\ pc \in {"load", "return", "verify"} /\ faults' = 0 => AtRest(s)
  PROVE  Place(r)'
  BY DEF Place, Live, Recorded, Acceptable, AtRest, LastDecision, Proven, Last, HistoryValid, Proposal

\* What a request must know after a step that mutates nothing.
LEMMA Placing ==
  ASSUME NEW r \in Requests, mutated' = mutated,
         LET pc == req'[r].pc
             d == req'[r].d
             cur == req'[r].cur
             start == req'[r].start
             s == session'[d]
         IN  /\ pc \in Working => Live(s) /\ Live(cur) /\ Live(start)
             /\ pc \in Working \cup {"failed"} => Recorded(d, cur)
             /\ pc \in Returning => Recorded(d, start) /\ Acceptable(start) /\ AtRest(start)
             /\ pc \in {"preparing", "decided", "approved"} => s = start /\ cur = start
             /\ pc \in {"decided", "approved"} => LastDecision(cur) = "none" /\ AtRest(start)
             /\ pc \in {"execute", "mirror", "apply"} =>
                  /\ s = cur /\ LastDecision(cur) = "APPROVED"
                  /\ LastDecision(start) = "none" /\ Len(start.history) = Len(cur.history)
             /\ pc \in {"execute", "mirror", "apply", "editing", "reconcile"} =>
                  cur.status = "APPROVED" /\ Acceptable(cur)
             /\ pc \in Judged =>
                  LastDecision(cur) = "APPROVED" /\ cur.applied /\ ~cur.failed /\ HistoryValid(cur.history)
             /\ pc = "again" => Proven(cur)
             /\ pc \in {"mirror", "apply"} => exec'.by = r /\ exec'.proposal = Proposal(d, cur)
             /\ pc \in {"load", "return", "verify"} /\ faults' = 0 => AtRest(s)
  PROVE  Place(r)'
  BY PlacingHere

\* A step of r leaves alone what another request knows.
LEMMA PlaceElsewhere ==
  ASSUME NEW q \in Requests, Place(q), Same(q),
         req[q].pc # "idle" => req[q].d \in Directions,
         req[q].pc \in Owning =>
            /\ session'[req[q].d] = session[req[q].d]
            /\ \A i \in 1..MaxHistory : mutated'[<<req[q].d, i>>] = mutated[<<req[q].d, i>>],
         req[q].pc \in {"mirror", "apply"} => exec' = exec,
         faults' = 0 => faults = 0
  PROVE  Place(q)'
  <1> DEFINE pc == req[q].pc
             d == req[q].d
             cur == req[q].cur
             start == req[q].start
  <1>1. req'[q].pc = pc /\ req'[q].d = d /\ req'[q].cur = cur /\ req'[q].start = start
    BY DEF Same
  <1>2. CASE pc \notin Owning
    <2>1. pc \notin Working \cup Returning \cup Judged \cup
            {"load", "return", "verify", "failed", "decided", "approved", "execute", "mirror", "apply",
             "editing", "reconcile", "again", "preparing"}
        BY <1>2 DEF Owning, Working, Returning, Judged
    <2> QED BY <1>1, <2>1 DEF Place, Working, Returning, Judged
  <1>3. CASE pc \in Owning
    <2>1. session'[d] = session[d]
        BY <1>3
    <2>2. \A i \in 1..MaxHistory : mutated'[<<d, i>>] = mutated[<<d, i>>]
        BY <1>3
    <2>3. pc \in {"mirror", "apply"} => exec' = exec
        OBVIOUS
    <2>4. \A i \in 1..MaxHistory : mutated'[<<req'[q].d, i>>] = mutated[<<req'[q].d, i>>]
        BY <1>1, <2>2
    <2> QED BY <1>1, <2>1, <2>3, <2>4, PlacingHere DEF Place
  <1> QED BY <1>2, <1>3

\* A step of an owner keeps the invariant.
LEMMA ActsInv ==
  ASSUME SafeInv, NEW r \in Requests, Acts(r)
  PROVE  SafeInv'
  <1>1. req[r].pc # "idle" /\ D(r) \in Directions /\ claim[D(r)] = r
    BY DEF Acts, SafeInv, Typed, Owns, Owning, Working, D
  <1>2. \A q \in Requests \ {r} : req[q].pc \in Owning => req[q].d \in Directions /\ req[q].d # D(r)
    BY <1>1 DEF SafeInv, Typed, Owns, D, Owning, Working
  <1>3. Typed'
    <2>1. TypeOK'
        <3>1. \A d \in Directions : session'[d].status # "NONE" => Acceptable(session'[d])
            BY <1>1, SMTT(30) DEF Acts, SafeInv, Typed, TypeOK
        <3>2. /\ exec'.by \in Requests \cup {Free, Dead}
              /\ exec'.phase \in {"none", "PREPARING", "APPLYING"}
            BY DEF Acts, Executing
        <3>3. /\ claim' \in [Directions -> Requests \cup {Free, Dead}]
              /\ DOMAIN mutated' = Proposals
            BY DEF Acts, SafeInv, Typed, TypeOK
        <3>4. session' \in [Directions -> Session]
            BY DEF Acts
        <3> QED BY <3>1, <3>2, <3>3, <3>4
            DEF TypeOK, Acceptable, HistoryValid, LastDecision, Last, Proven
    <2>2. \A q \in Requests : req'[q].pc # "idle" => req'[q].d \in Directions /\ req'[q].op # "none"
        <3>1. req[r].op # "none"
            BY <1>1 DEF SafeInv, Typed
        <3> QED BY <1>1, <3>1 DEF Acts, Same, SafeInv, Typed, D
    <2>3. \A q \in Requests : req'[q].op = "decide" => req'[q].decision \in {"REVISION_REQUESTED", "REJECTED"}
        BY DEF Acts, Same, SafeInv, Typed
    <2> QED BY <2>1, <2>2, <2>3 DEF Acts, Typed, Executing
  <1>4. Owns'
    BY <1>1 DEF Acts, Same, SafeInv, Owns, D
  <1>5. ASSUME NEW q \in Requests PROVE Place(q)'
    <2>1. CASE q = r
        BY <2>1 DEF Acts
    <2>2. CASE q # r
        <3>1. Same(q) /\ Place(q)
            BY <2>2 DEF Acts, SafeInv, Places
        <3>2. req[q].pc \in Owning =>
                 /\ session'[req[q].d] = session[req[q].d]
                 /\ \A i \in 1..MaxHistory : mutated'[<<req[q].d, i>>] = mutated[<<req[q].d, i>>]
            BY <1>2, <2>2, ProposalPairs DEF Acts
        <3>3. req[q].pc \in {"mirror", "apply"} => exec' = exec
            <4>1. req[q].pc \in {"mirror", "apply"} => exec.by = q
                BY <3>1 DEF Place
            <4> QED BY <2>2, <4>1, SafeAssumption DEF Acts
        <3>4. req[q].pc # "idle" => req[q].d \in Directions
            BY DEF SafeInv, Typed
        <3> QED BY <3>1, <3>2, <3>3, <3>4, PlaceElsewhere DEF Acts
    <2> QED BY <2>1, <2>2
  <1>6. Alone'
    <2> SUFFICES ASSUME NEW q \in Requests, req'[q].pc \in Working
                 PROVE  /\ \A x \in Requests \ {q} : req'[x].pc \notin Working
                        /\ \A d \in Active' : d # req'[q].d => session'[d].status = "IDLE"
        BY DEF Alone
    <2>1. req[q].pc \in Working /\ req'[q].d = req[q].d
        BY DEF Acts, Same
    <2>2. \A x \in Requests \ {q} : req[x].pc \notin Working
        BY <2>1 DEF SafeInv, Alone
    <2>3. \A x \in Requests \ {q} : req'[x].pc \notin Working
        BY <2>2 DEF Acts, Same
    <2>4. ASSUME NEW d \in Active', d # req[q].d PROVE session'[d].status = "IDLE"
        <3>1. d \in Directions
            BY <2>4 DEF Active
        <3>2. CASE session'[d] = session[d]
            <4>1. d \in Active
                BY <2>4, <3>1, <3>2 DEF Active
            <4> QED BY <2>1, <2>4, <3>2, <4>1 DEF SafeInv, Alone
        <3>3. CASE session'[d] # session[d]
            <4>1. d = D(r) /\ r # q
                BY <2>4, <3>1, <3>3 DEF Acts, D
            <4>2. session'[D(r)].status \in Terminal
                BY <2>2, <3>3, <4>1 DEF Acts
            <4> QED BY <2>4, <4>1, <4>2 DEF Active
        <3> QED BY <3>2, <3>3
    <2> QED BY <2>1, <2>3, <2>4
  <1>7. ExecOwner'
    BY DEF Acts, Same, SafeInv, ExecOwner
  <1>8. Rests'
    <2> SUFFICES ASSUME faults' = 0, NEW d \in Directions
                 PROVE  claim'[d] # Dead /\ (claim'[d] = Free => AtRest(session'[d]))
        BY DEF Rests, AtRest, Proven, Last
    <2>1. claim[d] # Dead /\ (claim[d] = Free => AtRest(session[d])) /\ claim' = claim
        BY DEF Acts, SafeInv, Rests
    <2>2. claim[d] = Free => d # D(r)
        BY <1>1, SafeAssumption
    <2> QED BY <2>1, <2>2 DEF Acts
  <1>9. AppliedOnce'
    <2>1. MutatedOnce'
        <3> SUFFICES ASSUME NEW p \in Proposals PROVE mutated'[p] <= 1
            BY DEF MutatedOnce
        <3>1. CASE p[1] # D(r)
            BY <3>1 DEF Acts, SafeInv, AppliedOnce, MutatedOnce
        <3>2. CASE p[1] = D(r)
            <4>1. PICK i \in 1..MaxHistory : p = <<D(r), i>>
                BY <3>2 DEF Proposals
            <4> QED BY <4>1 DEF Acts
        <3> QED BY <3>1, <3>2
    <2>2. AppliedIsRecorded'
        <3> SUFFICES ASSUME NEW d \in Directions, NEW i \in 1..MaxHistory, mutated'[<<d,
                            i>>] > 0
                     PROVE  i <= Len(session'[d].history) /\ session'[d].history[i].decision = "APPROVED"
            BY DEF AppliedIsRecorded
        <3>1. CASE d = D(r)
            BY <3>1 DEF Acts, Recorded, D
        <3>2. CASE d # D(r)
            <4>1. mutated'[<<d, i>>] = mutated[<<d, i>>] /\ session'[d] = session[d]
                BY <3>2, ProposalPairs DEF Acts
            <4> QED BY <4>1 DEF SafeInv, AppliedOnce, AppliedIsRecorded
        <3> QED BY <3>1, <3>2
    <2> QED BY <2>1, <2>2 DEF AppliedOnce
  <1>10. Unstarted'
    BY DEF Acts, SafeInv, Unstarted
  <1> QED BY <1>3, <1>4, <1>5, <1>6, <1>7, <1>8, <1>9, <1>10 DEF SafeInv, Places

-----------------------------------------------------------------------------
(* The checkpoints.                                                          *)

\* What is known of a request that owns its session.
LEMMA Knows ==
  ASSUME SafeInv, NEW r \in Requests, req[r].pc \in Owning
  PROVE  /\ D(r) \in Directions /\ req[r].d = D(r) /\ req[r] \in Asked
         /\ req[r].cur \in Session /\ req[r].start \in Session /\ session[D(r)] \in Session
         /\ faults \in Nat /\ Recorded(D(r), session[D(r)]) /\ Place(r)
         /\ req[r].pc # "idle"
  <1>1. req[r].pc # "idle" /\ req[r] \in Asked /\ D(r) \in Directions /\ faults \in Nat
        /\ session \in [Directions -> Session]
    BY DEF SafeInv, Typed, TypeOK, Owning, Working, D
  <1>2. req[r].cur \in Session /\ req[r].start \in Session
    BY <1>1 DEF Asked
  <1>3. Recorded(D(r), session[D(r)])
    BY <1>1 DEF SafeInv, AppliedOnce, AppliedIsRecorded, Recorded
  <1> QED BY <1>1, <1>2, <1>3 DEF SafeInv, Places, D

\* The outcomes of a checkpoint: saved, refused, or a failure that may have
\* saved it.
Checked(r, new, next, fail, left) ==
  /\ req' \in [Requests -> Asked]
  /\ \A q \in Requests \ {r} : Same(q)
  /\ req'[r].d = req[r].d /\ req'[r].op = req[r].op /\ req'[r].decision = req[r].decision
  /\ req'[r].start = req[r].start
  /\ UNCHANGED <<claim, exec, mutated>>
  /\ session' \in [Directions -> Session]
  /\ \A d \in Directions \ {D(r)} : session'[d] = session[d]
  /\ \/ /\ Acceptable(new) /\ session'[D(r)] = new /\ faults' = faults
        /\ req'[r].pc = next /\ req'[r].cur = new
     \/ /\ ~Acceptable(new) /\ session'[D(r)] = session[D(r)] /\ faults' = faults
        /\ req'[r].pc = fail /\ req'[r].cur = left
     \/ /\ Acceptable(new) /\ session'[D(r)] \in {session[D(r)], new} /\ faults' = faults + 1
        /\ req'[r].pc = fail /\ req'[r].cur = left

\* What is accepted fits.
LEMMA Storable == \A new \in Loose : Acceptable(new) => new \in Session
  BY Bounded DEF Acceptable, HistoryValid

\* A checkpoint has one of its outcomes ...
LEMMA Outcomes ==
  ASSUME SafeInv, NEW r \in Requests, req[r].pc \in Owning, NEW new \in Loose,
         NEW next \in Owning, NEW fail \in Owning, NEW left \in Session,
         \/ Saves(r, new) /\ req' = [req EXCEPT ![r].pc = next, ![r].cur = new]
         \/ Refuses(r, new) /\ req' = [req EXCEPT ![r].pc = fail, ![r].cur = left],
         UNCHANGED <<claim, exec, spent, mutated>>
  PROVE  Checked(r, new, next, fail, left)
  <1>1. /\ D(r) \in Directions /\ req[r] \in Asked /\ req \in [Requests -> Asked]
        /\ session \in [Directions -> Session]
    BY Knows DEF SafeInv, Typed, TypeOK
  <1>2. Acceptable(new) => new \in Session
    BY Storable
  <1>3. CASE Saves(r, new) /\ req' = [req EXCEPT ![r].pc = next, ![r].cur = new]
    <2> DEFINE a == [req[r] EXCEPT !.pc = next, !.cur = new]
    <2>1. Acceptable(new) /\ session' = [session EXCEPT ![D(r)] = new] /\ faults' = faults
        BY <1>3 DEF Saves
    <2>2. /\ a \in Asked /\ a.pc = next /\ a.cur = new /\ a.d = req[r].d /\ a.op = req[r].op
          /\ a.decision = req[r].decision /\ a.start = req[r].start
        BY <1>1, <1>2, <2>1 DEF Asked
    <2>3. req' = [req EXCEPT ![r] = a]
        BY <1>3
    <2> HIDE DEF a
    <2>4. req' \in [Requests -> Asked] /\ req'[r] = a /\ \A q \in Requests \ {r} : req'[q] = req[q]
        BY <1>1, <2>2, <2>3
    <2>5. session' \in [Directions -> Session] /\ session'[D(r)] = new
          /\ \A d \in Directions \ {D(r)} : session'[d] = session[d]
        BY <1>1, <1>2, <2>1
    <2> QED BY <2>1, <2>2, <2>4, <2>5 DEF Checked, Same
  <1>4. CASE Refuses(r, new) /\ req' = [req EXCEPT ![r].pc = fail, ![r].cur = left]
    <2> DEFINE a == [req[r] EXCEPT !.pc = fail, !.cur = left]
    <2>1. \/ ~Acceptable(new) /\ session' = session /\ faults' = faults
          \/ /\ Acceptable(new) /\ faults' = faults + 1
             /\ session' \in {session, [session EXCEPT ![D(r)] = new]}
        BY <1>4 DEF Refuses
    <2>2. /\ a \in Asked /\ a.pc = fail /\ a.cur = left /\ a.d = req[r].d /\ a.op = req[r].op
          /\ a.decision = req[r].decision /\ a.start = req[r].start
        BY <1>1 DEF Asked
    <2>3. req' = [req EXCEPT ![r] = a]
        BY <1>4
    <2> HIDE DEF a
    <2>4. req' \in [Requests -> Asked] /\ req'[r] = a /\ \A q \in Requests \ {r} : req'[q] = req[q]
        BY <1>1, <2>2, <2>3
    <2>5. session' \in [Directions -> Session] /\ session'[D(r)] \in {session[D(r)], new}
          /\ \A d \in Directions \ {D(r)} : session'[d] = session[d]
        BY <1>1, <1>2, <2>1
    <2>6. ~Acceptable(new) => session'[D(r)] = session[D(r)]
        BY <2>1
    <2> QED BY <2>1, <2>2, <2>4, <2>5, <2>6 DEF Checked, Same
  <1> QED BY <1>3, <1>4

\* ... as has each Checkpoint ...
LEMMA CheckpointEffect ==
  ASSUME SafeInv, NEW r \in Requests, NEW pc \in Owning, NEW new \in Loose,
         NEW next \in Owning, NEW fail \in Owning, Checkpoint(r, pc, new, next, fail)
  PROVE  req[r].pc = pc /\ Checked(r, new, next, fail, req[r].cur)
  <1>1. req[r].pc = pc /\ UNCHANGED <<claim, exec, spent, mutated>>
    BY DEF Checkpoint, At
  <1>2. req[r] \in Asked /\ req[r].cur \in Session /\ req \in [Requests -> Asked]
    BY <1>1, Knows DEF SafeInv, Typed
  <1>3. [req EXCEPT ![r].pc = fail] = [req EXCEPT ![r].pc = fail, ![r].cur = req[r].cur]
    <2>1. [req[r] EXCEPT !.pc = fail] = [req[r] EXCEPT !.pc = fail, !.cur = req[r].cur]
        BY <1>2 DEF Asked
    <2> QED BY <1>2, <2>1
  <1>4. \/ Saves(r, new) /\ req' = [req EXCEPT ![r].pc = next, ![r].cur = new]
        \/ Refuses(r, new) /\ req' = [req EXCEPT ![r].pc = fail, ![r].cur = req[r].cur]
    BY <1>3 DEF Checkpoint
  <1> QED BY <1>1, <1>2, <1>4, Outcomes

\* ... and each VerificationCheckpoint.
LEMMA VerificationEffect ==
  ASSUME SafeInv, NEW r \in Requests, NEW pc \in Owning, NEW new \in Session,
         NEW next \in Owning, VerificationCheckpoint(r, pc, new, next)
  PROVE  req[r].pc = pc /\ Checked(r, new, next, "failed", new)
  <1>1. req[r].pc = pc /\ UNCHANGED <<claim, exec, spent, mutated>>
    BY DEF VerificationCheckpoint, At
  <1>2. "failed" \in Owning /\ new \in Loose
    BY Bounded DEF Owning
  <1> QED BY <1>1, <1>2, Outcomes DEF VerificationCheckpoint

\* A checkpoint whose record keeps what was applied is a step of an owner.
LEMMA CheckedActs ==
  ASSUME SafeInv, NEW r \in Requests, req[r].pc \in Owning \ {"mirror", "apply"},
         NEW new \in Loose, NEW next \in Owning, NEW fail \in Owning, NEW left \in Session,
         Checked(r, new, next, fail, left), Recorded(D(r), new),
         next \in Working \/ fail \in Working => req[r].pc \in Working,
         req[r].pc \in Working \/ new.status \in Terminal, new.status # "NONE",
         Place(r)'
  PROVE  Acts(r)
  <1>1. D(r) \in Directions /\ faults \in Nat /\ Recorded(D(r), session[D(r)])
    BY Knows
  <1>2. exec.by # r /\ exec \in Executing /\ exec' = exec
    BY DEF SafeInv, ExecOwner, Typed, Executing, Checked
  <1>3. mutated' = mutated /\ mutated \in [Proposals -> Nat]
    BY DEF SafeInv, Typed, Checked
  <1>4. \A i \in 1..MaxHistory : mutated'[<<D(r), i>>] <= 1
    BY <1>1, <1>3, ProposalPairs DEF SafeInv, AppliedOnce, MutatedOnce
  <1>5. D(r)' = D(r)
    BY DEF Checked, D
  <1>6. session'[D(r)] \in {session[D(r)], new}
        /\ (session'[D(r)] = session[D(r)] \/ Acceptable(session'[D(r)]))
    BY DEF Checked
  <1>7. Recorded(D(r), session[D(r)])'
    <2>1. \A i \in 1..MaxHistory : mutated[<<D(r), i>>] > 0 =>
             i <= Len(session'[D(r)].history) /\ session'[D(r)].history[i].decision = "APPROVED"
        BY <1>1, <1>6 DEF Recorded
    <2> QED BY <1>3, <1>5, <2>1 DEF Recorded
  <1>8. faults' \in Nat /\ (faults' = 0 => faults = 0)
    BY <1>1 DEF Checked
  <1>9. req'[r].pc \in {next, fail}
    BY DEF Checked
  <1>10. \/ req[r].pc \in Working
         \/ session'[D(r)] = session[D(r)] \/ session'[D(r)].status \in Terminal
    BY <1>6
  <1> QED BY <1>1, <1>2, <1>3, <1>4, <1>6, <1>7, <1>8, <1>9, <1>10 DEF Acts, Checked

\* A decision on an undecided proposal, entered with a new status.
LEMMA Decidable ==
  ASSUME NEW s \in Session, LastDecision(s) = "none", NEW x \in Statuses, NEW c \in Decisions
  PROVE  LET t == DecidedBy(With(s, x), c) IN
         /\ t \in Session /\ t.status = x /\ t.failed = s.failed
         /\ Len(t.history) = Len(s.history) /\ LastDecision(t) = c
         /\ s.history[Len(s.history)].decision = "none"
         /\ \A i \in 1..Len(s.history) : i # Len(s.history) => t.history[i] = s.history[i]
  <1> DEFINE w == With(s, x)
  <1>1. w \in Session /\ w.status = x /\ w.history = s.history /\ w.failed = s.failed
    BY WithStatus
  <1>2. s.history # <<>> /\ s.history[Len(s.history)].decision = "none"
    BY DEF LastDecision, Last
  <1> HIDE DEF w
  <1>3. DecidedBy(w, c) \in Session /\ DecidedBy(w, c).status = w.status
        /\ DecidedBy(w, c).failed = w.failed
        /\ Len(DecidedBy(w, c).history) = Len(w.history) /\ LastDecision(DecidedBy(w, c)) = c
        /\ \A i \in 1..Len(w.history) : i # Len(w.history) => DecidedBy(w, c).history[i] = w.history[i]
    BY <1>1, <1>2, DecidedRecord
  <1> QED BY <1>1, <1>2, <1>3 DEF w

\* An owner brought a decision along.
LEMMA DecisionGiven ==
  ASSUME SafeInv, NEW r \in Requests, req[r].pc \in Owning
  PROVE  req[r].decision \in Decisions
  <1>1. req[r] \in Asked
    BY Knows
  <1> QED BY <1>1 DEF Asked

\* An undecided proposal has not been applied, so that only the others count.
LEMMA LastMutable ==
  ASSUME NEW d, NEW s, NEW t, Recorded(d, s), Len(t.history) = Len(s.history),
         s.history[Len(s.history)].decision = "none",
         \A i \in 1..Len(s.history) : i # Len(s.history) => t.history[i] = s.history[i],
         s \in Session
  PROVE  Recorded(d, t)
  <1>1. Len(s.history) \in Nat
    BY Bounded, Histories
  <1> QED BY <1>1, SafeAssumption DEF Recorded

\* An empty session is prepared.
LEMMA PreparingActs ==
  ASSUME SafeInv, NEW r \in Requests, Preparing(r)
  PROVE  Acts(r)
  <1> DEFINE d == D(r)
             cur == req[r].cur
             start == req[r].start
             new == With(cur, "PREPARING")
  <1>1. req[r].pc = "preparing"
    BY DEF Preparing, Checkpoint, At
  <1>2. /\ cur \in Session /\ start \in Session /\ req[r].d = d /\ faults \in Nat
        /\ Live(session[d]) /\ Live(cur) /\ Live(start) /\ Recorded(d, cur)
        /\ Recorded(d, start) /\ Acceptable(start) /\ AtRest(start)
    BY <1>1, Knows DEF Place, Working, Returning, Judged, Owning
  <1>3. /\ new \in Session
        /\ new.status = "PREPARING" /\ new.history = cur.history /\ new.failed = cur.failed
    BY <1>2, WithStatus DEF Statuses
  <1>4. new \in Loose
    BY <1>3, Bounded
  <1> HIDE DEF new
  <1>5. Checked(r, new, "proposing", "rollback", cur)
    BY <1>4, CheckpointEffect, Zenon DEF Preparing, Owning, Working, new
  <1>6. Recorded(d, new) /\ Live(new)
    BY <1>2, <1>3 DEF Recorded, Live, Terminal
  <1>7. Place(r)'
    BY <1>2, <1>3, <1>5, <1>6, Placing DEF Checked, Working, Returning, Judged
  <1> QED BY <1>1, <1>2, <1>3, <1>4, <1>5, <1>6, <1>7, CheckedActs, Zenon
      DEF Working, Owning, Live, Terminal

\* The agent is about to propose.
LEMMA ProposingActs ==
  ASSUME SafeInv, NEW r \in Requests, Proposing(r)
  PROVE  Acts(r)
  <1> DEFINE d == D(r)
             cur == req[r].cur
             start == req[r].start
             new == With(cur, "PROPOSING")
  <1>1. req[r].pc = "proposing"
    BY DEF Proposing, Checkpoint, At
  <1>2. /\ cur \in Session /\ start \in Session /\ req[r].d = d /\ faults \in Nat
        /\ Live(session[d]) /\ Live(cur) /\ Live(start) /\ Recorded(d, cur)
        /\ Recorded(d, start) /\ Acceptable(start) /\ AtRest(start)
    BY <1>1, Knows DEF Place, Working, Returning, Judged, Owning
  <1>3. /\ new \in Session
        /\ new.status = "PROPOSING" /\ new.history = cur.history /\ new.failed = cur.failed
    BY <1>2, WithStatus DEF Statuses
  <1>4. new \in Loose
    BY <1>3, Bounded
  <1> HIDE DEF new
  <1>5. Checked(r, new, "agent", "rollback", cur)
    BY <1>4, CheckpointEffect, Zenon DEF Proposing, Owning, Working, new
  <1>6. Recorded(d, new) /\ Live(new)
    BY <1>2, <1>3 DEF Recorded, Live, Terminal
  <1>7. Place(r)'
    BY <1>2, <1>3, <1>5, <1>6, Placing DEF Checked, Working, Returning, Judged
  <1> QED BY <1>1, <1>2, <1>3, <1>4, <1>5, <1>6, <1>7, CheckedActs, Zenon
      DEF Working, Owning, Live, Terminal

\* A proposal waits for the decision.
LEMMA WaitingActs ==
  ASSUME SafeInv, NEW r \in Requests, Waiting(r)
  PROVE  Acts(r)
  <1> DEFINE d == D(r)
             cur == req[r].cur
             start == req[r].start
             new == Proposed(cur)
  <1>1. req[r].pc = "waiting"
    BY DEF Waiting, Checkpoint, At
  <1>2. /\ cur \in Session /\ start \in Session /\ req[r].d = d /\ faults \in Nat
        /\ Live(session[d]) /\ Live(cur) /\ Live(start) /\ Recorded(d, cur)
        /\ Recorded(d, start) /\ Acceptable(start) /\ AtRest(start)
    BY <1>1, Knows DEF Place, Working, Returning, Judged, Owning
  <1>3. /\ new \in Loose
        /\ new.status = "WAITING_APPROVAL" /\ new.failed = cur.failed
        /\ Len(new.history) = Len(cur.history) + 1 /\ Len(cur.history) \in Nat
        /\ \A i \in 1..Len(cur.history) : new.history[i] = cur.history[i]
    BY <1>2, ProposedRecord, Bounded, Histories
  <1>4. new \in Loose
    BY <1>3
  <1> HIDE DEF new
  <1>5. Checked(r, new, "return", "rollback", cur)
    BY <1>4, CheckpointEffect, Zenon DEF Waiting, Owning, Working, new
  <1>6. Recorded(d, new) /\ Live(new) /\ AtRest(new)
    BY <1>2, <1>3, SafeAssumption DEF Recorded, Live, AtRest, Terminal
  <1>7. Place(r)'
    BY <1>2, <1>3, <1>5, <1>6, Placing DEF Checked, Working, Returning, Judged
  <1> QED BY <1>1, <1>2, <1>3, <1>4, <1>5, <1>6, <1>7, CheckedActs, Zenon
      DEF Working, Owning, Live, Terminal

\* A failure puts the record back that the operation started from.
LEMMA RollBackActs ==
  ASSUME SafeInv, NEW r \in Requests, RollBack(r)
  PROVE  Acts(r)
  <1> DEFINE d == D(r)
             cur == req[r].cur
             start == req[r].start
             new == start
  <1>1. req[r].pc = "rollback"
    BY DEF RollBack, Checkpoint, At
  <1>2. /\ cur \in Session /\ start \in Session /\ req[r].d = d /\ faults \in Nat
        /\ Live(session[d]) /\ Live(cur) /\ Live(start) /\ Recorded(d, cur)
        /\ Recorded(d, start) /\ Acceptable(start) /\ AtRest(start)
    BY <1>1, Knows DEF Place, Working, Returning, Judged, Owning
  <1>3. /\ new \in Session
        /\ new = start
    BY <1>2, Bounded
  <1>4. new \in Loose
    BY <1>3, Bounded
  <1> HIDE DEF new
  <1>5. Checked(r, new, "return", "return", cur)
    BY <1>4, CheckpointEffect, Zenon DEF RollBack, Owning, Working, new
  <1>6. Recorded(d, new) /\ Live(new) /\ AtRest(new)
    BY <1>2, <1>3
  <1>7. Place(r)'
    BY <1>2, <1>3, <1>5, <1>6, Placing DEF Checked, Working, Returning, Judged
  <1> QED BY <1>1, <1>2, <1>3, <1>4, <1>5, <1>6, <1>7, CheckedActs, Zenon
      DEF Working, Owning, Live, Terminal

\* A proposal in doubt is left to a human.
LEMMA ReconcileActs ==
  ASSUME SafeInv, NEW r \in Requests, Reconcile(r)
  PROVE  Acts(r)
  <1> DEFINE d == D(r)
             cur == req[r].cur
             start == req[r].start
             new == Unresolved(cur)
  <1>1. req[r].pc = "reconcile"
    BY DEF Reconcile, Checkpoint, At
  <1>2. /\ cur \in Session /\ start \in Session /\ req[r].d = d /\ faults \in Nat
        /\ Live(session[d]) /\ Live(cur) /\ Live(start) /\ Recorded(d, cur)
        /\ cur.status = "APPROVED" /\ Acceptable(cur)
    BY <1>1, Knows DEF Place, Working, Returning, Judged, Owning
  <1>3. /\ new \in Session
        /\ new.status = "APPROVED" /\ new.history = cur.history /\ new.failed /\ Acceptable(new)
    BY <1>2, UnresolvedRecord
  <1>4. new \in Loose
    BY <1>3, Bounded
  <1> HIDE DEF new
  <1>5. Checked(r, new, "return", "return", cur)
    BY <1>4, CheckpointEffect, Zenon DEF Reconcile, Owning, Working, new
  <1>6. Recorded(d, new) /\ AtRest(new)
    BY <1>2, <1>3 DEF Recorded, AtRest
  <1>7. Place(r)'
    BY <1>2, <1>3, <1>5, <1>6, Placing DEF Checked, Working, Returning, Judged
  <1> QED BY <1>1, <1>2, <1>3, <1>4, <1>5, <1>6, <1>7, CheckedActs, Zenon
      DEF Working, Owning, Live, Terminal

\* The applied proposal is recorded.
LEMMA EditActs ==
  ASSUME SafeInv, NEW r \in Requests, Edit(r)
  PROVE  Acts(r)
  <1> DEFINE d == D(r)
             cur == req[r].cur
             start == req[r].start
             new == [With(cur, "EDITING") EXCEPT !.applied = TRUE]
  <1>1. req[r].pc = "editing"
    BY DEF Edit, Checkpoint, At
  <1>2. /\ cur \in Session /\ start \in Session /\ req[r].d = d /\ faults \in Nat
        /\ Live(session[d]) /\ Live(cur) /\ Live(start) /\ Recorded(d, cur)
        /\ cur.status = "APPROVED" /\ Acceptable(cur)
    BY <1>1, Knows DEF Place, Working, Returning, Judged, Owning
  <1>3. /\ new \in Session
        /\ new.status = "EDITING" /\ new.history = cur.history /\ new.failed = cur.failed
    BY <1>2, EditedRecord
  <1>4. new \in Loose
    BY <1>3, Bounded
  <1> HIDE DEF new
  <1>5. Checked(r, new, "verify", "reconcile", cur)
    BY <1>4, CheckpointEffect, Zenon DEF Edit, Owning, Working, new
  <1>6. Recorded(d, new) /\ AtRest(new) /\ Live(new)
    BY <1>2, <1>3 DEF Recorded, AtRest, Live, Terminal
  <1>7. Place(r)'
    BY <1>2, <1>3, <1>5, <1>6, Placing DEF Checked, Working, Returning, Judged
  <1> QED BY <1>1, <1>2, <1>3, <1>4, <1>5, <1>6, <1>7, CheckedActs, Zenon
      DEF Working, Owning, Live, Terminal

\* The verification begins ...
LEMMA RunActs ==
  ASSUME SafeInv, NEW r \in Requests, Run(r)
  PROVE  Acts(r)
  <1> DEFINE d == D(r)
             cur == req[r].cur
             start == req[r].start
             new == With(cur, "RUNNING")
  <1>1. req[r].pc = "running"
    BY DEF Run, VerificationCheckpoint, At
  <1>2. /\ cur \in Session /\ start \in Session /\ req[r].d = d /\ faults \in Nat
        /\ Live(session[d]) /\ Live(cur) /\ Live(start) /\ Recorded(d, cur)
        /\ LastDecision(cur) = "APPROVED" /\ cur.applied /\ ~cur.failed
        /\ HistoryValid(cur.history)
    BY <1>1, Knows DEF Place, Working, Returning, Judged, Owning
  <1>3. /\ new \in Session
        /\ new.status = "RUNNING" /\ new.history = cur.history /\ new.failed = cur.failed
        /\ new.applied = cur.applied
    BY <1>2, WithStatus DEF Statuses, Terminal, Verifying
  <1>4. new \in Loose
    BY <1>3, Bounded
  <1> HIDE DEF new
  <1>5. Checked(r, new, "run", "failed", new)
    BY <1>3, VerificationEffect DEF Run, Owning, Working, new
  <1>6. /\ Recorded(d, new) /\ LastDecision(new) = "APPROVED" /\ HistoryValid(new.history)
        /\ Live(new)
    BY <1>2, <1>3 DEF Recorded, Live, AtRest, Terminal, LastDecision, Last
  <1>7. Place(r)'
    BY <1>2, <1>3, <1>5, <1>6, Placing DEF Checked, Working, Returning, Judged
  <1> QED BY <1>1, <1>2, <1>3, <1>4, <1>5, <1>6, <1>7, CheckedActs, Zenon
      DEF Working, Owning, Live, Terminal

\* ... a render is about to be captured ...
LEMMA CapturingActs ==
  ASSUME SafeInv, NEW r \in Requests, Capturing(r)
  PROVE  Acts(r)
  <1> DEFINE d == D(r)
             cur == req[r].cur
             start == req[r].start
             new == With(cur, "CAPTURING")
  <1>1. req[r].pc = "capturing"
    BY DEF Capturing, VerificationCheckpoint, At
  <1>2. /\ cur \in Session /\ start \in Session /\ req[r].d = d /\ faults \in Nat
        /\ Live(session[d]) /\ Live(cur) /\ Live(start) /\ Recorded(d, cur)
        /\ LastDecision(cur) = "APPROVED" /\ cur.applied /\ ~cur.failed
        /\ HistoryValid(cur.history)
    BY <1>1, Knows DEF Place, Working, Returning, Judged, Owning
  <1>3. /\ new \in Session
        /\ new.status = "CAPTURING" /\ new.history = cur.history /\ new.failed = cur.failed
        /\ new.applied = cur.applied
    BY <1>2, WithStatus DEF Statuses, Terminal, Verifying
  <1>4. new \in Loose
    BY <1>3, Bounded
  <1> HIDE DEF new
  <1>5. Checked(r, new, "capture", "failed", new)
    BY <1>3, VerificationEffect DEF Capturing, Owning, Working, new
  <1>6. /\ Recorded(d, new) /\ LastDecision(new) = "APPROVED" /\ HistoryValid(new.history)
        /\ Live(new)
    BY <1>2, <1>3 DEF Recorded, Live, AtRest, Terminal, LastDecision, Last
  <1>7. Place(r)'
    BY <1>2, <1>3, <1>5, <1>6, Placing DEF Checked, Working, Returning, Judged
  <1> QED BY <1>1, <1>2, <1>3, <1>4, <1>5, <1>6, <1>7, CheckedActs, Zenon
      DEF Working, Owning, Live, Terminal

\* A passed verification completes the session.
LEMMA CompleteActs ==
  ASSUME SafeInv, NEW r \in Requests, Complete(r)
  PROVE  Acts(r)
  <1> DEFINE d == D(r)
             cur == req[r].cur
             start == req[r].start
             new == With(cur, "COMPLETE")
  <1>1. req[r].pc = "complete"
    BY DEF Complete, VerificationCheckpoint, At
  <1>2. /\ cur \in Session /\ start \in Session /\ req[r].d = d /\ faults \in Nat
        /\ Live(session[d]) /\ Live(cur) /\ Live(start) /\ Recorded(d, cur)
        /\ LastDecision(cur) = "APPROVED" /\ cur.applied /\ ~cur.failed
        /\ HistoryValid(cur.history)
    BY <1>1, Knows DEF Place, Working, Returning, Judged, Owning
  <1>3. /\ new \in Session
        /\ new.status = "COMPLETE" /\ new.history = cur.history /\ new.failed = cur.failed
        /\ new.applied = cur.applied
    BY <1>2, WithStatus DEF Statuses, Terminal, Verifying
  <1>4. new \in Loose
    BY <1>3, Bounded
  <1> HIDE DEF new
  <1>5. Checked(r, new, "return", "failed", new)
    BY <1>3, VerificationEffect DEF Complete, Owning, Working, new
  <1>6. /\ Recorded(d, new) /\ LastDecision(new) = "APPROVED" /\ HistoryValid(new.history)
        /\ AtRest(new)
    BY <1>2, <1>3 DEF Recorded, Live, AtRest, Terminal, LastDecision, Last
  <1>7. Place(r)'
    BY <1>2, <1>3, <1>5, <1>6, Placing DEF Checked, Working, Returning, Judged
  <1> QED BY <1>1, <1>2, <1>3, <1>4, <1>5, <1>6, <1>7, CheckedActs, Zenon
      DEF Working, Owning, Live, Terminal

\* The judgement is saved.
LEMMA AnalyzedActs ==
  ASSUME SafeInv, NEW r \in Requests, Analyzed(r)
  PROVE  Acts(r)
  <1> DEFINE d == D(r)
             cur == req[r].cur
             start == req[r].start
             new == cur
  <1>1. req[r].pc = "analyzed"
    BY DEF Analyzed, VerificationCheckpoint, At
  <1>2. /\ cur \in Session /\ start \in Session /\ req[r].d = d /\ faults \in Nat
        /\ Live(session[d]) /\ Live(cur) /\ Live(start) /\ Recorded(d, cur)
        /\ LastDecision(cur) = "APPROVED" /\ cur.applied /\ ~cur.failed
        /\ HistoryValid(cur.history)
    BY <1>1, Knows DEF Place, Working, Returning, Judged, Owning
  <1>3. /\ new \in Session
        /\ new = cur
    BY <1>2, Bounded
  <1>4. new \in Loose
    BY <1>3, Bounded
  <1> HIDE DEF new
  <1>5. Checked(r, new, IF cur.analysis = "pass" THEN "complete" ELSE "prove", "failed", new)
    BY <1>3, VerificationEffect DEF Analyzed, Owning, Working, new
  <1>6. /\ Recorded(d, new) /\ LastDecision(new) = "APPROVED" /\ HistoryValid(new.history)
        /\ Live(new)
    BY <1>2, <1>3
  <1>7. Place(r)'
    BY <1>2, <1>3, <1>5, <1>6, Placing DEF Checked, Working, Returning, Judged
  <1> QED BY <1>1, <1>2, <1>3, <1>4, <1>5, <1>6, <1>7, CheckedActs, Zenon
      DEF Working, Owning, Live, Terminal

\* A failed verification is entered at its proposal ...
LEMMA ProveActs ==
  ASSUME SafeInv, NEW r \in Requests, Prove(r)
  PROVE  Acts(r)
  <1> DEFINE d == D(r)
             cur == req[r].cur
             start == req[r].start
             new == [cur EXCEPT !.history[Len(cur.history)].proof = TRUE]
  <1>1. req[r].pc = "prove"
    BY DEF Prove, VerificationCheckpoint, At
  <1>2. /\ cur \in Session /\ start \in Session /\ req[r].d = d /\ faults \in Nat
        /\ Live(session[d]) /\ Live(cur) /\ Live(start) /\ Recorded(d, cur)
        /\ LastDecision(cur) = "APPROVED" /\ cur.applied /\ ~cur.failed
        /\ HistoryValid(cur.history)
    BY <1>1, Knows DEF Place, Working, Returning, Judged, Owning
  <1>3. /\ new \in Session
        /\ new.status = cur.status /\ new.failed = cur.failed /\ new.applied = cur.applied
        /\ Len(new.history) = Len(cur.history) /\ LastDecision(new) = "APPROVED" /\ Proven(new)
        /\ \A i \in 1..Len(cur.history) : new.history[i].decision = cur.history[i].decision
        /\ HistoryValid(new.history)
    BY <1>2, ProvenRecord DEF LastDecision
  <1>4. new \in Loose
    BY <1>3, Bounded
  <1> HIDE DEF new
  <1>5. Checked(r, new, "again", "failed", new)
    BY <1>3, VerificationEffect, Zenon DEF Prove, Owning, Working, new
  <1>6. /\ Recorded(d, new) /\ Live(new) /\ new.applied /\ ~new.failed
        /\ LastDecision(new) = "APPROVED" /\ Proven(new) /\ HistoryValid(new.history)
    BY <1>2, <1>3, Bounded, Histories, SafeAssumption DEF Recorded, Live
  <1>7. Place(r)'
    BY <1>2, <1>5, <1>6, Placing DEF Checked, Working, Returning, Judged
  <1> QED BY <1>1, <1>2, <1>3, <1>4, <1>5, <1>6, <1>7, CheckedActs, Zenon
      DEF Working, Owning, Live, Terminal

\* ... and another proposal is due.
LEMMA AgainActs ==
  ASSUME SafeInv, NEW r \in Requests, Again(r)
  PROVE  Acts(r)
  <1> DEFINE d == D(r)
             cur == req[r].cur
             start == req[r].start
             new == With(cur, "PROPOSING")
  <1>1. req[r].pc = "again"
    BY DEF Again, Checkpoint, At
  <1>2. /\ cur \in Session /\ start \in Session /\ req[r].d = d /\ faults \in Nat
        /\ Live(session[d]) /\ Live(cur) /\ Live(start) /\ Recorded(d, cur)
        /\ LastDecision(cur) = "APPROVED" /\ cur.applied /\ ~cur.failed /\ HistoryValid(cur.history)
        /\ Proven(cur)
    BY <1>1, Knows DEF Place, Working, Returning, Judged, Owning
  <1>3. /\ new \in Session
        /\ new.status = "PROPOSING" /\ new.history = cur.history /\ new.failed = cur.failed
    BY <1>2, WithStatus DEF Statuses
  <1>4. new \in Loose
    BY <1>3, Bounded
  <1> HIDE DEF new
  <1>5. Checked(r, new, "return", "failed", cur)
    BY <1>4, CheckpointEffect, Zenon DEF Again, Owning, Working, new
  <1>6. Recorded(d, new) /\ AtRest(new)
    BY <1>2, <1>3 DEF Recorded, AtRest, Proven, Last
  <1>7. Place(r)'
    BY <1>2, <1>3, <1>5, <1>6, Placing DEF Checked, Working, Returning, Judged
  <1> QED BY <1>1, <1>2, <1>3, <1>4, <1>5, <1>6, <1>7, CheckedActs, Zenon
      DEF Working, Owning, Live, Terminal

\* A verification that cannot be made fails the session.
LEMMA FailActs ==
  ASSUME SafeInv, NEW r \in Requests, Fail(r)
  PROVE  Acts(r)
  <1> DEFINE d == D(r)
             cur == req[r].cur
             start == req[r].start
             new == With(cur, "FAILED")
  <1>1. req[r].pc = "failed"
    BY DEF Fail, Checkpoint, At
  <1>2. /\ cur \in Session /\ start \in Session /\ req[r].d = d /\ faults \in Nat
        /\ Recorded(d, cur)
        /\ LastDecision(cur) = "APPROVED" /\ cur.applied /\ ~cur.failed
        /\ HistoryValid(cur.history)
    BY <1>1, Knows DEF Place, Working, Returning, Judged, Owning
  <1>3. /\ new \in Session
        /\ new.status = "FAILED" /\ new.history = cur.history /\ new.failed = cur.failed
        /\ new.applied = cur.applied
    BY <1>2, WithStatus DEF Statuses, Terminal
  <1>4. new \in Loose
    BY <1>3, Bounded
  <1> HIDE DEF new
  <1>5. Checked(r, new, "return", "return", cur)
    BY <1>4, CheckpointEffect, Zenon DEF Fail, Owning, Working, new
  <1>6. Recorded(d, new) /\ AtRest(new) /\ Acceptable(new) /\ new.status \in Terminal
    BY <1>2, <1>3 DEF Recorded, AtRest, Acceptable, Terminal, Verifying, LastDecision, Last
  <1>7. Place(r)'
    BY <1>2, <1>3, <1>5, <1>6, Placing DEF Checked, Working, Returning, Judged
  <1> QED BY <1>1, <1>2, <1>3, <1>4, <1>5, <1>6, <1>7, CheckedActs, Zenon
      DEF Working, Owning, Live, Terminal

\* The approval is entered at the undecided proposal.
LEMMA ApproveActs ==
  ASSUME SafeInv, NEW r \in Requests, Approve(r)
  PROVE  Acts(r)
  <1> DEFINE d == D(r)
             cur == req[r].cur
             start == req[r].start
             new == DecidedBy(With(cur, "APPROVED"), "APPROVED")
  <1>1. req[r].pc = "approved"
    BY DEF Approve, Checkpoint, At
  <1>2. /\ cur \in Session /\ start \in Session /\ req[r].d = d /\ faults \in Nat
        /\ Live(session[d]) /\ Live(cur) /\ Live(start) /\ Recorded(d, cur)
        /\ session[d] = start /\ cur = start /\ LastDecision(cur) = "none" /\ AtRest(start)
        /\ Recorded(d, start) /\ Acceptable(start)
    BY <1>1, Knows DEF Place, Working, Returning, Judged, Owning
  <1>3. /\ new \in Session
        /\ new.status = "APPROVED" /\ new.failed = cur.failed
        /\ Len(new.history) = Len(cur.history)
        /\ LastDecision(new) = "APPROVED" /\ cur.history[Len(cur.history)].decision = "none"
        /\ \A i \in 1..Len(cur.history) : i # Len(cur.history) => new.history[i] = cur.history[i]
    BY <1>2, Decidable DEF Decisions, Statuses
  <1>4. new \in Loose
    BY <1>3, Bounded
  <1> HIDE DEF new
  <1>5. Checked(r, new, "execute", "return", cur)
    BY <1>4, CheckpointEffect, Zenon DEF Approve, Owning, Working, new
  <1>6. Recorded(d, new) /\ Live(new)
    BY <1>2, <1>3, LastMutable DEF Live, Terminal
  <1>7. Place(r)'
    BY <1>2, <1>3, <1>5, <1>6, Placing DEF Checked, Working, Returning, Judged
  <1> QED BY <1>1, <1>2, <1>3, <1>4, <1>5, <1>6, <1>7, CheckedActs, Zenon
      DEF Working, Owning, Live, Terminal

\* A revision or rejection is entered at the undecided proposal.
LEMMA DecideActs ==
  ASSUME SafeInv, NEW r \in Requests, Decide(r)
  PROVE  Acts(r)
  <1> DEFINE d == D(r)
             cur == req[r].cur
             start == req[r].start
             new == DecidedBy(With(cur, IF req[r].decision = "REJECTED" THEN "REJECTED" ELSE "REVISING"), req[r].decision)
  <1>1. req[r].pc = "decided"
    BY DEF Decide, Checkpoint, At
  <1>given. req[r].decision \in Decisions
    BY <1>1, DecisionGiven DEF Owning, Working
  <1>2. /\ cur \in Session /\ start \in Session /\ req[r].d = d /\ faults \in Nat
        /\ Live(session[d]) /\ Live(cur) /\ Live(start) /\ Recorded(d, cur)
        /\ session[d] = start /\ cur = start /\ LastDecision(cur) = "none" /\ AtRest(start)
    BY <1>1, Knows DEF Place, Working, Returning, Judged, Owning
  <1>3. /\ new \in Session
        /\ new.status \in {"REJECTED", "REVISING"} /\ Len(new.history) = Len(cur.history)
        /\ cur.history[Len(cur.history)].decision = "none"
        /\ \A i \in 1..Len(cur.history) : i # Len(cur.history) => new.history[i] = cur.history[i]
    BY <1>2, <1>given, Decidable DEF Statuses, Terminal
  <1>4. new \in Loose
    BY <1>3, Bounded
  <1> HIDE DEF new
  <1>5. Checked(r, new, "return", "return", cur)
    BY <1>4, CheckpointEffect, Zenon DEF Decide, Owning, Working, new
  <1>6. Recorded(d, new) /\ AtRest(new)
    BY <1>2, <1>3, LastMutable DEF AtRest, Terminal
  <1>7. Place(r)'
    BY <1>2, <1>3, <1>5, <1>6, Placing DEF Checked, Working, Returning, Judged
  <1> QED BY <1>1, <1>2, <1>3, <1>4, <1>5, <1>6, <1>7, CheckedActs, Zenon
      DEF Working, Owning, Live, Terminal

-----------------------------------------------------------------------------
(* The steps between checkpoints.                                            *)

\* A step that saves and mutates nothing.
LEMMA LocalActs ==
  ASSUME SafeInv, NEW r \in Requests, req[r].pc \in Owning,
         NEW a \in Asked, a.pc \in Owning,
         a.d = req[r].d, a.op = req[r].op, a.decision = req[r].decision,
         a.pc \in Working => req[r].pc \in Working,
         req' = [req EXCEPT ![r] = a], UNCHANGED <<session, claim, mutated, faults>>,
         exec' \in Executing, exec' = exec \/ exec.by \in {r, Free, Dead},
         exec'.by \in Requests \ {r} => exec' = exec,
         exec'.by = r => a.pc \in {"mirror", "apply"},
         Place(r)'
  PROVE  Acts(r)
  <1>1. D(r) \in Directions /\ faults \in Nat /\ Recorded(D(r), session[D(r)])
    BY Knows
  <1>2. /\ req \in [Requests -> Asked] /\ mutated \in [Proposals -> Nat]
        /\ session \in [Directions -> Session]
    BY DEF SafeInv, Typed, TypeOK
  <1>3. req' \in [Requests -> Asked] /\ req'[r] = a /\ \A q \in Requests \ {r} : req'[q] = req[q]
    BY <1>2
  <1>4. \A i \in 1..MaxHistory : mutated'[<<D(r), i>>] <= 1
    BY <1>1, ProposalPairs DEF SafeInv, AppliedOnce, MutatedOnce
  <1>5. Recorded(D(r), session[D(r)])'
    <2>1. D(r)' = D(r)
        BY <1>3 DEF D
    <2> QED BY <1>1, <2>1 DEF Recorded
  <1> QED BY <1>1, <1>2, <1>3, <1>4, <1>5 DEF Acts, Same

\* One field of what a request knows is changed.
LEMMA Stepped ==
  ASSUME NEW x \in Asked, NEW pc \in Owning, NEW c \in Session, NEW b \in BOOLEAN
  PROVE  /\ [x EXCEPT !.pc = pc, !.cur = c, !.stale = b] \in Asked
         /\ [x EXCEPT !.pc = pc, !.cur = c, !.stale = b].pc = pc
         /\ [x EXCEPT !.pc = pc, !.cur = c, !.stale = b].cur = c
         /\ [x EXCEPT !.pc = pc, !.cur = c, !.stale = b].start = x.start
         /\ [x EXCEPT !.pc = pc, !.cur = c, !.stale = b].d = x.d
         /\ [x EXCEPT !.pc = pc, !.cur = c, !.stale = b].op = x.op
         /\ [x EXCEPT !.pc = pc, !.cur = c, !.stale = b].decision = x.decision
         /\ [x EXCEPT !.pc = pc] = [x EXCEPT !.pc = pc, !.cur = x.cur, !.stale = x.stale]
         /\ [x EXCEPT !.pc = pc, !.cur = c] = [x EXCEPT !.pc = pc, !.cur = c, !.stale = x.stale]
         /\ x.stale \in BOOLEAN
  BY DEF Asked

\* A turn of the agent changes no record.
LEMMA RunProposalActs ==
  ASSUME SafeInv, NEW r \in Requests, RunProposal(r)
  PROVE  Acts(r)
  <1> DEFINE d == D(r)
             cur == req[r].cur
             start == req[r].start
  <1>1. req[r].pc = "agent" /\ UNCHANGED <<session, claim, exec, mutated, faults>>
    BY DEF RunProposal, At
  <1>2. /\ cur \in Session /\ start \in Session /\ req[r].d = d /\ faults \in Nat
        /\ Live(session[d]) /\ Live(cur) /\ Live(start) /\ Recorded(d, cur)
        /\ Recorded(d, start) /\ Acceptable(start) /\ AtRest(start)
    BY <1>1, Knows DEF Place, Working, Returning, Judged, Owning
  <1>3. req[r] \in Asked /\ req[r].stale \in BOOLEAN /\ req \in [Requests -> Asked]
    BY <1>1, Knows, Stepped, Zenon DEF Owning, Working, SafeInv, Typed
  <1>4. exec \in Executing /\ exec.by # r
    BY <1>1 DEF SafeInv, Typed, ExecOwner, Executing
  <1>5. ASSUME NEW pc \in {"waiting", "rollback"}, NEW c \in Session, NEW b \in BOOLEAN,
               req' = [req EXCEPT ![r] = [req[r] EXCEPT !.pc = pc, !.cur = c, !.stale = b]],
               c = cur
        PROVE  Acts(r)
    <2> DEFINE a == [req[r] EXCEPT !.pc = pc, !.cur = c, !.stale = b]
    <2>1. /\ a \in Asked /\ a.pc = pc /\ a.cur = c /\ a.start = start /\ a.d = req[r].d
          /\ a.op = req[r].op /\ a.decision = req[r].decision
        <3>1. pc \in Owning \cup {"idle", "claim"}
            BY <1>5 DEF Owning, Working
        <3> QED BY <1>2, <1>3, <1>5, <3>1 DEF Asked
    <2> HIDE DEF a
    <2>2. req' = [req EXCEPT ![r] = a] /\ req'[r] = a
        BY <1>3, <1>5 DEF a
    <2>3. Place(r)'
        BY <1>1, <1>2, <1>5, <2>1, <2>2, Placing DEF Working, Returning, Judged
    <2> QED BY <1>1, <1>4, <1>5, <2>1, <2>2, <2>3, LocalActs DEF Working, Owning
  <1>6. PICK pc \in {"waiting", "rollback"} : req' = [req EXCEPT ![r].pc = pc]
    BY DEF RunProposal
  <1>7. req' = [req EXCEPT ![r] = [req[r] EXCEPT !.pc = pc, !.cur = cur, !.stale = req[r].stale]]
    BY <1>3, <1>6, Stepped, Zenon DEF Owning, Working
  <1> QED BY <1>2, <1>3, <1>5, <1>7

\* Nor does the development server.
LEMMA StartServerActs ==
  ASSUME SafeInv, NEW r \in Requests, StartServer(r)
  PROVE  Acts(r)
  <1> DEFINE d == D(r)
             cur == req[r].cur
             start == req[r].start
  <1>1. req[r].pc = "run" /\ UNCHANGED <<session, claim, exec, mutated, faults>>
    BY DEF StartServer, At
  <1>2. /\ cur \in Session /\ start \in Session /\ req[r].d = d /\ faults \in Nat
        /\ Live(session[d]) /\ Live(cur) /\ Live(start) /\ Recorded(d, cur)
        /\ LastDecision(cur) = "APPROVED" /\ cur.applied /\ ~cur.failed
        /\ HistoryValid(cur.history)
    BY <1>1, Knows DEF Place, Working, Returning, Judged, Owning
  <1>3. req[r] \in Asked /\ req[r].stale \in BOOLEAN /\ req \in [Requests -> Asked]
    BY <1>1, Knows, Stepped, Zenon DEF Owning, Working, SafeInv, Typed
  <1>4. exec \in Executing /\ exec.by # r
    BY <1>1 DEF SafeInv, Typed, ExecOwner, Executing
  <1>5. ASSUME NEW pc \in {"capturing", "failed"}, NEW c \in Session, NEW b \in BOOLEAN,
               req' = [req EXCEPT ![r] = [req[r] EXCEPT !.pc = pc, !.cur = c, !.stale = b]],
               c = cur
        PROVE  Acts(r)
    <2> DEFINE a == [req[r] EXCEPT !.pc = pc, !.cur = c, !.stale = b]
    <2>1. /\ a \in Asked /\ a.pc = pc /\ a.cur = c /\ a.start = start /\ a.d = req[r].d
          /\ a.op = req[r].op /\ a.decision = req[r].decision
        <3>1. pc \in Owning \cup {"idle", "claim"}
            BY <1>5 DEF Owning, Working
        <3> QED BY <1>2, <1>3, <1>5, <3>1 DEF Asked
    <2> HIDE DEF a
    <2>2. req' = [req EXCEPT ![r] = a] /\ req'[r] = a
        BY <1>3, <1>5 DEF a
    <2>3. Place(r)'
        BY <1>1, <1>2, <1>5, <2>1, <2>2, Placing DEF Working, Returning, Judged
    <2> QED BY <1>1, <1>4, <1>5, <2>1, <2>2, <2>3, LocalActs DEF Working, Owning
  <1>6. PICK pc \in {"capturing", "failed"} : req' = [req EXCEPT ![r].pc = pc]
    BY DEF StartServer
  <1>7. req' = [req EXCEPT ![r] = [req[r] EXCEPT !.pc = pc, !.cur = cur, !.stale = req[r].stale]]
    BY <1>3, <1>6, Stepped, Zenon DEF Owning, Working
  <1> QED BY <1>2, <1>3, <1>5, <1>7

\* The render is noted in memory.
LEMMA CaptureActs ==
  ASSUME SafeInv, NEW r \in Requests, Capture(r)
  PROVE  Acts(r)
  <1> DEFINE d == D(r)
             cur == req[r].cur
             start == req[r].start
  <1>1. req[r].pc = "capture" /\ UNCHANGED <<session, claim, exec, mutated, faults>>
    BY DEF Capture, At
  <1>2. /\ cur \in Session /\ start \in Session /\ req[r].d = d /\ faults \in Nat
        /\ Live(session[d]) /\ Live(cur) /\ Live(start) /\ Recorded(d, cur)
        /\ LastDecision(cur) = "APPROVED" /\ cur.applied /\ ~cur.failed
        /\ HistoryValid(cur.history)
    BY <1>1, Knows DEF Place, Working, Returning, Judged, Owning
  <1>3. req[r] \in Asked /\ req[r].stale \in BOOLEAN /\ req \in [Requests -> Asked]
    BY <1>1, Knows, Stepped, Zenon DEF Owning, Working, SafeInv, Typed
  <1>4. exec \in Executing /\ exec.by # r
    BY <1>1 DEF SafeInv, Typed, ExecOwner, Executing
  <1>5. ASSUME NEW pc \in {"verifying", "failed"}, NEW c \in Session, NEW b \in BOOLEAN,
               req' = [req EXCEPT ![r] = [req[r] EXCEPT !.pc = pc, !.cur = c, !.stale = b]],
               c.history = cur.history, c.applied, ~c.failed, c.status = cur.status
        PROVE  Acts(r)
    <2>0. Live(c) /\ Recorded(d, c) /\ LastDecision(c) = "APPROVED" /\ HistoryValid(c.history)
        BY <1>2, <1>5 DEF Live, Recorded, LastDecision, Last
    <2> DEFINE a == [req[r] EXCEPT !.pc = pc, !.cur = c, !.stale = b]
    <2>1. /\ a \in Asked /\ a.pc = pc /\ a.cur = c /\ a.start = start /\ a.d = req[r].d
          /\ a.op = req[r].op /\ a.decision = req[r].decision
        <3>1. pc \in Owning \cup {"idle", "claim"}
            BY <1>5 DEF Owning, Working
        <3> QED BY <1>2, <1>3, <1>5, <3>1 DEF Asked
    <2> HIDE DEF a
    <2>2. req' = [req EXCEPT ![r] = a] /\ req'[r] = a
        BY <1>3, <1>5 DEF a
    <2>3. Place(r)'
        BY <1>1, <1>2, <1>5, <2>0, <2>1, <2>2, Placing DEF Working, Returning, Judged
    <2> QED BY <1>1, <1>4, <1>5, <2>1, <2>2, <2>3, LocalActs DEF Working, Owning
  <1>6. CASE req' = [req EXCEPT ![r].pc = "verifying", ![r].cur = Rendered(@), ![r].stale = FALSE]
    <2>1. req' = [req EXCEPT ![r] = [req[r] EXCEPT !.pc = "verifying", !.cur = Rendered(cur), !.stale = FALSE]]
        BY <1>3, <1>6
    <2>2. /\ Rendered(cur) \in Session /\ Rendered(cur).history = cur.history
          /\ Rendered(cur).applied /\ ~Rendered(cur).failed /\ Rendered(cur).status = cur.status
        BY <1>2, JudgedRecords
    <2> QED BY <1>5, <2>1, <2>2
  <1>7. CASE req' = [req EXCEPT ![r].pc = "failed"]
    <2>1. req' = [req EXCEPT ![r] = [req[r] EXCEPT !.pc = "failed", !.cur = cur, !.stale = req[r].stale]]
        BY <1>3, <1>7, Stepped, Zenon DEF Owning, Working
    <2> QED BY <1>2, <1>3, <1>5, <2>1
  <1> QED BY <1>6, <1>7 DEF Capture

\* So is its judgement.
LEMMA AnalyzeActs ==
  ASSUME SafeInv, NEW r \in Requests, Analyze(r)
  PROVE  Acts(r)
  <1> DEFINE d == D(r)
             cur == req[r].cur
             start == req[r].start
  <1>1. req[r].pc = "analyze" /\ UNCHANGED <<session, claim, exec, mutated, faults>>
    BY DEF Analyze, At
  <1>2. /\ cur \in Session /\ start \in Session /\ req[r].d = d /\ faults \in Nat
        /\ Live(session[d]) /\ Live(cur) /\ Live(start) /\ Recorded(d, cur)
        /\ LastDecision(cur) = "APPROVED" /\ cur.applied /\ ~cur.failed
        /\ HistoryValid(cur.history)
    BY <1>1, Knows DEF Place, Working, Returning, Judged, Owning
  <1>3. req[r] \in Asked /\ req[r].stale \in BOOLEAN /\ req \in [Requests -> Asked]
    BY <1>1, Knows, Stepped, Zenon DEF Owning, Working, SafeInv, Typed
  <1>4. exec \in Executing /\ exec.by # r
    BY <1>1 DEF SafeInv, Typed, ExecOwner, Executing
  <1>5. ASSUME NEW pc \in {"analyzed", "failed"}, NEW c \in Session, NEW b \in BOOLEAN,
               req' = [req EXCEPT ![r] = [req[r] EXCEPT !.pc = pc, !.cur = c, !.stale = b]],
               c.history = cur.history, c.applied, ~c.failed, c.status = cur.status
        PROVE  Acts(r)
    <2>0. Live(c) /\ Recorded(d, c) /\ LastDecision(c) = "APPROVED" /\ HistoryValid(c.history)
        BY <1>2, <1>5 DEF Live, Recorded, LastDecision, Last
    <2> DEFINE a == [req[r] EXCEPT !.pc = pc, !.cur = c, !.stale = b]
    <2>1. /\ a \in Asked /\ a.pc = pc /\ a.cur = c /\ a.start = start /\ a.d = req[r].d
          /\ a.op = req[r].op /\ a.decision = req[r].decision
        <3>1. pc \in Owning \cup {"idle", "claim"}
            BY <1>5 DEF Owning, Working
        <3> QED BY <1>2, <1>3, <1>5, <3>1 DEF Asked
    <2> HIDE DEF a
    <2>2. req' = [req EXCEPT ![r] = a] /\ req'[r] = a
        BY <1>3, <1>5 DEF a
    <2>3. Place(r)'
        BY <1>1, <1>2, <1>5, <2>0, <2>1, <2>2, Placing DEF Working, Returning, Judged
    <2> QED BY <1>1, <1>4, <1>5, <2>1, <2>2, <2>3, LocalActs DEF Working, Owning
  <1>6. ASSUME NEW x \in {"pass", "fail"}, req' = [req EXCEPT ![r].pc = "analyzed", ![r].cur.analysis = x]
        PROVE  Acts(r)
    <2> DEFINE c == [cur EXCEPT !.analysis = x]
    <2>1. /\ c \in Session /\ c.history = cur.history
          /\ c.applied /\ ~c.failed /\ c.status = cur.status
        BY <1>2, <1>6 DEF Session
    <2> HIDE DEF c
    <2>2. req' = [req EXCEPT ![r] = [req[r] EXCEPT !.pc = "analyzed", !.cur = c]]
        BY <1>3, <1>6 DEF c
    <2>3. req' = [req EXCEPT ![r] = [req[r] EXCEPT !.pc = "analyzed", !.cur = c, !.stale = req[r].stale]]
        BY <1>3, <2>1, <2>2, Stepped, Zenon DEF Owning, Working
    <2> QED BY <1>3, <1>5, <2>1, <2>3
  <1>7. CASE req' = [req EXCEPT ![r].pc = "failed"]
    <2>1. req' = [req EXCEPT ![r] = [req[r] EXCEPT !.pc = "failed", !.cur = cur, !.stale = req[r].stale]]
        BY <1>3, <1>7, Stepped DEF Owning, Working
    <2> QED BY <1>2, <1>3, <1>5, <2>1
  <1> QED BY <1>6, <1>7 DEF Analyze

\* A render of an edited worktree is not judged.
LEMMA StaleRenderActs ==
  ASSUME SafeInv, NEW r \in Requests, VerifyRender(r), ~Unchanged(r)
  PROVE  Acts(r)
  <1> DEFINE d == D(r)
             cur == req[r].cur
             start == req[r].start
  <1>1. req[r].pc = "verifying" /\ UNCHANGED <<session, claim, exec, mutated, faults>>
    BY DEF VerifyRender, At
  <1>2. /\ cur \in Session /\ start \in Session /\ req[r].d = d /\ faults \in Nat
        /\ Live(session[d]) /\ Live(cur) /\ Live(start) /\ Recorded(d, cur)
        /\ LastDecision(cur) = "APPROVED" /\ cur.applied /\ ~cur.failed
        /\ HistoryValid(cur.history)
    BY <1>1, Knows DEF Place, Working, Returning, Judged, Owning
  <1>3. req[r] \in Asked /\ req[r].stale \in BOOLEAN /\ req \in [Requests -> Asked]
    BY <1>1, Knows, Stepped, Zenon DEF Owning, Working, SafeInv, Typed
  <1>4. exec \in Executing /\ exec.by # r
    BY <1>1 DEF SafeInv, Typed, ExecOwner, Executing
  <1>5. ASSUME NEW pc \in {"failed"}, NEW c \in Session, NEW b \in BOOLEAN,
               req' = [req EXCEPT ![r] = [req[r] EXCEPT !.pc = pc, !.cur = c, !.stale = b]],
               c.history = cur.history, c.applied, ~c.failed, c.status = cur.status
        PROVE  Acts(r)
    <2>0. Live(c) /\ Recorded(d, c) /\ LastDecision(c) = "APPROVED" /\ HistoryValid(c.history)
        BY <1>2, <1>5 DEF Live, Recorded, LastDecision, Last
    <2> DEFINE a == [req[r] EXCEPT !.pc = pc, !.cur = c, !.stale = b]
    <2>1. /\ a \in Asked /\ a.pc = pc /\ a.cur = c /\ a.start = start /\ a.d = req[r].d
          /\ a.op = req[r].op /\ a.decision = req[r].decision
        <3>1. pc \in Owning \cup {"idle", "claim"}
            BY <1>5 DEF Owning, Working
        <3> QED BY <1>2, <1>3, <1>5, <3>1 DEF Asked
    <2> HIDE DEF a
    <2>2. req' = [req EXCEPT ![r] = a] /\ req'[r] = a
        BY <1>3, <1>5 DEF a
    <2>3. Place(r)'
        BY <1>1, <1>2, <1>5, <2>0, <2>1, <2>2, Placing DEF Working, Returning, Judged
    <2> QED BY <1>1, <1>4, <1>5, <2>1, <2>2, <2>3, LocalActs DEF Working, Owning
  <1> DEFINE c == [cur EXCEPT !.render = FALSE]
  <1>6. /\ c \in Session /\ c.history = cur.history
        /\ c.applied /\ ~c.failed /\ c.status = cur.status
    BY <1>2, JudgedRecords
  <1> HIDE DEF c
  <1>7. req' = [req EXCEPT ![r] = [req[r] EXCEPT !.pc = "failed", !.cur = c]]
    <2>1. req' = [req EXCEPT ![r].pc = "failed", ![r].cur.render = FALSE]
        BY DEF VerifyRender
    <2>2. [req[r] EXCEPT !.pc = "failed"].cur = cur
        BY <1>3 DEF Asked
    <2> QED BY <1>3, <2>1, <2>2 DEF c
  <1>8. req' = [req EXCEPT ![r] = [req[r] EXCEPT !.pc = "failed", !.cur = c, !.stale = req[r].stale]]
    BY <1>3, <1>6, <1>7, Stepped, Zenon DEF Owning, Working
  <1> QED BY <1>3, <1>5, <1>6, <1>8

\* One of the current worktree is.
LEMMA FreshRenderActs ==
  ASSUME SafeInv, NEW r \in Requests, VerifyRender(r), Unchanged(r)
  PROVE  Acts(r)
  <1> DEFINE d == D(r)
             cur == req[r].cur
             start == req[r].start
             new == With(cur, "VERIFYING")
  <1>1. req[r].pc = "verifying"
    BY DEF VerifyRender, VerificationCheckpoint, At
  <1>2. /\ cur \in Session /\ start \in Session /\ req[r].d = d /\ faults \in Nat
        /\ Live(session[d]) /\ Live(cur) /\ Live(start) /\ Recorded(d, cur)
        /\ LastDecision(cur) = "APPROVED" /\ cur.applied /\ ~cur.failed
        /\ HistoryValid(cur.history)
    BY <1>1, Knows DEF Place, Working, Returning, Judged, Owning
  <1>3. /\ new \in Session
        /\ new.status = "VERIFYING" /\ new.history = cur.history /\ new.failed = cur.failed
        /\ new.applied = cur.applied
    BY <1>2, WithStatus DEF Statuses, Terminal, Verifying
  <1>4. new \in Loose
    BY <1>3, Bounded
  <1> HIDE DEF new
  <1>5. Checked(r, new, "analyze", "failed", new)
    BY <1>3, VerificationEffect DEF VerifyRender, Owning, Working, new
  <1>6. /\ Recorded(d, new) /\ LastDecision(new) = "APPROVED" /\ HistoryValid(new.history)
        /\ Live(new)
    BY <1>2, <1>3 DEF Recorded, Live, AtRest, Terminal, LastDecision, Last
  <1>7. Place(r)'
    BY <1>2, <1>3, <1>5, <1>6, Placing DEF Checked, Working, Returning, Judged
  <1> QED BY <1>1, <1>2, <1>3, <1>4, <1>5, <1>6, <1>7, CheckedActs, Zenon
      DEF Working, Owning, Live, Terminal

\* The executor's claim is taken by a request at its session.
LEMMA ExecuteActs ==
  ASSUME SafeInv, NEW r \in Requests, Execute(r)
  PROVE  Acts(r)
  <1> DEFINE d == D(r)
             cur == req[r].cur
             start == req[r].start
             p == Proposal(d, cur)
  <1>1. req[r].pc = "execute" /\ UNCHANGED <<session, claim, mutated, faults>>
    BY DEF Execute, At
  <1>2. /\ cur \in Session /\ start \in Session /\ req[r].d = d /\ faults \in Nat
        /\ Live(session[d]) /\ Live(cur) /\ Live(start) /\ Recorded(d, cur)
        /\ Recorded(d, start) /\ Acceptable(start) /\ AtRest(start)
        /\ session[d] = cur /\ LastDecision(cur) = "APPROVED" /\ LastDecision(start) = "none"
        /\ Len(start.history) = Len(cur.history) /\ cur.status = "APPROVED" /\ Acceptable(cur)
    BY <1>1, Knows DEF Place, Working, Returning, Owning
  <1>3. req[r] \in Asked /\ req[r].stale \in BOOLEAN /\ req \in [Requests -> Asked]
    BY <1>1, Knows, Stepped, Zenon DEF Owning, Working, SafeInv, Typed
  <1>4. exec \in Executing /\ exec.by # r
    BY <1>1 DEF SafeInv, Typed, ExecOwner, Executing
  <1>5. p \in Proposals
    <2>1. /\ cur.history # <<>>
          /\ cur \in Loose
          /\ Len(cur.history) <= MaxHistory
          /\ d \in Directions
        BY <1>1, <1>2, Bounded, Knows DEF LastDecision, Owning, Working
    <2>2. Len(cur.history) \in Nat \ {0}
        BY <2>1, Histories
    <2>3. Len(cur.history) \in 1..MaxHistory
        BY <2>1, <2>2, SafeAssumption
    <2> QED BY <2>1, <2>3 DEF Proposal, Proposals
  <1>6. ASSUME NEW pc \in {"mirror", "rollback"}, req' = [req EXCEPT ![r].pc = pc],
               \/ pc = "mirror" /\ exec.by \in {Free, Dead}
                  /\ exec' = [by |-> r, proposal |-> p, phase |-> "PREPARING"]
               \/ pc = "rollback" /\ exec' = exec
        PROVE  Acts(r)
    <2> DEFINE a == [req[r] EXCEPT !.pc = pc]
    <2>1. /\ a \in Asked /\ a.pc = pc /\ a.cur = cur /\ a.start = start /\ a.d = req[r].d
          /\ a.op = req[r].op /\ a.decision = req[r].decision
        <3>1. pc \in Owning \cup {"idle", "claim"}
            BY <1>6 DEF Owning, Working
        <3> QED BY <1>2, <1>3, <1>6, <3>1 DEF Asked
    <2> HIDE DEF a
    <2>2. req' = [req EXCEPT ![r] = a] /\ req'[r] = a
        BY <1>3, <1>6 DEF a
    <2>3. /\ exec' \in Executing /\ (exec' = exec \/ exec.by \in {r, Free, Dead})
          /\ (exec'.by \in Requests \ {r} => exec' = exec)
          /\ (exec'.by = r => pc \in {"mirror", "apply"})
        BY <1>4, <1>5, <1>6 DEF Executing
    <2>4. pc \in {"mirror", "apply"} => exec'.by = r /\ exec'.proposal = p
        BY <1>6
    <2> HIDE DEF p
    <2>5. Place(r)'
        BY <1>1, <1>2, <1>6, <2>1, <2>2, <2>4, Placing DEF Working, Returning, Judged, p
    <2> QED BY <1>1, <1>6, <2>1, <2>2, <2>3, <2>5, LocalActs DEF Working, Owning
  <1> QED BY <1>6 DEF Execute

\* The mutation turn in the mirror ends, or the mutation begins.
LEMMA MirrorActs ==
  ASSUME SafeInv, NEW r \in Requests, Mirror(r)
  PROVE  Acts(r)
  <1> DEFINE d == D(r)
             cur == req[r].cur
             start == req[r].start
  <1>1. req[r].pc = "mirror" /\ UNCHANGED <<session, claim, mutated, faults>>
    BY DEF Mirror, At
  <1>2. /\ cur \in Session /\ start \in Session /\ req[r].d = d /\ faults \in Nat
        /\ Live(session[d]) /\ Live(cur) /\ Live(start) /\ Recorded(d, cur)
        /\ Recorded(d, start) /\ Acceptable(start) /\ AtRest(start)
        /\ session[d] = cur /\ LastDecision(cur) = "APPROVED" /\ LastDecision(start) = "none"
        /\ Len(start.history) = Len(cur.history) /\ cur.status = "APPROVED" /\ Acceptable(cur)
        /\ exec.by = r /\ exec.proposal = Proposal(d, cur)
    BY <1>1, Knows DEF Place, Working, Returning, Owning
  <1>3. req[r] \in Asked /\ req[r].stale \in BOOLEAN /\ req \in [Requests -> Asked]
    BY <1>1, Knows, Stepped, Zenon DEF Owning, Working, SafeInv, Typed
  <1>4. exec \in Executing
    BY DEF SafeInv, Typed, Executing
  <1>5. ASSUME NEW pc \in {"apply", "rollback"}, req' = [req EXCEPT ![r].pc = pc],
               \/ pc = "apply" /\ exec' = [exec EXCEPT !.phase = "APPLYING"]
               \/ pc = "rollback" /\ exec' = NoExec
        PROVE  Acts(r)
    <2> DEFINE a == [req[r] EXCEPT !.pc = pc]
    <2>1. /\ a \in Asked /\ a.pc = pc /\ a.cur = cur /\ a.start = start /\ a.d = req[r].d
          /\ a.op = req[r].op /\ a.decision = req[r].decision
        <3>1. pc \in Owning \cup {"idle", "claim"}
            BY <1>5 DEF Owning, Working
        <3> QED BY <1>2, <1>3, <1>5, <3>1 DEF Asked
    <2> HIDE DEF a
    <2>2. req' = [req EXCEPT ![r] = a] /\ req'[r] = a
        BY <1>3, <1>5 DEF a
    <2>3. exec' \in Executing /\ (pc = "apply" => exec'.by = r /\ exec'.proposal = exec.proposal)
          /\ (pc = "rollback" => exec'.by = Free)
        <3>1. NoExec \in Executing /\ NoExec.by = Free
            BY DEF NoExec, Executing
        <3>2. /\ [exec EXCEPT !.phase = "APPLYING"] \in Executing
              /\ [exec EXCEPT !.phase = "APPLYING"].by = exec.by
              /\ [exec EXCEPT !.phase = "APPLYING"].proposal = exec.proposal
            BY <1>4 DEF Executing
        <3> QED BY <1>2, <1>5, <3>1, <3>2
    <2>4. /\ exec.by \in {r, Free, Dead}
          /\ (exec'.by \in Requests \ {r} => exec' = exec)
          /\ (exec'.by = r => pc \in {"mirror", "apply"})
        BY <1>2, <2>3, SafeAssumption
    <2>5. Place(r)'
        BY <1>1, <1>2, <1>5, <2>1, <2>2, <2>3, Placing DEF Working, Returning, Judged
    <2> QED BY <1>1, <1>5, <2>1, <2>2, <2>3, <2>4, <2>5, LocalActs DEF Working, Owning
  <1> QED BY <1>5 DEF Mirror

\* An edit of the worktree reaches what is being judged, nothing else.
LEMMA EditedLeaves ==
  ASSUME SafeInv
  PROVE  /\ Edited \in [Requests -> Asked]
         /\ \A q \in Requests : /\ Edited[q].pc = req[q].pc /\ Edited[q].op = req[q].op
                               /\ Edited[q].d = req[q].d /\ Edited[q].start = req[q].start
                               /\ Edited[q].cur = req[q].cur
                               /\ Edited[q].decision = req[q].decision
  <1>1. ASSUME NEW q \in Requests, NEW b \in BOOLEAN
        PROVE  LET x == [req[q] EXCEPT !.stale = @ \/ b] IN
               /\ x \in Asked /\ x.pc = req[q].pc /\ x.op = req[q].op
               /\ x.d = req[q].d /\ x.start = req[q].start
               /\ x.cur = req[q].cur /\ x.decision = req[q].decision
    <2>1. req[q] \in Asked
        BY DEF SafeInv, Typed
    <2> DEFINE v == req[q].stale \/ b
    <2>2. v \in BOOLEAN
        OBVIOUS
    <2> HIDE DEF v
    <2>3. LET x == [req[q] EXCEPT !.stale = v] IN
          /\ x \in Asked /\ x.pc = req[q].pc /\ x.op = req[q].op
          /\ x.d = req[q].d /\ x.start = req[q].start
          /\ x.cur = req[q].cur /\ x.decision = req[q].decision
        BY <2>1, <2>2 DEF Asked
    <2> QED BY <2>3 DEF v
  <1>2. \A q \in Requests : Judging(q) \in BOOLEAN
    BY DEF Judging
  <1>3. \A q \in Requests : Edited[q] = [req[q] EXCEPT !.stale = @ \/ Judging(q)]
    BY DEF Edited
  <1>4. ASSUME NEW q \in Requests
        PROVE  /\ Edited[q] \in Asked
               /\ Edited[q].pc = req[q].pc /\ Edited[q].op = req[q].op
               /\ Edited[q].d = req[q].d /\ Edited[q].start = req[q].start
               /\ Edited[q].cur = req[q].cur /\ Edited[q].decision = req[q].decision
    <2> DEFINE b == Judging(q)
    <2>1. b \in BOOLEAN
        BY <1>2
    <2> HIDE DEF b
    <2>2. LET x == [req[q] EXCEPT !.stale = @ \/ b] IN
          /\ x \in Asked /\ x.pc = req[q].pc /\ x.op = req[q].op
          /\ x.d = req[q].d /\ x.start = req[q].start
          /\ x.cur = req[q].cur /\ x.decision = req[q].decision
        BY <1>1, <2>1
    <2> QED BY <1>3, <2>2 DEF b
  <1>5. Edited = [q \in Requests |-> Edited[q]]
    BY DEF Edited
  <1> QED BY <1>4, <1>5

\* What a request must know once its proposal may have been applied.
LEMMA PlacingApplied ==
  ASSUME NEW r \in Requests, req'[r].pc \in {"editing", "reconcile"},
         Live(session'[req'[r].d]), Live(req'[r].cur), Live(req'[r].start),
         req'[r].cur.status = "APPROVED", Acceptable(req'[r].cur),
         \A i \in 1..MaxHistory : mutated'[<<req'[r].d, i>>] > 0 =>
           i <= Len(req'[r].cur.history) /\ req'[r].cur.history[i].decision = "APPROVED"
  PROVE  Place(r)'
  BY DEF Place, Live, Recorded, Acceptable, LastDecision, Proven, Last, HistoryValid, Returning, Judged

\* A mutation: the proposal was undecided when the operation started, so that
\* it has not been applied before.
LEMMA Mutates ==
  ASSUME SafeInv, NEW r \in Requests, req[r].pc = "apply",
         \/ mutated' = [mutated EXCEPT ![exec.proposal] = @ + 1]
         \/ mutated' = mutated
  PROVE  /\ mutated' \in [Proposals -> Nat]
         /\ \A q \in Proposals : q[1] # D(r) => mutated'[q] = mutated[q]
         /\ \A i \in 1..MaxHistory : mutated'[<<D(r), i>>] <= 1
         /\ session[D(r)] = req[r].cur
         /\ \A i \in 1..MaxHistory : mutated'[<<D(r), i>>] > 0 =>
              i <= Len(req[r].cur.history) /\ req[r].cur.history[i].decision = "APPROVED"
  <1> DEFINE d == D(r)
             cur == req[r].cur
             start == req[r].start
             n == Len(cur.history)
             p == exec.proposal
  <1>1. req[r].pc = "apply"
    OBVIOUS
  <1>2. /\ cur \in Session /\ start \in Session /\ req[r].d = d /\ faults \in Nat
        /\ Live(session[d]) /\ Live(cur) /\ Live(start) /\ Recorded(d, cur)
        /\ Recorded(d, start) /\ Acceptable(start) /\ AtRest(start)
        /\ session[d] = cur /\ LastDecision(cur) = "APPROVED" /\ LastDecision(start) = "none"
        /\ Len(start.history) = Len(cur.history) /\ cur.status = "APPROVED" /\ Acceptable(cur)
        /\ exec.by = r /\ exec.proposal = Proposal(d, cur)
    BY <1>1, Knows DEF Place, Working, Returning, Owning
  <1>3. /\ req[r] \in Asked /\ req \in [Requests -> Asked] /\ d \in Directions
        /\ mutated \in [Proposals -> Nat] /\ session \in [Directions -> Session]
        /\ exec \in Executing
    BY <1>1, Knows DEF Owning, Working, SafeInv, Typed, TypeOK, Executing
  <1>4. n \in 1..MaxHistory /\ n \in Nat /\ cur.history[n].decision = "APPROVED"
        /\ start.history[n].decision = "none"
    <2>1. cur.history # <<>> /\ cur \in Loose /\ Len(cur.history) <= MaxHistory
        BY <1>2, Bounded DEF LastDecision
    <2>2. Len(cur.history) \in Nat \ {0}
        BY <2>1, Histories
    <2> QED BY <1>2, <2>1, <2>2, SafeAssumption DEF LastDecision, Last
  <1>5. p = <<d, n>> /\ p \in Proposals
    BY <1>2, <1>3, <1>4 DEF Proposal, Proposals
  <1>6. mutated[p] = 0
    <2>1. ~(mutated[<<d, n>>] > 0)
        BY <1>2, <1>4 DEF Recorded
    <2>2. mutated[p] \in Nat
        BY <1>3, <1>5
    <2> QED BY <1>5, <2>1, <2>2
  <1>7. \A i \in 1..MaxHistory : mutated[<<d, i>>] <= 1
    BY <1>3, ProposalPairs DEF SafeInv, AppliedOnce, MutatedOnce
  <1> DEFINE change == mutated' = [mutated EXCEPT ![p] = @ + 1]
  <1>8. /\ mutated' \in [Proposals -> Nat]
        /\ \A q \in Proposals : q # p => mutated'[q] = mutated[q]
        /\ mutated'[p] \in {0, 1}
        /\ \A q \in Proposals : q[1] # d => mutated'[q] = mutated[q]
        /\ \A i \in 1..MaxHistory : mutated'[<<d, i>>] <= 1
        /\ \A i \in 1..MaxHistory : mutated'[<<d, i>>] > 0 =>
             i <= Len(cur.history) /\ cur.history[i].decision = "APPROVED"
    <2>1. mutated' \in [Proposals -> Nat] /\ mutated'[p] \in {0, 1}
          /\ \A q \in Proposals : q # p => mutated'[q] = mutated[q]
        <3>1. p \in Proposals
            BY <1>5
        <3>0. change \/ mutated' = mutated
            OBVIOUS
        <3> HIDE DEF p
        <3>2. CASE change
            <4>1. mutated' = [mutated EXCEPT ![p] = 1]
                BY <1>6, <3>2
            <4> QED BY <1>3, <3>1, <4>1
        <3>3. CASE mutated' = mutated
            BY <1>3, <1>6, <3>1, <3>3
        <3> QED BY <3>0, <3>2, <3>3
    <2>2. \A q \in Proposals : q[1] # d => mutated'[q] = mutated[q]
        BY <1>5, <2>1
    <2>3. ASSUME NEW i \in 1..MaxHistory
          PROVE  /\ mutated'[<<d, i>>] <= 1
                 /\ mutated'[<<d, i>>] > 0 => i <= Len(cur.history) /\ cur.history[i].decision = "APPROVED"
        <3>1. CASE i = n
            BY <1>4, <1>5, <2>1, <3>1
        <3>2. CASE i # n
            <4>1. <<d, i>> \in Proposals /\ <<d, i>> # p
                BY <1>3, <1>5, <3>2, ProposalPairs
            <4>2. mutated'[<<d, i>>] = mutated[<<d, i>>]
                BY <2>1, <4>1
            <4> QED BY <1>2, <1>7, <4>2 DEF Recorded
        <3> QED BY <3>1, <3>2
    <2> QED BY <2>1, <2>2, <2>3
  <1> QED BY <1>2, <1>8

\* The step that mutates, once per proposal.
LEMMA ApplyActs ==
  ASSUME SafeInv, NEW r \in Requests, Apply(r)
  PROVE  Acts(r)
  <1> DEFINE d == D(r)
             cur == req[r].cur
             start == req[r].start
             p == exec.proposal
             change == mutated' = [mutated EXCEPT ![p] = @ + 1]
  <1>1. req[r].pc = "apply" /\ UNCHANGED <<session, claim, faults>>
    BY DEF Apply, At
  <1>2. /\ cur \in Session /\ start \in Session /\ req[r].d = d /\ faults \in Nat
        /\ Live(session[d]) /\ Live(cur) /\ Live(start) /\ Recorded(d, cur)
        /\ Recorded(d, start) /\ Acceptable(start) /\ AtRest(start)
        /\ session[d] = cur /\ LastDecision(cur) = "APPROVED" /\ LastDecision(start) = "none"
        /\ Len(start.history) = Len(cur.history) /\ cur.status = "APPROVED" /\ Acceptable(cur)
        /\ exec.by = r /\ exec.proposal = Proposal(d, cur)
    BY <1>1, Knows DEF Place, Working, Returning, Owning
  <1>3. /\ req[r] \in Asked /\ req \in [Requests -> Asked] /\ d \in Directions
        /\ mutated \in [Proposals -> Nat] /\ session \in [Directions -> Session]
        /\ exec \in Executing
    BY <1>1, Knows DEF Owning, Working, SafeInv, Typed, TypeOK, Executing
  <1>8. ASSUME change \/ mutated' = mutated
        PROVE  /\ mutated' \in [Proposals -> Nat]
               /\ \A q \in Proposals : q[1] # d => mutated'[q] = mutated[q]
               /\ \A i \in 1..MaxHistory : mutated'[<<d, i>>] <= 1
               /\ \A i \in 1..MaxHistory : mutated'[<<d, i>>] > 0 =>
                    i <= Len(cur.history) /\ cur.history[i].decision = "APPROVED"
    BY <1>1, <1>8, Mutates
  <1> HIDE DEF p
  <1>9. ASSUME NEW pc \in {"editing", "reconcile", "rollback"}, NEW base \in {req, Edited},
               req' = [base EXCEPT ![r].pc = pc],
               change \/ mutated' = mutated,
               exec' \in Executing, exec'.by \in {Free, Dead},
               pc = "rollback" => mutated' = mutated
        PROVE  Acts(r)
    <2>1. /\ base \in [Requests -> Asked]
          /\ \A q \in Requests : /\ base[q].pc = req[q].pc /\ base[q].op = req[q].op
                                /\ base[q].d = req[q].d /\ base[q].start = req[q].start
                                /\ base[q].cur = req[q].cur
                                /\ base[q].decision = req[q].decision
        BY <1>3, <1>9, EditedLeaves
    <2> DEFINE a == [base[r] EXCEPT !.pc = pc]
    <2>2. /\ a \in Asked /\ a.pc = pc /\ a.cur = cur /\ a.start = start /\ a.d = req[r].d
          /\ a.op = req[r].op /\ a.decision = req[r].decision
        <3>1. pc \in Owning \cup {"idle", "claim"} /\ base[r] \in Asked
            BY <1>9, <2>1 DEF Owning, Working
        <3>2. /\ a \in Asked /\ a.pc = pc /\ a.cur = base[r].cur /\ a.start = base[r].start
              /\ a.d = base[r].d /\ a.op = base[r].op /\ a.decision = base[r].decision
            BY <3>1 DEF Asked
        <3> QED BY <2>1, <3>2
    <2>3. req' = [base EXCEPT ![r] = a]
        BY <1>9
    <2> HIDE DEF a
    <2>4. req' \in [Requests -> Asked] /\ req'[r] = a /\ \A q \in Requests \ {r} : Same(q)
        BY <2>1, <2>2, <2>3 DEF Same
    <2>5. Place(r)'
        <3>1. CASE pc = "rollback"
            BY <1>1, <1>2, <1>9, <2>2, <2>4, <3>1, Placing, Zenon DEF Working, Returning, Judged
        <3>2. CASE pc \in {"editing", "reconcile"}
            <4>1. \A i \in 1..MaxHistory : mutated'[<<d, i>>] > 0 =>
                    i <= Len(cur.history) /\ cur.history[i].decision = "APPROVED"
                BY <1>8, <1>9
            <4> QED BY <1>1, <1>2, <2>2, <2>4, <3>2, <4>1, PlacingApplied
        <3> QED BY <1>9, <3>1, <3>2
    <2>6. Recorded(D(r), session[D(r)])'
        <3>1. D(r)' = d /\ session'[d] = cur
            BY <1>1, <1>2, <2>2, <2>4 DEF D
        <3>2. \A i \in 1..MaxHistory : mutated'[<<d, i>>] > 0 =>
                i <= Len(session'[d].history) /\ session'[d].history[i].decision = "APPROVED"
            BY <1>8, <1>9, <3>1
        <3> QED BY <3>1, <3>2 DEF Recorded
    <2>7. /\ mutated' \in [Proposals -> Nat]
          /\ \A q \in Proposals : q[1] # d => mutated'[q] = mutated[q]
          /\ \A i \in 1..MaxHistory : mutated'[<<d, i>>] <= 1
        BY <1>8, <1>9
    <2>8. /\ exec' = exec \/ exec.by \in {r, Free, Dead}
          /\ (exec'.by \in Requests \ {r} => exec' = exec)
          /\ (exec'.by = r => pc \in {"mirror", "apply"})
        BY <1>2, <1>9, SafeAssumption
    <2>9. pc \in Owning /\ "apply" \in Working /\ "apply" \in Owning
        BY <1>9 DEF Owning, Working
    <2> QED BY <1>1, <1>2, <1>3, <1>9, <2>2, <2>4, <2>5, <2>6, <2>7, <2>8, <2>9 DEF Acts
  <1>10. NoExec \in Executing /\ NoExec.by = Free
    BY DEF NoExec, Executing
  <1>11. [exec EXCEPT !.by = Dead] \in Executing /\ [exec EXCEPT !.by = Dead].by = Dead
    BY <1>3 DEF Executing
  <1>12. \/ change /\ exec' = NoExec /\ req' = [Edited EXCEPT ![r].pc = "editing"]
         \/ mutated' = mutated /\ exec' = NoExec /\ req' = [req EXCEPT ![r].pc = "rollback"]
         \/ /\ change \/ mutated' = mutated
            /\ exec' = [exec EXCEPT !.by = Dead]
            /\ req' = [Edited EXCEPT ![r].pc = "reconcile"]
    BY DEF Apply, p
  <1> HIDE DEF change
  <1> QED BY <1>9, <1>10, <1>11, <1>12

-----------------------------------------------------------------------------
(* Steps that take a claim, give it up or lose it.                           *)

\* A step that saves nothing, after which a request owns its session or not.
Moves(r) ==
  /\ req' \in [Requests -> Asked]
  /\ \A q \in Requests \ {r} : Same(q)
  /\ req'[r].pc # "idle" => req'[r].d \in Directions /\ req'[r].op # "none"
  /\ req'[r].op = "decide" => req'[r].decision \in {"REVISION_REQUESTED", "REJECTED"}
  /\ claim' \in [Directions -> Requests \cup {Free, Dead}]
  /\ \A d \in Directions : \A q \in Requests \ {r} : claim'[d] = q <=> claim[d] = q
  /\ \A d \in Directions : claim'[d] = r <=> req'[r].pc \in Owning /\ req'[r].d = d
  /\ session' = session
  /\ mutated' \in [Proposals -> Nat]
  /\ \A p \in Proposals : p[1] # D(r) \/ req[r].pc \notin Owning => mutated'[p] = mutated[p]
  /\ AppliedOnce'
  /\ exec' \in Executing
  /\ exec.by \in Requests \ {r} => exec' = exec
  /\ exec'.by \in Requests => exec'.by # r /\ exec' = exec
  /\ faults' \in Nat /\ (faults' = 0 => faults = 0)
  /\ req'[r].pc \in Working => Active = {req'[r].d}
  /\ faults' = 0 => \A d \in Directions :
       claim'[d] # Dead /\ (claim'[d] = Free => AtRest(session[d]))
  /\ Place(r)'

\* A step that changes who works on what keeps the invariant.
LEMMA MovesInv ==
  ASSUME SafeInv, NEW r \in Requests, Moves(r)
  PROVE  SafeInv'
  <1>1. \A q \in Requests \ {r} : req[q].pc \in Owning =>
            req[q].d \in Directions /\ (req[r].pc \in Owning => req[q].d # D(r))
    BY DEF SafeInv, Typed, Owns, D, Owning, Working
  <1>2. Typed'
    <2>1. TypeOK'
        <3>1. /\ exec'.by \in Requests \cup {Free, Dead}
              /\ exec'.phase \in {"none", "PREPARING", "APPLYING"}
            BY DEF Moves, Executing
        <3>2. /\ claim' \in [Directions -> Requests \cup {Free, Dead}]
              /\ DOMAIN mutated' = Proposals
              /\ session' = session
            BY DEF Moves
        <3>3. /\ session \in [Directions -> Session]
              /\ \A d \in Directions : session[d].status # "NONE" => Acceptable(session[d])
            BY DEF SafeInv, Typed, TypeOK
        <3> QED BY <3>1, <3>2, <3>3
            DEF TypeOK, Acceptable, HistoryValid, LastDecision, Last, Proven
    <2>2. ASSUME NEW q \in Requests, req'[q].pc # "idle"
          PROVE  req'[q].d \in Directions /\ req'[q].op # "none"
        <3>1. CASE q = r
            BY <2>2, <3>1 DEF Moves
        <3>2. CASE q # r
            <4>1. Same(q) /\ (req[q].pc # "idle" => req[q].d \in Directions /\ req[q].op # "none")
                BY <3>2 DEF Moves, SafeInv, Typed
            <4> QED BY <2>2, <4>1 DEF Same
        <3> QED BY <3>1, <3>2
    <2>3. \A q \in Requests : req'[q].op = "decide" => req'[q].decision \in {"REVISION_REQUESTED", "REJECTED"}
        BY DEF Moves, Same, SafeInv, Typed
    <2> QED BY <2>1, <2>2, <2>3 DEF Moves, Typed, Executing
  <1>3. Owns'
    <2>1. ASSUME NEW q \in Requests, req'[q].pc \in Owning PROVE claim'[req'[q].d] = q
        <3>1. req'[q].pc # "idle"
            BY <2>1 DEF Owning, Working
        <3>2. req'[q].d \in Directions
            BY <1>2, <3>1 DEF Typed
        <3> QED BY <2>1, <3>2 DEF Moves, Same, SafeInv, Owns
    <2>2. ASSUME NEW q \in Requests, NEW d \in Directions, claim'[d] = q
          PROVE  req'[q].pc \in Owning /\ req'[q].d = d
        BY <2>2 DEF Moves, Same, SafeInv, Owns
    <2> QED BY <2>1, <2>2 DEF Owns
  <1>4. ASSUME NEW q \in Requests PROVE Place(q)'
    <2>1. CASE q = r
        BY <2>1 DEF Moves
    <2>2. CASE q # r
        <3>1. Same(q) /\ Place(q)
            BY <2>2 DEF Moves, SafeInv, Places
        <3>2. req[q].pc \in Owning =>
                 /\ session'[req[q].d] = session[req[q].d]
                 /\ \A i \in 1..MaxHistory : mutated'[<<req[q].d, i>>] = mutated[<<req[q].d, i>>]
            BY <1>1, <2>2, ProposalPairs DEF Moves
        <3>3. req[q].pc \in {"mirror", "apply"} => exec' = exec
            <4>1. req[q].pc \in {"mirror", "apply"} => exec.by = q
                BY <3>1 DEF Place
            <4> QED BY <2>2, <4>1 DEF Moves
        <3>4. req[q].pc # "idle" => req[q].d \in Directions
            BY DEF SafeInv, Typed
        <3> QED BY <3>1, <3>2, <3>3, <3>4, PlaceElsewhere DEF Moves
    <2> QED BY <2>1, <2>2
  <1>5. Alone'
    <2> SUFFICES ASSUME NEW q \in Requests, req'[q].pc \in Working
                 PROVE  /\ \A x \in Requests \ {q} : req'[x].pc \notin Working
                        /\ \A d \in Active' : d # req'[q].d => session'[d].status = "IDLE"
        BY DEF Alone
    <2>1. Active' = Active /\ session' = session
        BY DEF Active, Moves
    <2>2. ASSUME req'[r].pc \in Working, NEW x \in Requests \ {r} PROVE req'[x].pc \notin Working
        <3> SUFFICES ASSUME req'[x].pc \in Working PROVE FALSE
            OBVIOUS
        <3>1. req'[x].d \in Directions /\ req'[r].d \in Directions
            BY <1>2, <2>2 DEF Typed, Working
        <3>2. Live(session'[req'[x].d])
            BY <1>4 DEF Place, Live
        <3>3. req'[x].d \in Active
            BY <2>1, <3>1, <3>2 DEF Active, Live
        <3>4. req'[x].d = req'[r].d
            BY <2>2, <3>3 DEF Moves
        <3>5. claim'[req'[x].d] = x /\ claim'[req'[r].d] = r
            BY <1>3, <2>2 DEF Owns, Owning
        <3> QED BY <3>4, <3>5
    <2>3. CASE q = r
        BY <2>1, <2>2, <2>3 DEF Moves
    <2>4. CASE q # r
        <3>1. req'[r].pc \notin Working
            BY <2>2, <2>4
        <3>2. req[q].pc \in Working /\ req'[q].d = req[q].d
            BY <2>4 DEF Moves, Same
        <3> QED BY <2>1, <2>4, <3>1, <3>2 DEF Moves, Same, SafeInv, Alone
    <2> QED BY <2>3, <2>4
  <1>6. ExecOwner'
    BY DEF Moves, Same, SafeInv, ExecOwner
  <1>7. Rests'
    BY DEF Moves, Rests, AtRest, Proven, Last
  <1>8. Unstarted'
    BY DEF Moves, SafeInv, Unstarted
  <1> QED BY <1>2, <1>3, <1>4, <1>5, <1>6, <1>7, <1>8 DEF SafeInv, Places, Moves

\* What is nobody's or not yet at work knows nothing.
LEMMA Nowhere ==
  ASSUME NEW r \in Requests, req'[r].pc \in {"idle", "claim"} PROVE Place(r)'
  BY DEF Place, Working, Returning, Judged

\* A request that does nothing.
LEMMA IdleAsked == Idle \in Asked /\ Idle.pc = "idle" /\ Idle.op = "none"
  <1>1. Fresh \in Session
    BY FreshRecord
  <1> QED BY <1>1 DEF Idle, Asked, Operations, Decisions

\* The counters and evidence of SafeInv that a step leaves alone.
LEMMA Untouched ==
  ASSUME SafeInv, UNCHANGED <<session, mutated>>
  PROVE  AppliedOnce' /\ mutated' \in [Proposals -> Nat]
  BY DEF SafeInv, Typed, AppliedOnce, MutatedOnce, AppliedIsRecorded

\* A request that begins owns nothing yet.
LEMMA BeginInv ==
  ASSUME SafeInv, NEW r \in Requests, NEW op \in Operations \ {"none"}, NEW d \in Directions,
         NEW c \in Decisions, op = "decide" => c \in {"REVISION_REQUESTED", "REJECTED"},
         Begin(r, op, d, c)
  PROVE  SafeInv'
  <1> DEFINE a == [Idle EXCEPT !.pc = "claim", !.op = op, !.d = d, !.decision = c]
  <1>1. a \in Asked /\ a.pc = "claim" /\ a.op = op /\ a.d = d /\ a.decision = c
    BY IdleAsked DEF Asked
  <1>2. req[r].pc = "idle" /\ UNCHANGED <<session, claim, exec, spent, mutated, faults>>
        /\ req' = [req EXCEPT ![r] = a]
    BY DEF Begin, At
  <1> HIDE DEF a
  <1>3. req \in [Requests -> Asked] /\ exec \in Executing /\ faults \in Nat
        /\ claim \in [Directions -> Requests \cup {Free, Dead}]
    BY DEF SafeInv, Typed, TypeOK, Executing
  <1>4. req' \in [Requests -> Asked] /\ req'[r] = a /\ \A q \in Requests \ {r} : req'[q] = req[q]
    BY <1>1, <1>2, <1>3
  <1>5. exec.by # r /\ req[r].pc \notin Owning /\ a.pc \notin Owning
    BY <1>1, <1>2 DEF SafeInv, ExecOwner, Owning, Working
  <1>6. \A x \in Directions : claim[x] # r
    BY <1>5 DEF SafeInv, Owns
  <1>7. faults = 0 => \A x \in Directions : claim[x] # Dead /\ (claim[x] = Free => AtRest(session[x]))
    BY DEF SafeInv, Rests
  <1>8. Place(r)'
    BY <1>1, <1>4, Nowhere
  <1>9. AppliedOnce' /\ mutated' \in [Proposals -> Nat]
    BY <1>2, Untouched
  <1>10. Moves(r)
    BY <1>1, <1>2, <1>3, <1>4, <1>5, <1>6, <1>7, <1>8, <1>9 DEF Moves, Same, Owning
  <1> QED BY <1>10, MovesInv

\* The routes look before they ask.
LEMMA AskInv ==
  ASSUME SafeInv, NEW r \in Requests, Ask(r)
  PROVE  SafeInv'
  <1>1. PICK d \in Directions : \E op \in Operations \ {"none"} : \E c \in Decisions :
          Begin(r, op, d, c) /\ (op = "decide" => c \in {"REVISION_REQUESTED", "REJECTED"})
    BY DEF Ask, Active, Operations, Decisions
  <1> QED BY <1>1, BeginInv

\* The claim goes with the operation.
LEMMA ReturnInv ==
  ASSUME SafeInv, NEW r \in Requests, Return(r), UNCHANGED <<session, exec, mutated, faults>>,
         req[r].pc \in {"claim", "load", "return"}
  PROVE  SafeInv'
  <1>1. req' = [req EXCEPT ![r] = Idle]
        /\ claim' = [d \in Directions |-> IF claim[d] = r THEN Free ELSE claim[d]]
    BY DEF Return
  <1>2. req \in [Requests -> Asked] /\ exec \in Executing /\ faults \in Nat
        /\ claim \in [Directions -> Requests \cup {Free, Dead}]
    BY DEF SafeInv, Typed, TypeOK, Executing
  <1>3. req' \in [Requests -> Asked] /\ req'[r] = Idle /\ \A q \in Requests \ {r} : req'[q] = req[q]
    BY <1>1, <1>2, IdleAsked
  <1>4. exec.by # r /\ Idle.pc \notin Owning
    BY IdleAsked DEF SafeInv, ExecOwner, Owning, Working
  <1>5. claim' \in [Directions -> Requests \cup {Free, Dead}]
        /\ \A d \in Directions : claim'[d] # r /\ (claim'[d] # Free => claim'[d] = claim[d])
                                 /\ (claim[d] # r => claim'[d] = claim[d])
    BY <1>1, <1>2, SafeAssumption
  <1>6. ASSUME faults = 0, NEW d \in Directions
        PROVE  claim'[d] # Dead /\ (claim'[d] = Free => AtRest(session[d]))
    <2>1. claim[d] # Dead /\ (claim[d] = Free => AtRest(session[d]))
        BY <1>6 DEF SafeInv, Rests
    <2>2. claim[d] = r => AtRest(session[d])
        <3> SUFFICES ASSUME claim[d] = r PROVE AtRest(session[d])
            OBVIOUS
        <3>1. req[r].pc \in Owning /\ req[r].d = d
            BY DEF SafeInv, Owns
        <3>2. req[r].pc \in {"load", "return"}
            BY <3>1 DEF Owning, Working
        <3>3. Place(r)
            BY DEF SafeInv, Places
        <3> QED BY <1>6, <3>1, <3>2, <3>3 DEF Place
    <2> QED BY <1>5, <2>1, <2>2, SafeAssumption
  <1>7. Place(r)'
    BY <1>3, IdleAsked, Nowhere
  <1>8. AppliedOnce' /\ mutated' \in [Proposals -> Nat]
    BY Untouched
  <1>9. \A d \in Directions : \A q \in Requests \ {r} : claim'[d] = q <=> claim[d] = q
    BY <1>5, SafeAssumption
  <1>10. Moves(r)
    BY <1>2, <1>3, <1>4, <1>5, <1>6, <1>7, <1>8, <1>9, IdleAsked DEF Moves, Same, Owning
  <1> QED BY <1>10, MovesInv

\* A free claim, or a dead one, is taken.
LEMMA TakeClaimInv ==
  ASSUME SafeInv, NEW r \in Requests, TakeClaim(r)
  PROVE  SafeInv'
  <1> DEFINE d == D(r)
             a == [req[r] EXCEPT !.pc = "load"]
  <1>1. req[r].pc = "claim" /\ UNCHANGED <<session, exec, spent, mutated, faults>>
    BY DEF TakeClaim, At
  <1>2. CASE claim[d] \notin {Free, Dead}
    <2>1. Return(r)
        BY <1>2 DEF TakeClaim
    <2> QED BY <1>1, <2>1, ReturnInv
  <1>3. CASE claim[d] \in {Free, Dead}
    <2>1. claim' = [claim EXCEPT ![d] = r] /\ req' = [req EXCEPT ![r].pc = "load"]
        BY <1>3 DEF TakeClaim
    <2>2. /\ req \in [Requests -> Asked] /\ exec \in Executing /\ faults \in Nat
          /\ claim \in [Directions -> Requests \cup {Free, Dead}]
          /\ d \in Directions /\ req[r].d = d /\ req[r].op # "none"
          /\ (req[r].op = "decide" => req[r].decision \in {"REVISION_REQUESTED", "REJECTED"})
        BY <1>1 DEF SafeInv, Typed, TypeOK, Executing, D
    <2>3. /\ a \in Asked /\ a.pc = "load" /\ a.op = req[r].op /\ a.d = d
          /\ a.decision = req[r].decision
        <3>1. req[r] \in Asked
            BY <2>2
        <3> QED BY <2>2, <3>1 DEF Asked, Owning
    <2>4. req' = [req EXCEPT ![r] = a]
        BY <2>1
    <2> HIDE DEF a
    <2>5. req' \in [Requests -> Asked] /\ req'[r] = a /\ \A q \in Requests \ {r} : req'[q] = req[q]
        BY <2>2, <2>3, <2>4
    <2>6. exec.by # r /\ req[r].pc \notin Owning /\ "load" \in Owning /\ "load" \notin Working
        BY <1>1 DEF SafeInv, ExecOwner, Owning, Working
    <2>7. \A x \in Directions : claim[x] # r
        BY <2>6 DEF SafeInv, Owns
    <2>8. /\ claim' \in [Directions -> Requests \cup {Free, Dead}] /\ claim'[d] = r
          /\ \A x \in Directions : x # d => claim'[x] = claim[x]
        BY <2>1, <2>2
    <2>9. faults = 0 => \A x \in Directions : claim[x] # Dead /\ (claim[x] = Free => AtRest(session[x]))
        BY DEF SafeInv, Rests
    <2>10. Place(r)'
        <3>1. faults' = 0 => AtRest(session'[d])
            BY <1>1, <1>3, <2>2, <2>9
        <3> QED BY <1>1, <2>3, <2>5, <3>1, Placing DEF Working, Returning, Judged
    <2>11. AppliedOnce' /\ mutated' \in [Proposals -> Nat]
        BY <1>1, Untouched
    <2>12. \A x \in Directions : \A q \in Requests \ {r} : claim'[x] = q <=> claim[x] = q
        BY <1>3, <2>2, <2>8, SafeAssumption
    <2>13. \A x \in Directions : claim'[x] = r <=> x = d
        BY <2>7, <2>8
    <2>14. faults' = 0 => \A x \in Directions :
             claim'[x] # Dead /\ (claim'[x] = Free => AtRest(session[x]))
        BY <1>1, <2>8, <2>9, SafeAssumption
    <2>15. Moves(r)
        BY <1>1, <2>2, <2>3, <2>5, <2>6, <2>8, <2>10, <2>11, <2>12, <2>13, <2>14
           DEF Moves, Same
    <2> QED BY <2>15, MovesInv
  <1> QED BY <1>2, <1>3

\* What the state under the claim allows is what the first step relies on.
LEMMA LoadInv ==
  ASSUME SafeInv, NEW r \in Requests, Load(r)
  PROVE  SafeInv'
  <1> DEFINE d == D(r)
             s == session[d]
             pc == FirstStep(r, s)
             a == [req[r] EXCEPT !.pc = pc, !.start = s, !.cur = s]
  <1>1. req[r].pc = "load" /\ UNCHANGED <<session, exec, spent, mutated, faults>>
    BY DEF Load, At
  <1>2. CASE ~(Selected(d) /\ Ready(r, s))
    <2>1. Return(r)
        BY <1>2 DEF Load
    <2> QED BY <1>1, <2>1, ReturnInv
  <1>3. CASE Selected(d) /\ Ready(r, s)
    <2>1. claim' = claim /\ req' = [req EXCEPT ![r].pc = pc, ![r].start = s, ![r].cur = s]
        BY <1>3 DEF Load
    <2>2. /\ req \in [Requests -> Asked] /\ exec \in Executing /\ faults \in Nat
          /\ claim \in [Directions -> Requests \cup {Free, Dead}]
          /\ (req[r].op = "decide" => req[r].decision \in {"REVISION_REQUESTED", "REJECTED"})
        BY DEF SafeInv, Typed, TypeOK, Executing
    <2>3. /\ d \in Directions /\ req[r].d = d /\ req[r] \in Asked /\ s \in Session
          /\ Recorded(d, s) /\ req[r].op # "none" /\ Active = {d} /\ claim[d] = r
        BY <1>1, <1>3, Knows DEF Owning, Selected, SafeInv, Typed, Owns
    <2>4. s.status \notin Terminal \cup {"NONE"} /\ ~(s.status = "APPROVED" /\ s.failed)
        BY <2>3 DEF Active
    <2>5. Acceptable(s)
        BY <2>3, <2>4 DEF SafeInv, Typed, TypeOK
    <2>6. Live(s)
        BY <2>4, <2>5 DEF Live, Acceptable
    <2>7. req[r].op \in {"prepare", "approve", "decide", "recover", "verify"}
        BY <2>3 DEF Asked, Operations
    <2>8. /\ pc \in Working
          /\ pc \in Returning => AtRest(s)
          /\ pc \in {"decided", "approved"} => LastDecision(s) = "none" /\ AtRest(s)
          /\ pc \notin {"execute", "mirror", "apply", "editing", "again"}
          /\ pc = "reconcile" => s.status = "APPROVED"
          /\ pc \in Judged => LastDecision(s) = "APPROVED" /\ s.applied /\ ~s.failed
        <3>1. CASE req[r].op = "prepare"
            <4>1. s.status \in {"IDLE", "REVISING"} \/ (s.status = "PROPOSING" /\ Proven(s))
                BY <1>3, <3>1 DEF Ready
            <4>2. pc \in {"preparing", "rollback", "proposing"}
                BY <3>1 DEF FirstStep
            <4>3. AtRest(s)
                BY <4>1 DEF AtRest
            <4> HIDE DEF pc
            <4> QED BY <4>2, <4>3 DEF Working, Judged
        <3>2. CASE req[r].op \in {"approve", "decide"}
            <4>1. s.status = "WAITING_APPROVAL"
                BY <1>3, <3>2 DEF Ready
            <4>2. pc \in {"approved", "decided"}
                BY <3>2 DEF FirstStep
            <4>3. AtRest(s) /\ LastDecision(s) = "none"
                BY <2>5, <4>1 DEF AtRest, Acceptable
            <4> HIDE DEF pc
            <4> QED BY <4>2, <4>3 DEF Working, Judged
        <3>3. CASE req[r].op = "recover"
            <4>1. s.status = "APPROVED" /\ pc = "reconcile"
                BY <1>3, <3>3 DEF Ready, FirstStep
            <4> HIDE DEF pc
            <4> QED BY <4>1 DEF Working, Judged, Returning
        <3>4. CASE req[r].op = "verify"
            <4>1. s.status = "EDITING" /\ pc = "running"
                BY <1>3, <3>4 DEF Ready, FirstStep
            <4>2. LastDecision(s) = "APPROVED" /\ s.applied /\ ~s.failed
                BY <2>5, <4>1 DEF Acceptable
            <4> HIDE DEF pc
            <4> QED BY <4>1, <4>2 DEF Working, Judged, Returning
        <3> QED BY <2>7, <3>1, <3>2, <3>3, <3>4
    <2> HIDE DEF pc
    <2>9. /\ a \in Asked /\ a.pc = pc /\ a.op = req[r].op /\ a.d = d /\ a.start = s /\ a.cur = s
          /\ a.decision = req[r].decision
        BY <2>3, <2>8 DEF Asked, Owning
    <2>10. req' = [req EXCEPT ![r] = a]
        BY <2>1
    <2> HIDE DEF a
    <2>11. req' \in [Requests -> Asked] /\ req'[r] = a /\ \A q \in Requests \ {r} : req'[q] = req[q]
        BY <2>2, <2>9, <2>10
    <2>12. Place(r)'
        <3>1. HistoryValid(s.history)
            BY <2>5 DEF Acceptable
        <3>2. pc \notin {"load", "return", "verify"}
            BY <2>8 DEF Working
        <3> HIDE DEF s
        <3> QED BY <1>1, <2>3, <2>5, <2>6, <2>8, <2>9, <2>11, <3>1, <3>2, Placing
                DEF s
    <2>13. AppliedOnce' /\ mutated' \in [Proposals -> Nat]
        BY <1>1, Untouched
    <2>14. faults = 0 => \A x \in Directions : claim[x] # Dead /\ (claim[x] = Free => AtRest(session[x]))
        BY DEF SafeInv, Rests
    <2>15. \A x \in Directions : claim[x] = r <=> x = d
        BY <1>1, <2>3 DEF SafeInv, Owns
    <2>16. exec.by # r /\ pc \in Owning
        BY <1>1, <2>8 DEF SafeInv, ExecOwner, Owning
    <2>17. Moves(r)
        BY <1>1, <2>1, <2>2, <2>3, <2>8, <2>9, <2>11, <2>12, <2>13, <2>14, <2>15, <2>16
           DEF Moves, Same
    <2> QED BY <2>17, MovesInv
  <1> QED BY <1>2, <1>3

\* The approve route gives its claim back and asks for it again.
LEMMA HandInv ==
  ASSUME SafeInv, NEW r \in Requests, Hand(r)
  PROVE  SafeInv'
  <1> DEFINE d == D(r)
             a == [Idle EXCEPT !.pc = "claim", !.op = "verify", !.d = D(r)]
  <1>1. /\ req[r].pc = "verify" /\ UNCHANGED <<session, exec, spent, mutated, faults>>
        /\ claim' = [claim EXCEPT ![d] = Free] /\ req' = [req EXCEPT ![r] = a]
    BY DEF Hand, At
  <1>2. /\ req \in [Requests -> Asked] /\ exec \in Executing /\ faults \in Nat
        /\ claim \in [Directions -> Requests \cup {Free, Dead}]
    BY DEF SafeInv, Typed, TypeOK, Executing
  <1>3. d \in Directions /\ req[r].d = d /\ Place(r)
    BY <1>1, Knows DEF Owning
  <1>4. a \in Asked /\ a.pc = "claim" /\ a.op = "verify" /\ a.d = d
    BY <1>3, IdleAsked DEF Asked, Operations
  <1> HIDE DEF a
  <1>5. req' \in [Requests -> Asked] /\ req'[r] = a /\ \A q \in Requests \ {r} : req'[q] = req[q]
    BY <1>1, <1>2, <1>4
  <1>6. exec.by # r /\ "claim" \notin Owning
    BY <1>1 DEF SafeInv, ExecOwner, Owning, Working
  <1>7. \A x \in Directions : claim[x] = r <=> x = d
    BY <1>1, <1>3 DEF SafeInv, Owns, Owning
  <1>8. /\ claim' \in [Directions -> Requests \cup {Free, Dead}] /\ claim'[d] = Free
        /\ \A x \in Directions : x # d => claim'[x] = claim[x]
    BY <1>1, <1>2, <1>3
  <1>9. faults = 0 => AtRest(session[d])
    BY <1>1, <1>3 DEF Place
  <1>10. faults = 0 => \A x \in Directions : claim[x] # Dead /\ (claim[x] = Free => AtRest(session[x]))
    BY DEF SafeInv, Rests
  <1>11. Place(r)'
    BY <1>4, <1>5, Nowhere
  <1>12. AppliedOnce' /\ mutated' \in [Proposals -> Nat]
    BY <1>1, Untouched
  <1>13. \A x \in Directions : \A q \in Requests \ {r} : claim'[x] = q <=> claim[x] = q
    BY <1>3, <1>7, <1>8, SafeAssumption
  <1>14. \A x \in Directions : claim'[x] # r
    BY <1>7, <1>8, SafeAssumption
  <1>15. faults' = 0 => \A x \in Directions :
           claim'[x] # Dead /\ (claim'[x] = Free => AtRest(session[x]))
    BY <1>1, <1>8, <1>9, <1>10, SafeAssumption
  <1>16. Moves(r)
    BY <1>1, <1>2, <1>3, <1>4, <1>5, <1>6, <1>8, <1>11, <1>12, <1>13, <1>14, <1>15
       DEF Moves, Same, Owning, Working
  <1> QED BY <1>16, MovesInv

\* A death leaves the claims behind; a mutation under way may have happened.
LEMMA DieInv ==
  ASSUME SafeInv, NEW r \in Requests, Die(r)
  PROVE  SafeInv'
  <1> DEFINE d == D(r)
  <1>1. /\ req[r].pc # "idle" /\ faults' = faults + 1 /\ UNCHANGED <<session, spent>>
        /\ claim' = [x \in Directions |-> IF claim[x] = r THEN Dead ELSE claim[x]]
        /\ exec' = IF exec.by = r THEN [exec EXCEPT !.by = Dead] ELSE exec
        /\ \/ mutated' = mutated /\ req' = [req EXCEPT ![r] = Idle]
           \/ /\ req[r].pc = "apply"
              /\ mutated' = [mutated EXCEPT ![exec.proposal] = @ + 1]
              /\ req' = [Edited EXCEPT ![r] = Idle]
    BY DEF Die, At
  <1>2. /\ req \in [Requests -> Asked] /\ exec \in Executing /\ faults \in Nat
        /\ claim \in [Directions -> Requests \cup {Free, Dead}]
        /\ session \in [Directions -> Session] /\ d \in Directions
    BY <1>1 DEF SafeInv, Typed, TypeOK, Executing, D
  <1>3. req' \in [Requests -> Asked] /\ req'[r] = Idle /\ \A q \in Requests \ {r} : Same(q)
    <2>1. CASE req' = [req EXCEPT ![r] = Idle]
        BY <1>2, <2>1, IdleAsked DEF Same
    <2>2. CASE req' = [Edited EXCEPT ![r] = Idle]
        BY <1>2, <2>2, IdleAsked, EditedLeaves DEF Same
    <2> QED BY <1>1, <2>1, <2>2
  <1>4. exec' \in Executing /\ exec'.by # r /\ (exec.by # r => exec' = exec)
        /\ (exec'.by \in Requests => exec' = exec)
    <2>1. [exec EXCEPT !.by = Dead] \in Executing /\ [exec EXCEPT !.by = Dead].by = Dead
        BY <1>2 DEF Executing
    <2> QED BY <1>1, <1>2, <2>1, SafeAssumption
  <1>5. /\ claim' \in [Directions -> Requests \cup {Free, Dead}]
        /\ \A x \in Directions : claim'[x] # r
        /\ \A x \in Directions : \A q \in Requests \ {r} : claim'[x] = q <=> claim[x] = q
    BY <1>1, <1>2, SafeAssumption
  <1>6. Place(r)'
    BY <1>3, IdleAsked, Nowhere
  <1>7. AppliedOnce' /\ mutated' \in [Proposals -> Nat]
        /\ \A p \in Proposals : p[1] # D(r) \/ req[r].pc \notin Owning => mutated'[p] = mutated[p]
    <2>1. CASE mutated' = mutated
        BY <1>1, <2>1, Untouched
    <2>2. CASE req[r].pc = "apply" /\ mutated' = [mutated EXCEPT ![exec.proposal] = @ + 1]
        <3>1. /\ mutated' \in [Proposals -> Nat]
              /\ \A q \in Proposals : q[1] # D(r) => mutated'[q] = mutated[q]
              /\ \A i \in 1..MaxHistory : mutated'[<<D(r), i>>] <= 1
              /\ session[D(r)] = req[r].cur
              /\ \A i \in 1..MaxHistory : mutated'[<<D(r), i>>] > 0 =>
                   i <= Len(req[r].cur.history) /\ req[r].cur.history[i].decision = "APPROVED"
            BY <2>2, Mutates
        <3>2. MutatedOnce'
            <4> SUFFICES ASSUME NEW p \in Proposals PROVE mutated'[p] <= 1
                BY DEF MutatedOnce
            <4>1. CASE p[1] # D(r)
                BY <3>1, <4>1 DEF SafeInv, AppliedOnce, MutatedOnce
            <4>2. CASE p[1] = D(r)
                <5>1. PICK i \in 1..MaxHistory : p = <<D(r), i>>
                    BY <4>2 DEF Proposals
                <5> QED BY <3>1, <5>1
            <4> QED BY <4>1, <4>2
        <3>3. AppliedIsRecorded'
            <4> SUFFICES ASSUME NEW x \in Directions, NEW i \in 1..MaxHistory, mutated'[<<x,
                                i>>] > 0
                         PROVE  i <= Len(session[x].history) /\ session[x].history[i].decision = "APPROVED"
                BY <1>1 DEF AppliedIsRecorded
            <4>1. CASE x = D(r)
                BY <3>1, <4>1
            <4>2. CASE x # D(r)
                <5>1. mutated'[<<x, i>>] = mutated[<<x, i>>]
                    BY <3>1, <4>2, ProposalPairs
                <5> QED BY <5>1 DEF SafeInv, AppliedOnce, AppliedIsRecorded
            <4> QED BY <4>1, <4>2
        <3>4. req[r].pc \in Owning
            BY <2>2 DEF Owning, Working
        <3> QED BY <3>1, <3>2, <3>3, <3>4 DEF AppliedOnce
    <2> QED BY <1>1, <2>1, <2>2
  <1>8. faults' # 0 /\ faults' \in Nat
    BY <1>1, <1>2
  <1>9. Idle.op # "decide" /\ Idle.pc = "idle" /\ "idle" \notin Owning /\ "idle" \notin Working
    BY IdleAsked DEF Owning, Working
  <1>10. Moves(r)
    BY <1>1, <1>3, <1>4, <1>5, <1>6, <1>7, <1>8, <1>9 DEF Moves
  <1> QED BY <1>10, MovesInv

-----------------------------------------------------------------------------
(* Steps of nobody's request.                                                *)

\* A step that starts a session, or takes an abandoned claim on the worktree
\* away, or neither.

-----------------------------------------------------------------------------
(* Steps of nobody's request.                                                *)

\* A step that starts a session, or takes an abandoned claim on the worktree
\* away, or neither.
LEMMA AmbientInv ==
  ASSUME SafeInv, req' \in [Requests -> Asked], \A q \in Requests : Same(q),
         UNCHANGED <<claim, mutated, faults>>,
         exec' \in Executing, exec' = exec \/ (exec.by = Dead /\ exec'.by = Free),
         \A d \in Directions : \/ session'[d] = session[d]
                               \/ session[d].status = "NONE" /\ session'[d] = Fresh,
         session' \in [Directions -> Session]
  PROVE  SafeInv'
  <1>1. Fresh.status = "IDLE" /\ Acceptable(Fresh) /\ AtRest(Fresh)
    BY FreshRecord DEF AtRest
  <1>2. Typed'
    <2>1. TypeOK'
        <3>1. /\ exec'.by \in Requests \cup {Free, Dead}
              /\ exec'.phase \in {"none", "PREPARING", "APPLYING"}
            BY DEF Executing
        <3>2. /\ claim' \in [Directions -> Requests \cup {Free, Dead}]
              /\ DOMAIN mutated' = Proposals
            BY DEF SafeInv, Typed, TypeOK
        <3>3. \A d \in Directions : session'[d].status # "NONE" => Acceptable(session'[d])
            BY <1>1 DEF SafeInv, Typed, TypeOK
        <3> QED BY <3>1, <3>2, <3>3
            DEF TypeOK, Acceptable, HistoryValid, LastDecision, Last, Proven
    <2>2. \A q \in Requests : req'[q].pc # "idle" => req'[q].d \in Directions /\ req'[q].op # "none"
        BY DEF Same, SafeInv, Typed
    <2>3. \A q \in Requests : req'[q].op = "decide" => req'[q].decision \in {"REVISION_REQUESTED", "REJECTED"}
        BY DEF Same, SafeInv, Typed
    <2>4. mutated' \in [Proposals -> Nat] /\ faults' \in Nat
        BY DEF SafeInv, Typed
    <2> QED BY <2>1, <2>2, <2>3, <2>4 DEF Typed, Executing
  <1>3. Owns'
    BY DEF Same, SafeInv, Owns
  <1>4. ASSUME NEW q \in Requests PROVE Place(q)'
    <2>1. Same(q) /\ Place(q) /\ (req[q].pc # "idle" => req[q].d \in Directions)
        BY DEF SafeInv, Places, Typed
    <2>2. req[q].pc \in {"mirror", "apply"} => exec' = exec
        BY <2>1, SafeAssumption DEF Place
    <2>3. CASE req[q].pc \in Owning => session'[req[q].d] = session[req[q].d]
        BY <2>1, <2>2, <2>3, PlaceElsewhere
    <2>4. CASE req[q].pc \in Owning /\ session'[req[q].d] # session[req[q].d]
        <3>1. /\ req[q].d \in Directions
              /\ session[req[q].d].status = "NONE"
              /\ session'[req[q].d] = Fresh
            BY <2>1, <2>4 DEF Owning, Working
        <3>2. req[q].pc \notin Working
            BY <2>1, <3>1 DEF Place, Live
        <3>3. req[q].pc \in {"load", "return", "verify", "failed"}
            BY <2>4, <3>2 DEF Owning
        <3>4. /\ req'[q].pc = req[q].pc /\ req'[q].d = req[q].d /\ req'[q].cur = req[q].cur
              /\ req'[q].start = req[q].start
            BY <2>1 DEF Same
        <3>5. req[q].pc = "failed" =>
                /\ Recorded(req[q].d, req[q].cur)
                /\ LastDecision(req[q].cur) = "APPROVED" /\ req[q].cur.applied
                /\ ~req[q].cur.failed /\ HistoryValid(req[q].cur.history)
            BY <2>1 DEF Place, Judged
        <3> QED BY <1>1, <3>1, <3>3, <3>4, <3>5, Placing DEF Working, Returning, Judged
    <2> QED BY <2>3, <2>4
  <1>5. Alone'
    <2> SUFFICES ASSUME NEW q \in Requests, req'[q].pc \in Working
                 PROVE  /\ \A x \in Requests \ {q} : req'[x].pc \notin Working
                        /\ \A d \in Active' : d # req'[q].d => session'[d].status = "IDLE"
        BY DEF Alone
    <2>1. req[q].pc \in Working /\ req'[q].d = req[q].d
        BY DEF Same
    <2>2. \A x \in Requests \ {q} : req'[x].pc \notin Working
        BY <2>1 DEF Same, SafeInv, Alone
    <2>3. ASSUME NEW d \in Active', d # req[q].d PROVE session'[d].status = "IDLE"
        <3>1. d \in Directions
            BY <2>3 DEF Active
        <3>2. CASE session'[d] = session[d]
            <4>1. d \in Active
                BY <2>3, <3>1, <3>2 DEF Active
            <4> QED BY <2>1, <2>3, <3>2, <4>1 DEF SafeInv, Alone
        <3>3. CASE session'[d] = Fresh
            BY <1>1, <3>3
        <3> QED BY <3>1, <3>2, <3>3
    <2> QED BY <2>1, <2>2, <2>3
  <1>6. ExecOwner'
    BY SafeAssumption DEF Same, SafeInv, ExecOwner
  <1>7. Rests'
    <2> SUFFICES ASSUME faults' = 0, NEW d \in Directions
                 PROVE  claim'[d] # Dead /\ (claim'[d] = Free => AtRest(session'[d]))
        BY DEF Rests, AtRest, Proven, Last
    <2> QED BY <1>1 DEF SafeInv, Rests
  <1>8. Unstarted'
    BY <1>1 DEF SafeInv, Unstarted
  <1>9. AppliedOnce'
    <2>1. MutatedOnce'
        BY DEF SafeInv, AppliedOnce, MutatedOnce
    <2>2. AppliedIsRecorded'
        <3> SUFFICES ASSUME NEW d \in Directions, NEW i \in 1..MaxHistory, mutated[<<d, i>>] > 0
                     PROVE  i <= Len(session'[d].history) /\ session'[d].history[i].decision = "APPROVED"
            BY DEF AppliedIsRecorded
        <3>1. i <= Len(session[d].history) /\ session[d].history[i].decision = "APPROVED"
            BY DEF SafeInv, AppliedOnce, AppliedIsRecorded
        <3>2. session[d].status # "NONE"
            <4> SUFFICES ASSUME session[d].status = "NONE" PROVE FALSE
                OBVIOUS
            <4>1. session[d].history = <<>> /\ Len(<<>>) = 0
                BY EmptySeq DEF SafeInv, Unstarted
            <4> QED BY <3>1, <4>1, SafeAssumption
        <3> QED BY <3>1, <3>2
    <2> QED BY <2>1, <2>2 DEF AppliedOnce
  <1> QED BY <1>2, <1>3, <1>4, <1>5, <1>6, <1>7, <1>8, <1>9 DEF SafeInv, Places

\* These are edits, new sessions and cleared recoveries.
LEMMA AmbientSteps ==
  ASSUME SafeInv,
         ExternalEdit \/ \E d \in Directions : StartDirection(d) \/ ClearRecovery(d)
  PROVE  SafeInv'
  <1>1. /\ req \in [Requests -> Asked] /\ exec \in Executing
        /\ session \in [Directions -> Session]
    BY DEF SafeInv, Typed, TypeOK, Executing
  <1>2. NoExec \in Executing /\ NoExec.by = Free
    BY DEF NoExec, Executing
  <1>3. CASE ExternalEdit
    <2>1. req' = Edited /\ UNCHANGED <<session, claim, exec, mutated, faults>>
        BY <1>3 DEF ExternalEdit
    <2>2. req' \in [Requests -> Asked] /\ \A q \in Requests : Same(q)
        BY <2>1, EditedLeaves DEF Same
    <2> QED BY <1>1, <2>1, <2>2, AmbientInv
  <1>4. ASSUME NEW d \in Directions, StartDirection(d) PROVE SafeInv'
    <2>1. /\ session[d].status = "NONE" /\ session' = [session EXCEPT ![d] = Fresh]
          /\ UNCHANGED <<claim, exec, mutated, req, faults>>
        BY <1>4 DEF StartDirection
    <2>2. /\ session' \in [Directions -> Session]
          /\ \A x \in Directions : \/ session'[x] = session[x]
                                   \/ session[x].status = "NONE" /\ session'[x] = Fresh
        BY <1>1, <2>1, FreshRecord
    <2>3. \A q \in Requests : Same(q)
        BY <2>1 DEF Same
    <2> QED BY <1>1, <2>1, <2>2, <2>3, AmbientInv
  <1>5. ASSUME NEW d \in Directions, ClearRecovery(d) PROVE SafeInv'
    <2>1. exec.by = Dead /\ exec' = NoExec /\ UNCHANGED <<session, claim, mutated, req, faults>>
        BY <1>5 DEF ClearRecovery
    <2>2. \A q \in Requests : Same(q)
        BY <2>1 DEF Same
    <2> QED BY <1>1, <1>2, <2>1, <2>2, AmbientInv
  <1> QED BY <1>3, <1>4, <1>5

-----------------------------------------------------------------------------
(* The invariant and what follows from it.                                   *)

\* The invariant holds at first ...
LEMMA InitSafeInv == Init => SafeInv
  <1> SUFFICES ASSUME Init PROVE SafeInv
    OBVIOUS
  <1> DEFINE none == [Fresh EXCEPT !.status = "NONE"]
  <1>1. none \in Session /\ none.status = "NONE" /\ none.history = <<>>
    BY FreshRecord
  <1> HIDE DEF none
  <1>2. /\ session = [d \in Directions |-> none] /\ claim = [d \in Directions |-> Free]
        /\ exec = NoExec /\ mutated = [p \in Proposals |-> 0]
        /\ req = [r \in Requests |-> Idle] /\ faults = 0
    BY DEF Init, none
  <1>3. NoExec \in Executing /\ NoExec.by = Free
    BY DEF NoExec, Executing
  <1>4. Typed
    <2>1. TypeOK
        BY <1>1, <1>2, <1>3 DEF TypeOK, Executing
    <2>2. req \in [Requests -> Asked]
        BY <1>2, IdleAsked
    <2>3. \A r \in Requests : req[r].pc = "idle" /\ req[r].op = "none"
        BY <1>2, IdleAsked
    <2>4. mutated \in [Proposals -> Nat] /\ faults \in Nat
        BY <1>2
    <2> QED BY <1>2, <1>3, <2>1, <2>2, <2>3, <2>4 DEF Typed, Executing
  <1>5. \A r \in Requests : req[r].pc = "idle" /\ req[r].pc \notin Owning
    BY <1>2, IdleAsked DEF Owning, Working
  <1>6. Owns
    BY <1>2, <1>5, SafeAssumption DEF Owns
  <1>7. Places
    BY <1>5 DEF Places, Place, Working, Returning, Judged
  <1>8. Alone
    BY <1>5 DEF Alone, Owning
  <1>9. ExecOwner
    BY <1>2, <1>3, SafeAssumption DEF ExecOwner
  <1>10. Rests
    BY <1>1, <1>2, SafeAssumption DEF Rests, AtRest
  <1>11. Unstarted
    BY <1>1, <1>2 DEF Unstarted
  <1>12. AppliedOnce
    BY <1>2, ProposalPairs DEF AppliedOnce, MutatedOnce, AppliedIsRecorded
  <1> QED BY <1>4, <1>6, <1>7, <1>8, <1>9, <1>10, <1>11, <1>12 DEF SafeInv

\* ... every step of a request's operation keeps it ...
LEMMA StepSafeInv ==
  ASSUME SafeInv, NEW r \in Requests, Step(r)
  PROVE  SafeInv'
  <1>1. CASE TakeClaim(r)
    BY <1>1, TakeClaimInv
  <1>2. CASE Load(r)
    BY <1>2, LoadInv
  <1>3. CASE Hand(r)
    BY <1>3, HandInv
  <1>4. CASE Finish(r)
    BY <1>4, ReturnInv DEF Finish, At
  <1>5. CASE \/ Preparing(r) \/ Proposing(r) \/ RunProposal(r) \/ Waiting(r) \/ RollBack(r)
             \/ Decide(r) \/ Approve(r) \/ Execute(r) \/ Mirror(r) \/ Apply(r) \/ Edit(r)
             \/ Reconcile(r)
    <2>1. Acts(r)
        BY <1>5, PreparingActs, ProposingActs, RunProposalActs, WaitingActs, RollBackActs,
           DecideActs, ApproveActs, ExecuteActs, MirrorActs, ApplyActs, EditActs, ReconcileActs
    <2> QED BY <2>1, ActsInv
  <1>6. CASE \/ Run(r) \/ StartServer(r) \/ Capturing(r) \/ Capture(r) \/ VerifyRender(r)
             \/ Analyze(r) \/ Analyzed(r) \/ Complete(r) \/ Prove(r) \/ Again(r) \/ Fail(r)
    <2>1. Acts(r)
        BY <1>6, RunActs, StartServerActs, CapturingActs, CaptureActs, FreshRenderActs,
           StaleRenderActs, AnalyzeActs, AnalyzedActs, CompleteActs, ProveActs, AgainActs, FailActs
    <2> QED BY <2>1, ActsInv
  <1> QED BY <1>1, <1>2, <1>3, <1>4, <1>5, <1>6 DEF Step

\* ... and so does every step.
LEMMA NextSafeInv == SafeInv /\ [Next]_vars => SafeInv'
  <1> SUFFICES ASSUME SafeInv, [Next]_vars PROVE SafeInv'
    OBVIOUS
  <1>1. CASE UNCHANGED vars
    <2>1. /\ req \in [Requests -> Asked] /\ exec \in Executing
          /\ session \in [Directions -> Session]
        BY DEF SafeInv, Typed, TypeOK, Executing
    <2>2. UNCHANGED <<session, claim, exec, mutated, req, faults>>
        BY <1>1 DEF vars
    <2>3. \A q \in Requests : Same(q)
        BY <2>2 DEF Same
    <2> QED BY <2>1, <2>2, <2>3, AmbientInv
  <1>2. CASE ExternalEdit \/ \E d \in Directions : StartDirection(d) \/ ClearRecovery(d)
    BY <1>2, AmbientSteps
  <1>3. ASSUME NEW r \in Requests, Ask(r) \/ Step(r) \/ Die(r) PROVE SafeInv'
    BY <1>3, AskInv, StepSafeInv, DieInv
  <1> QED BY <1>1, <1>2, <1>3 DEF Next

\* The invariant holds for any number of directions and requests, and whatever
\* dies or is not saved.
THEOREM SafeInvariant == Spec => []SafeInv
  <1> QED BY InitSafeInv, NextSafeInv, PTL DEF Spec

\* Every session on disk is one the store accepts (isSafeExecutionSession).
THEOREM TypeCorrect == Spec => []TypeOK
  <1>1. SafeInv => TypeOK
    BY DEF SafeInv, Typed
  <1> QED BY <1>1, SafeInvariant, PTL

\* No retry, recovery or lost answer applies an approved proposal twice, and
\* what was applied stays recorded as approved (approveAndExecuteSafeProposal,
\* recoverInterruptedSafeExecution).
THEOREM OneApplication == Spec => []AppliedOnce
  <1>1. SafeInv => AppliedOnce
    BY DEF SafeInv
  <1> QED BY <1>1, SafeInvariant, PTL

\* While one direction is rendered and judged, no other is being applied
\* (loadSafeExecutionState selects the only unfinished session).
THEOREM Undisturbed == Spec => []VerificationUndisturbed
  <1>1. SafeInv => VerificationUndisturbed
    <2> SUFFICES ASSUME SafeInv, NEW d \in Directions, session[d].status \in Verifying,
                        NEW r \in Requests, req[r].pc \in {"mirror", "apply"}
                 PROVE  FALSE
        BY DEF VerificationUndisturbed
    <2>1. req[r].pc \in Working
        BY DEF Working
    <2>2. session[req[r].d].status = "APPROVED"
        BY <2>1 DEF SafeInv, Places, Place
    <2>3. d # req[r].d /\ d \in Active
        BY <2>2 DEF Active, Verifying, Terminal
    <2>4. session[d].status = "IDLE"
        BY <2>1, <2>3 DEF SafeInv, Alone
    <2> QED BY <2>4 DEF Verifying
  <1> QED BY <1>1, SafeInvariant, PTL

\* Without deaths and failing saves no error strands a session: the failure
\* paths of every operation leave one that can be worked on.
THEOREM NeverStranded == Spec => []Operable
  <1>1. SafeInv => Operable
    <2> SUFFICES ASSUME SafeInv, faults = 0, NEW d \in Directions, claim[d] = Free, Selected(d)
                 PROVE  \/ session[d].status \in {"IDLE", "REVISING", "WAITING_APPROVAL"}
                        \/ session[d].status = "PROPOSING" /\ Proven(session[d])
                        \/ session[d].status = "EDITING"
        BY DEF Operable
    <2>1. AtRest(session[d])
        BY DEF SafeInv, Rests
    <2>2. /\ session[d].status \notin Terminal \cup {"NONE"}
          /\ ~(session[d].status = "APPROVED" /\ session[d].failed)
        BY DEF Selected, Active
    <2> QED BY <2>1, <2>2 DEF AtRest
  <1> QED BY <1>1, SafeInvariant, PTL
=============================================================================
