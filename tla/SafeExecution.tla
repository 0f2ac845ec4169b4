---------------------------- MODULE SafeExecution ----------------------------
(* Safe Mode, packages/project-adapters/src/safe-execution-store.ts and the  *)
(* execute routes of the studio: an approved design direction is an          *)
(* execution session; an agent proposes a change, a human decides on it, the *)
(* approved change is applied to the worktree and verified on a fresh        *)
(* render.  Every operation holds the session's safe-execution claim; each   *)
(* step here is one durable checkpoint or one call.  A checkpoint is saved   *)
(* by the protocol of SessionJournal: it may fail, with or without being     *)
(* committed.  The executor is the one of MutationTransaction, reduced to    *)
(* its execution claim and its outcome.                                      *)
EXTENDS Naturals, Sequences, FiniteSets

CONSTANTS
  Directions,   \* approved design directions, an execution session each
  Requests,     \* requests, each served by a process of its own
  Free, Dead,   \* no claim; the claim of a process that died
  MaxHistory,   \* proposals in one session's history (16 in the code)
  MaxFaults     \* bound on deaths of a process and failing saves, together

ASSUME SafeAssumption ==
  /\ Free # Dead
  /\ {Free, Dead} \cap Requests = {}
  /\ MaxHistory \in Nat \ {0}
  /\ MaxFaults \in Nat

VARIABLES
  session,   \* the durable execution sessions
  claim,     \* .<id>.safe-execution.claim
  exec,      \* the executor's claim on the worktree
  spent,     \* proposals with a recovery marker
  mutated,   \* how often the executor changed the worktree for a proposal
  req,       \* what each request is doing
  faults     \* deaths of a process and failing saves so far

vars == <<session, claim, exec, spent, mutated, req, faults>>

Terminal == {"COMPLETE", "FAILED", "REJECTED"}
Verifying == {"RUNNING", "CAPTURING", "VERIFYING"}
Statuses == Terminal \cup Verifying \cup
  {"NONE", "IDLE", "PREPARING", "PROPOSING", "WAITING_APPROVAL", "APPROVED", "REVISING", "EDITING"}
Decisions == {"none", "REVISION_REQUESTED", "REJECTED", "APPROVED"}
Proposals == Directions \X (1..MaxHistory)

Entry == [decision : Decisions, proof : BOOLEAN]
Session == [status : Statuses, history : UNION {[1..n -> Entry] : n \in 0..MaxHistory},
            failed : BOOLEAN, applied : BOOLEAN, render : BOOLEAN,
            analysis : {"none", "pass", "fail"}]
Fresh == [status |-> "IDLE", history |-> <<>>, failed |-> FALSE,
          applied |-> FALSE, render |-> FALSE, analysis |-> "none"]

NoExec == [by |-> Free, proposal |-> <<>>, phase |-> "none"]
Idle == [pc |-> "idle", op |-> "none", d |-> "none", start |-> Fresh, cur |-> Fresh,
         decision |-> "none", stale |-> FALSE]

Init ==
  /\ session = [d \in Directions |-> [Fresh EXCEPT !.status = "NONE"]]
  /\ claim = [d \in Directions |-> Free]
  /\ exec = NoExec
  /\ spent = {}
  /\ mutated = [p \in Proposals |-> 0]
  /\ req = [r \in Requests |-> Idle]
  /\ faults = 0

-----------------------------------------------------------------------------
(* What the store accepts.                                                   *)

Last(s) == s.history[Len(s.history)]
Proven(s) == s.history # <<>> /\ Last(s).proof
LastDecision(s) == IF s.history = <<>> THEN "empty" ELSE Last(s).decision

\* isProposalHistory: only a revision, or an approval whose render failed
\* verification, is followed by another proposal.
HistoryValid(h) ==
  /\ Len(h) <= MaxHistory
  /\ \A i \in 1..Len(h) : h[i].proof => h[i].decision = "APPROVED"
  /\ \A i \in 1..Len(h) - 1 : h[i].decision = "REVISION_REQUESTED" \/ h[i].proof

\* isSafeExecutionSession: the status against the last decision and evidence.
Acceptable(s) ==
  /\ HistoryValid(s.history)
  /\ s.status \in {"IDLE", "PREPARING"} => s.history = <<>>
  /\ s.status = "PROPOSING" =>
       LastDecision(s) \in {"empty", "REVISION_REQUESTED"} \/ Proven(s)
  /\ s.status = "WAITING_APPROVAL" => LastDecision(s) = "none"
  /\ s.status = "REVISING" => LastDecision(s) = "REVISION_REQUESTED"
  /\ s.status = "REJECTED" => LastDecision(s) = "REJECTED"
  /\ s.status \in Verifying \cup {"APPROVED", "EDITING", "COMPLETE", "FAILED"} =>
       LastDecision(s) = "APPROVED"
  /\ s.failed => s.status = "APPROVED"
  /\ s.status \in Verifying \cup {"EDITING", "COMPLETE", "FAILED"} => s.applied
  /\ s.status \in {"RUNNING", "CAPTURING"} => ~s.render /\ s.analysis = "none"
  /\ s.status \in {"VERIFYING", "COMPLETE"} => s.render
  /\ s.status = "COMPLETE" => s.analysis = "pass"

\* loadSafeExecutionState selects the unfinished session, and throws when
\* there are several.
Active == {d \in Directions :
             /\ session[d].status \notin Terminal \cup {"NONE"}
             /\ ~(session[d].status = "APPROVED" /\ session[d].failed)}
\* Mutant of Selected: any unfinished session of the project is taken.
SelectedAny(d) == d \in Active

Selected(d) == Active = {d}

\* The executor takes its proposal to be the last of the session.
Proposal(d, s) == <<d, Len(s.history)>>

-----------------------------------------------------------------------------
(* Durable steps.                                                            *)

At(r, pc) == req[r].pc = pc
D(r) == req[r].d

\* A request's operation is over: its claim goes with it.
Return(r) == /\ claim' = [d \in Directions |-> IF claim[d] = r THEN Free ELSE claim[d]]
             /\ req' = [req EXCEPT ![r] = Idle]

\* Mutant of Saves: the writer accepts anything.
SavesUnchecked(r, new) == session' = [session EXCEPT ![D(r)] = new] /\ UNCHANGED faults

\* Save checkpoint new; the writer refuses an unacceptable one.
Saves(r, new) == Acceptable(new) /\ session' = [session EXCEPT ![D(r)] = new] /\ UNCHANGED faults
Refuses(r, new) ==
  \/ ~Acceptable(new) /\ UNCHANGED <<session, faults>>
  \/ /\ Acceptable(new) /\ faults < MaxFaults
     /\ faults' = faults + 1
     /\ session' \in {session, [session EXCEPT ![D(r)] = new]}

Begin(r, op, d, decision) ==
  /\ At(r, "idle")
  /\ req' = [req EXCEPT ![r] = [Idle EXCEPT !.pc = "claim", !.op = op, !.d = d,
                                            !.decision = decision]]
  /\ UNCHANGED <<session, claim, exec, spent, mutated, faults>>

\* A second approval is not stopped by an unfinished direction.
StartDirection(d) ==
  /\ session[d].status = "NONE"
  /\ session' = [session EXCEPT ![d] = Fresh]
  /\ UNCHANGED <<claim, exec, spent, mutated, req, faults>>

\* The routes look at the session before they ask for the claim.
Ask(r) ==
  \E d \in Active :
    \/ session[d].status \in {"IDLE", "REVISING", "PROPOSING"} /\ Begin(r, "prepare", d, "none")
    \/ /\ session[d].status = "WAITING_APPROVAL"
       /\ \/ Begin(r, "approve", d, "APPROVED")
          \/ \E c \in {"REVISION_REQUESTED", "REJECTED"} : Begin(r, "decide", d, c)
    \/ /\ session[d].status = "APPROVED"
       /\ exec.by = Dead /\ exec.phase = "APPLYING" /\ exec.proposal = Proposal(d, session[d])
       /\ Begin(r, "recover", d, "none")

\* withLearnTransitionClaim: a claim whose owner died is taken over.
TakeClaim(r) ==
  /\ At(r, "claim")
  /\ IF claim[D(r)] \in {Free, Dead}
     THEN /\ claim' = [claim EXCEPT ![D(r)] = r]
          /\ req' = [req EXCEPT ![r].pc = "load"]
     ELSE Return(r)
  /\ UNCHANGED <<session, exec, spent, mutated, faults>>

Ready(r, s) ==
  CASE req[r].op = "prepare" -> s.status \in {"IDLE", "REVISING"} \/ (s.status = "PROPOSING" /\ Proven(s))
    [] req[r].op \in {"approve", "decide"} -> s.status = "WAITING_APPROVAL"
    [] req[r].op = "recover" -> s.status = "APPROVED" /\ ~s.failed /\ exec.by = Dead
                                /\ exec.proposal = Proposal(D(r), s)
    [] req[r].op = "verify" -> s.status = "EDITING"

FirstStep(r, s) ==
  CASE req[r].op = "prepare" ->
         IF s.status = "IDLE" THEN "preparing"
         ELSE IF s.status = "REVISING" /\ Len(s.history) >= MaxHistory THEN "rollback"
         ELSE "proposing"
    [] req[r].op = "approve" -> "approved"
    [] req[r].op = "decide" -> "decided"
    [] req[r].op = "recover" -> "reconcile"
    [] req[r].op = "verify" -> "running"

\* loadSafeExecutionState under the claim.
Load(r) ==
  LET s == session[D(r)]
  IN  /\ At(r, "load")
      /\ IF Selected(D(r)) /\ Ready(r, s)
         THEN req' = [req EXCEPT ![r].pc = FirstStep(r, s), ![r].start = s, ![r].cur = s]
              /\ UNCHANGED claim
         ELSE Return(r)
      /\ UNCHANGED <<session, exec, spent, mutated, faults>>

\* One checkpoint: go on with it, or with the failure path.
Checkpoint(r, pc, new, next, fail) ==
  /\ At(r, pc)
  /\ \/ Saves(r, new) /\ req' = [req EXCEPT ![r].pc = next, ![r].cur = new]
     \/ Refuses(r, new) /\ req' = [req EXCEPT ![r].pc = fail]
  /\ UNCHANGED <<claim, exec, spent, mutated>>

\* The same for a verification, whose failure path builds on the new record.
VerificationCheckpoint(r, pc, new, next) ==
  /\ At(r, pc)
  /\ \/ Saves(r, new) /\ req' = [req EXCEPT ![r].pc = next, ![r].cur = new]
     \/ Refuses(r, new) /\ req' = [req EXCEPT ![r].pc = "failed", ![r].cur = new]
  /\ UNCHANGED <<claim, exec, spent, mutated>>

-----------------------------------------------------------------------------
(* prepareSafeExecutionProposal                                              *)

With(s, status) == [s EXCEPT !.status = status]

Preparing(r) == Checkpoint(r, "preparing", With(req[r].cur, "PREPARING"), "proposing", "rollback")
Proposing(r) == Checkpoint(r, "proposing", With(req[r].cur, "PROPOSING"), "agent", "rollback")

\* What a turn of the agent comes back with: a proposal that passes the wire
\* checks or not, on the thread of the earlier proposals or on another.
Turns == [valid : BOOLEAN, continues : BOOLEAN]

\* generateChangeProposal: the first proposal opens a thread, later ones must
\* continue it.
Usable(turn, s) == turn.valid /\ (s.history # <<>> => turn.continues)

\* Mutant of RunProposal: a failed turn leaves the session as it is.
RunProposalOrReturn(r) ==
  /\ At(r, "agent")
  /\ \E turn \in Turns :
       req' = [req EXCEPT ![r].pc = IF Usable(turn, req[r].cur) THEN "waiting" ELSE "return"]
  /\ UNCHANGED <<session, claim, exec, spent, mutated, faults>>

\* The agent proposes, or the turn fails.
RunProposal(r) ==
  /\ At(r, "agent")
  /\ \E turn \in Turns :
       req' = [req EXCEPT ![r].pc = IF Usable(turn, req[r].cur) THEN "waiting" ELSE "rollback"]
  /\ UNCHANGED <<session, claim, exec, spent, mutated, faults>>

Proposed(s) ==
  [With(s, "WAITING_APPROVAL") EXCEPT
     !.history = Append(@, [decision |-> "none", proof |-> FALSE]),
     !.applied = FALSE, !.render = FALSE, !.analysis = "none"]

Waiting(r) == Checkpoint(r, "waiting", Proposed(req[r].cur), "return", "rollback")

\* Any failure saves the record the operation started from.
RollBack(r) == Checkpoint(r, "rollback", req[r].start, "return", "return")

(* decideSafeExecutionProposal                                               *)

DecidedBy(s, decision) == [s EXCEPT !.history[Len(s.history)].decision = decision]

Decide(r) ==
  LET status == IF req[r].decision = "REJECTED" THEN "REJECTED" ELSE "REVISING"
  IN  Checkpoint(r, "decided", DecidedBy(With(req[r].cur, status), req[r].decision), "return", "return")

-----------------------------------------------------------------------------
(* approveAndExecuteSafeProposal                                             *)

Approve(r) ==
  Checkpoint(r, "approved", DecidedBy(With(req[r].cur, "APPROVED"), "APPROVED"), "execute", "return")

\* A change of the worktree makes every render that is being judged stale.
Judging(r) == req[r].pc \in {"verifying", "analyze"}
Edited == [r \in Requests |-> [req[r] EXCEPT !.stale = @ \/ Judging(r)]]

\* acquireExecutionClaim: an abandoned preparation is displaced, an abandoned
\* mutation is not, and a recovered proposal is refused.
Execute(r) ==
  LET p == Proposal(D(r), req[r].cur)
  IN  /\ At(r, "execute")
      /\ IF p \notin spent /\ (exec.by = Free \/ (exec.by = Dead /\ exec.phase = "PREPARING"))
         THEN /\ exec' = [by |-> r, proposal |-> p, phase |-> "PREPARING"]
              /\ req' = [req EXCEPT ![r].pc = "mirror"]
         ELSE req' = [req EXCEPT ![r].pc = "rollback"] /\ UNCHANGED exec
      /\ UNCHANGED <<session, claim, spent, mutated, faults>>

\* The mutation turn in the mirror ends without any change of the target, or
\* the claim says APPLYING before the first write.
Mirror(r) ==
  /\ At(r, "mirror")
  /\ \/ exec' = NoExec /\ req' = [req EXCEPT ![r].pc = "rollback"]
     \/ exec' = [exec EXCEPT !.phase = "APPLYING"] /\ req' = [req EXCEPT ![r].pc = "apply"]
  /\ UNCHANGED <<session, claim, spent, mutated, faults>>

\* Mutant of Apply: an error of the executor is taken for "nothing happened".
ApplyTrusting(r) ==
  LET p == exec.proposal
      change == mutated' = [mutated EXCEPT ![p] = @ + 1]
      same == UNCHANGED mutated
  IN  /\ At(r, "apply")
      /\ \/ change /\ exec' = NoExec /\ req' = [Edited EXCEPT ![r].pc = "editing"]
         \/ /\ change \/ same
            /\ exec' = [exec EXCEPT !.by = Dead]
            /\ req' = [Edited EXCEPT ![r].pc = "rollback"]
      /\ UNCHANGED <<session, claim, spent, faults>>

\* Applied; or fully rolled back; or in doubt, the target changed or not, and
\* then the claim stays behind without an owner.
Apply(r) ==
  LET p == exec.proposal
      change == mutated' = [mutated EXCEPT ![p] = @ + 1]
      same == UNCHANGED mutated
  IN  /\ At(r, "apply")
      /\ \/ change /\ exec' = NoExec /\ req' = [Edited EXCEPT ![r].pc = "editing"]
         \/ same /\ exec' = NoExec /\ req' = [req EXCEPT ![r].pc = "rollback"]
         \/ /\ change \/ same
            /\ exec' = [exec EXCEPT !.by = Dead]
            /\ req' = [Edited EXCEPT ![r].pc = "reconcile"]
      /\ UNCHANGED <<session, claim, spent, faults>>

\* Mutant of Edit: a failed checkpoint puts the undecided record back.
EditOrUndo(r) ==
  Checkpoint(r, "editing", [With(req[r].cur, "EDITING") EXCEPT !.applied = TRUE], "verify", "rollback")

\* Once the executor returned, the approval stays whatever fails.
Edit(r) ==
  Checkpoint(r, "editing", [With(req[r].cur, "EDITING") EXCEPT !.applied = TRUE], "verify", "reconcile")

\* persistReconciliationCheckpoint, also what recoverInterruptedSafeExecution saves.
Unresolved(s) == [s EXCEPT !.failed = TRUE]
Reconcile(r) == Checkpoint(r, "reconcile", Unresolved(req[r].cur), "return", "return")

\* The recovery route: a human confirms the files of an abandoned mutation.
ClearRecovery(d) ==
  /\ session[d].status = "APPROVED" /\ session[d].failed
  /\ exec.by = Dead /\ exec.proposal = Proposal(d, session[d])
  /\ spent' = spent \cup {exec.proposal}
  /\ exec' = NoExec
  /\ UNCHANGED <<session, claim, mutated, req, faults>>

-----------------------------------------------------------------------------
(* verifySafeExecution, called by the approve route after it gave its claim  *)
(* back.                                                                     *)

Hand(r) ==
  /\ At(r, "verify")
  /\ claim' = [claim EXCEPT ![D(r)] = Free]
  /\ req' = [req EXCEPT ![r] = [Idle EXCEPT !.pc = "claim", !.op = "verify", !.d = D(r)]]
  /\ UNCHANGED <<session, exec, spent, mutated, faults>>

Run(r) == VerificationCheckpoint(r, "running", With(req[r].cur, "RUNNING"), "run")

\* The development server starts, or not.
StartServer(r) ==
  /\ At(r, "run")
  /\ \E pc \in {"capturing", "failed"} : req' = [req EXCEPT ![r].pc = pc]
  /\ UNCHANGED <<session, claim, exec, spent, mutated, faults>>

Capturing(r) ==
  VerificationCheckpoint(r, "capturing", With(req[r].cur, "CAPTURING"), "capture")

\* The image, its metadata and its digest are created together; when one of
\* them cannot be, the others are removed and no render is recorded.
Rendered(s) == [s EXCEPT !.render = TRUE]

\* The render records the source it was made from.
Capture(r) ==
  /\ At(r, "capture")
  /\ \/ req' = [req EXCEPT ![r].pc = "verifying", ![r].cur = Rendered(@), ![r].stale = FALSE]
     \/ req' = [req EXCEPT ![r].pc = "failed"]
  /\ UNCHANGED <<session, claim, exec, spent, mutated, faults>>

\* currentSourceFingerprint still names the captured source.
Unchanged(r) == ~req[r].stale

VerifyRender(r) ==
  IF Unchanged(r)
  THEN VerificationCheckpoint(r, "verifying", With(req[r].cur, "VERIFYING"), "analyze")
  ELSE /\ At(r, "verifying")
       /\ req' = [req EXCEPT ![r].pc = "failed", ![r].cur.render = FALSE]
       /\ UNCHANGED <<session, claim, exec, spent, mutated, faults>>

Analyze(r) ==
  /\ At(r, "analyze")
  /\ \/ \E a \in {"pass", "fail"} :
          Unchanged(r) /\ req' = [req EXCEPT ![r].pc = "analyzed", ![r].cur.analysis = a]
     \/ req' = [req EXCEPT ![r].pc = "failed"]
  /\ UNCHANGED <<session, claim, exec, spent, mutated, faults>>

Analyzed(r) ==
  VerificationCheckpoint(r, "analyzed", req[r].cur,
                         IF req[r].cur.analysis = "pass" THEN "complete" ELSE "prove")

Complete(r) ==
  VerificationCheckpoint(r, "complete", With(req[r].cur, "COMPLETE"), "return")

\* A failed verification is kept with its proposal, and another one is due.
Prove(r) ==
  VerificationCheckpoint(r, "prove",
    [req[r].cur EXCEPT !.history[Len(req[r].cur.history)].proof = TRUE], "again")
Again(r) == Checkpoint(r, "again", With(req[r].cur, "PROPOSING"), "return", "failed")

Fail(r) == Checkpoint(r, "failed", With(req[r].cur, "FAILED"), "return", "return")

-----------------------------------------------------------------------------
Finish(r) ==
  /\ At(r, "return")
  /\ Return(r)
  /\ UNCHANGED <<session, exec, spent, mutated, faults>>

\* Somebody edits the worktree.
ExternalEdit ==
  /\ req' = Edited
  /\ req' # req
  /\ UNCHANGED <<session, claim, exec, spent, mutated, faults>>

\* The process of a request dies; a mutation under way may have changed files.
Die(r) ==
  /\ faults < MaxFaults
  /\ ~At(r, "idle")
  /\ faults' = faults + 1
  /\ claim' = [d \in Directions |-> IF claim[d] = r THEN Dead ELSE claim[d]]
  /\ exec' = IF exec.by = r THEN [exec EXCEPT !.by = Dead] ELSE exec
  /\ \/ UNCHANGED mutated /\ req' = [req EXCEPT ![r] = Idle]
     \/ /\ At(r, "apply")
        /\ mutated' = [mutated EXCEPT ![exec.proposal] = @ + 1]
        /\ req' = [Edited EXCEPT ![r] = Idle]
  /\ UNCHANGED <<session, spent>>

Step(r) ==
  \/ TakeClaim(r) \/ Load(r) \/ Preparing(r) \/ Proposing(r) \/ RunProposal(r)
  \/ Waiting(r) \/ RollBack(r) \/ Decide(r) \/ Approve(r) \/ Execute(r)
  \/ Mirror(r) \/ Apply(r) \/ Edit(r) \/ Reconcile(r) \/ Hand(r) \/ Run(r)
  \/ StartServer(r) \/ Capturing(r) \/ Capture(r) \/ VerifyRender(r)
  \/ Analyze(r) \/ Analyzed(r) \/ Complete(r) \/ Prove(r) \/ Again(r)
  \/ Fail(r) \/ Finish(r)

Next ==
  \/ \E d \in Directions : StartDirection(d) \/ ClearRecovery(d)
  \/ \E r \in Requests : Ask(r) \/ Step(r) \/ Die(r)
  \/ ExternalEdit

Spec == Init /\ [][Next]_vars

-----------------------------------------------------------------------------
(* Properties.                                                               *)

\* Sessions keep their shape and what the store demands of them.
TypeOK ==
  /\ session \in [Directions -> Session]
  /\ \A d \in Directions : session[d].status # "NONE" => Acceptable(session[d])
  /\ claim \in [Directions -> Requests \cup {Free, Dead}]
  /\ exec.by \in Requests \cup {Free, Dead}
  /\ exec.phase \in {"none", "PREPARING", "APPLYING"}
  /\ DOMAIN mutated = Proposals

\* No retry, recovery or lost answer applies one approved proposal twice.
MutatedOnce == \A p \in Proposals : mutated[p] <= 1

\* A proposal that changed the worktree stays recorded as approved, whatever
\* failed afterwards: a later reader can never take it for undecided.
AppliedIsRecorded ==
  \A d \in Directions : \A i \in 1..MaxHistory :
    mutated[<<d, i>>] > 0 =>
      i <= Len(session[d].history) /\ session[d].history[i].decision = "APPROVED"

\* One approval is worth one mutation, and a mutation is never forgotten.
AppliedOnce == MutatedOnce /\ AppliedIsRecorded

\* While one direction's mutation is rendered and judged, no other direction's
\* mutation is being made.
VerificationUndisturbed ==
  \A d \in Directions : session[d].status \in Verifying =>
    ~\E r \in Requests : req[r].pc \in {"mirror", "apply"}

\* Without deaths and failing saves, a session nobody works on can be worked
\* on: no error of the agent, the executor or the renderer strands it.  (An
\* applied mutation is only rendered if the approve route gets the claim back.)
Operable ==
  faults = 0 =>
    \A d \in Directions :
      claim[d] = Free /\ Selected(d) =>
        \/ session[d].status \in {"IDLE", "REVISING", "WAITING_APPROVAL"}
        \/ session[d].status = "PROPOSING" /\ Proven(session[d])
        \/ session[d].status = "EDITING"
=============================================================================
