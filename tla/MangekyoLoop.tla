----------------------------- MODULE MangekyoLoop -----------------------------
(***************************************************************************)
(* One Mangekyo visual loop: the durable session, the action claims that   *)
(* serialise Stop, Human Gate decisions and terminal commits, the worker   *)
(* that drives the rounds, the gate decision and Stop handlers, and the    *)
(* crash of the server process between any two steps.                      *)
(*                                                                         *)
(* The worker lease is abstracted here to who holds it: WorkerLease.tla    *)
(* models how it is taken, renewed and taken over.  Every durable write of *)
(* the session goes through Checkpoint, whose guard Valid is the store's   *)
(* own acceptance predicate: a checkpoint the store refuses fails the      *)
(* worker's owner for good and leaves its lease to expire.                 *)
(*                                                                         *)
(* Time: successive checkpoints carry distinct millisecond stamps, so the  *)
(* number of checkpoints stands for `updatedAt`; an evidence stamp is the  *)
(* version of the checkpoint that first records it.                        *)
(***************************************************************************)
EXTENDS Naturals, FiniteSets

CONSTANTS
  MaxRounds,   \* session.maxRounds (5 in the code)
  Changes,     \* what the policy may say of a proposed change, see Change
  Stoppers,    \* clients that may press Stop, each at most once
  MaxFaults    \* bound on server crashes and failures of a worker's owner

(* A proposed change is ALLOWed by the policy, or it needs a Human Gate;   *)
(* EXPANDABLE changes would be allowed by the policy Expand Scope writes,  *)
(* PROTECTED ones (protected path, too many files) would not.              *)
Change == {"ALLOW", "EXPANDABLE", "PROTECTED"}

ASSUME LoopAssumption ==
  /\ MaxRounds \in Nat \ {0}
  /\ Changes \subseteq Change
  /\ MaxFaults \in Nat

Mutating  == {"EDITING", "RUNNING", "CAPTURING", "COMPARING"}
Terminal  == {"COMPLETE", "BLOCKED", "FAILED"}
Status    == {"IDLE", "PREPARING", "POLICY_CHECK", "DECIDING", "FIXING",
              "HUMAN_GATE"} \cup Mutating \cup Terminal
Decisions == {"REJECT", "APPROVE_ONCE", "EXPAND_SCOPE"}

(* The parts of MangekyoLoopSession the store's relations tell apart.  Of  *)
(* the policy evaluations, gates and decisions only the latest can be      *)
(* unresolved, so the latest of each is kept.                              *)
Sessions ==
  [status: Status, version: Nat,
   rounds: Nat,                                 \* completed rounds
   pass: BOOLEAN, fresh: BOOLEAN,               \* evidence of the last one
   eval: Change \cup {"NONE"}, evalRound: Nat, evaluatedAt: Nat,
   pending: BOOLEAN,                            \* pendingChange recorded
   gate: {"NONE", "OPEN", "DECIDED"}, gateRound: Nat, requestedAt: Nat,
   gateChange: Change \cup {"NONE"},
   decision: Decisions \cup {"NONE"}, createdAt: Nat,
   stopped: BOOLEAN, stopVersion: Nat, stopAt: Nat,
   reconcile: BOOLEAN]                          \* mutationFailure

(* A durable Stop request: the session version it claims and the version   *)
(* that was durable at its `requestedAt`.                                  *)
StopRequests == [by: Stoppers, version: Nat, at: Nat]

PC == {"NONE", "ENTRY", "LOOP", "PROPOSE", "CHECKED", "EXECUTE", "EDITING",
       "MUTATE", "APPLIED", "RUNNING", "CAPTURING", "COMPARING", "FINALIZE",
       "COMMIT", "COMMITTING", "CATCH", "CLOSE", "RELEASE",
       "CLAIM_GATE", "DECIDE", "REEVALUATE"}

VARIABLES
  (* files under .design-sharingan *)
  session, stops, gateClaims, terminalClaims, consumed, activeClaim, lease,
  (* memory of the server process *)
  pc, mode, choice, stopPc, seen,
  (* the project's worktree against the last mutation's source revision *)
  drift,
  (* observation only: mutations applied per round, and the versions a PASS *)
  (* and a gate decision were committed from                                *)
  applied, passedFrom, decidedFrom,
  faults

claims   == <<stops, gateClaims, terminalClaims>>
stopVars == <<stopPc, seen>>
observed == <<applied, passedFrom, decidedFrom>>
vars     == <<session, claims, consumed, activeClaim, lease, pc, mode, choice,
              stopVars, drift, observed, faults>>

-----------------------------------------------------------------------------
(* What the store accepts: isMangekyoLoopSession, semanticSessionRelations *)

Round(s) == s.rounds + 1

(* The latest policy evaluation is the one its gate was opened for.        *)
GateOfLatest(s) ==
  /\ s.gate # "NONE" /\ s.gateRound = s.evalRound
  /\ s.eval \in Change \ {"ALLOW"} /\ s.gateChange = s.eval

(* Every gate has one decision, except the current gate and the last gate  *)
(* of a session a later Stop blocked, which must have none.                *)
GatesResolved(s) ==
  LET stoppedHere == s.status = "BLOCKED" /\ s.stopped /\ s.stopAt >= s.requestedAt
  IN  s.gate # "NONE" =>
        (s.gate = "OPEN" <=> s.status = "HUMAN_GATE" \/ stoppedHere)

EditingLinked(s) ==
  s.status \in Mutating =>
    /\ s.evalRound = Round(s)
    /\ \/ s.eval = "ALLOW" /\ s.pending
       \/ /\ GateOfLatest(s)
          /\ s.decision \in {"APPROVE_ONCE", "EXPAND_SCOPE"}

DecisionLinked(s) ==
  LET exactPending == GateOfLatest(s) /\ s.gateRound = Round(s)
      completed    == s.rounds >= s.gateRound
      stopPending  == /\ exactPending /\ s.status = "BLOCKED" /\ s.stopped
                      /\ s.stopVersion >= s.createdAt
      reauthorized == \/ completed
                      \/ s.eval = "ALLOW" /\ s.evalRound = s.gateRound
  IN  /\ s.decision = "REJECT" => s.status = "BLOCKED"
      /\ s.decision = "APPROVE_ONCE" =>
           \/ completed \/ s.status = "FAILED" \/ stopPending
           \/ exactPending /\ s.status \in Mutating
      /\ s.decision = "EXPAND_SCOPE" =>
           /\ s.gateChange = "EXPANDABLE"
           /\ \/ reauthorized \/ stopPending
              \/ /\ exactPending /\ s.status = "EDITING"
                 /\ s.version = s.createdAt

EvaluationLinked(s) ==
  \/ s.eval = "NONE"
  \/ GateOfLatest(s)
  \/ s.rounds >= s.evalRound
  \/ /\ s.evalRound = Round(s)
     /\ \/ s.status \in Mutating \cup {"POLICY_CHECK", "FAILED"}
        \/ /\ s.status = "BLOCKED" /\ s.stopped
           /\ s.evaluatedAt <= s.stopVersion

RoundsLinked(s) ==
  /\ s.rounds > 0 => s.fresh
  /\ s.rounds <= MaxRounds
  /\ s.status = "COMPLETE" => s.rounds > 0 /\ s.pass

Valid(s) ==
  /\ s.status = "HUMAN_GATE" => s.gate = "OPEN"
  /\ s.stopped => s.status = "BLOCKED"
  /\ s.reconcile => s.status = "FAILED"
  /\ GatesResolved(s)
  /\ EditingLinked(s)
  /\ DecisionLinked(s)
  /\ EvaluationLinked(s)
  /\ RoundsLinked(s)

-----------------------------------------------------------------------------
Init ==
  /\ session = [status |-> "IDLE", version |-> 1, rounds |-> 0, pass |-> FALSE,
                fresh |-> FALSE, eval |-> "NONE", evalRound |-> 0,
                evaluatedAt |-> 0, pending |-> FALSE, gate |-> "NONE",
                gateRound |-> 0, requestedAt |-> 0, gateChange |-> "NONE",
                decision |-> "NONE", createdAt |-> 0, stopped |-> FALSE,
                stopVersion |-> 0, stopAt |-> 0, reconcile |-> FALSE]
  /\ stops = {} /\ gateClaims = {} /\ terminalClaims = {} /\ consumed = {}
  /\ activeClaim = TRUE /\ lease = "FREE"
  /\ pc = "NONE" /\ mode = "RUN" /\ choice = "NONE"
  /\ stopPc = [p \in Stoppers |-> "idle"]
  /\ seen = [p \in Stoppers |-> [version |-> 0, at |-> 0, confirmed |-> 0]]
  /\ drift = FALSE
  /\ applied = [r \in 1 .. MaxRounds |-> 0]
  /\ passedFrom = 0 /\ decidedFrom = 0 /\ faults = 0

(* The action claim files of a version: at most one of any kind.           *)
Claimed(v) == v \in gateClaims \cup terminalClaims \cup {q.version : q \in stops}

(* The session with a new status, stamped by the next checkpoint.          *)
Advanced(status) == [session EXCEPT !.status = status, !.version = @ + 1]

(* The owner's queue keeps its first failure: nothing more is persisted    *)
(* and the lease is left to expire.                                        *)
Abandon == pc' = "NONE" /\ lease' = "STALE" /\ UNCHANGED session

(* Persist and reload through the lease owner.                             *)
Checkpoint(s, next) ==
  IF Valid(s) THEN session' = s /\ pc' = next /\ UNCHANGED lease ELSE Abandon

(* An error outside the owner's queue: the loop worker tries to record     *)
(* FAILED, the gate handler answers with the error and keeps its lease.    *)
Throw ==
  /\ UNCHANGED session
  /\ IF mode = "RUN" THEN pc' = "CATCH" /\ UNCHANGED lease
     ELSE pc' = "NONE" /\ lease' = "STALE"

Fails == Checkpoint(Advanced("FAILED"), "CLOSE")

(* Everything a step of the worker on the session alone leaves unchanged.  *)
Elsewhere ==
  UNCHANGED <<claims, consumed, activeClaim, mode, choice, stopVars, drift,
              observed, faults>>

-----------------------------------------------------------------------------
(* Scheduling.  startMangekyoLoop, the polled data route, the Stop handler *)
(* and the gate handler's continuation all end in scheduleMangekyoLoop.    *)

Schedule ==
  /\ pc = "NONE" /\ lease = "FREE" /\ activeClaim
  /\ session.status \notin Terminal
  /\ session.status = "HUMAN_GATE" => stops # {}
  /\ pc' = "ENTRY" /\ mode' = "RUN" /\ lease' = "HELD"
  /\ UNCHANGED <<session, claims, consumed, activeClaim, choice, stopVars,
                 drift, observed, faults>>

(* stopCheckpoint, and the Stop branch of finalizeDecidingRound.           *)
StopBoundary == {"ENTRY", "LOOP", "EDITING", "FINALIZE"}

Blocked(q) ==
  [Advanced("BLOCKED") EXCEPT !.stopped = TRUE, !.stopVersion = q.version,
                              !.stopAt = q.at]

StopAtBoundary ==
  /\ pc \in StopBoundary
  /\ \E q \in stops : stops = {q} /\ Checkpoint(Blocked(q), "CLOSE")
  /\ Elsewhere

AmbiguousStop ==
  /\ pc \in StopBoundary
  /\ Cardinality(stops) > 1
  /\ Throw
  /\ Elsewhere

(* The branches of runMangekyoLoop on the durable status.                  *)
Prepare ==
  /\ pc = "ENTRY" /\ stops = {} /\ session.status = "IDLE"
  /\ Checkpoint(Advanced("PREPARING"), "LOOP")
  /\ Elsewhere

(* The target may have changed: FAILED, with the paths to reconcile.       *)
Unreconciled == [Advanced("FAILED") EXCEPT !.reconcile = TRUE]

(* MUTANT: recovery runs the interrupted round again. *)
RecoverByReplay ==
  /\ pc = "ENTRY" /\ stops = {} /\ session.status \in Mutating
  /\ pc' = "EXECUTE"
  /\ UNCHANGED <<session, lease>> /\ Elsewhere

(* MUTANT: the failed recovery is returned and never persisted. *)
RecoverInMemory ==
  /\ pc = "ENTRY" /\ stops = {} /\ session.status \in Mutating
  /\ pc' = "CLOSE"
  /\ UNCHANGED <<session, lease>> /\ Elsewhere

RecoverInterrupted ==
  /\ pc = "ENTRY" /\ stops = {} /\ session.status \in Mutating
  /\ Checkpoint(Unreconciled, "CLOSE")
  /\ Elsewhere

Resume ==
  /\ pc = "ENTRY" /\ stops = {}
  /\ \/ session.status = "DECIDING" /\ pc' = "FINALIZE"
     \/ session.status \in {"PREPARING", "FIXING"} /\ pc' = "LOOP"
  /\ UNCHANGED <<session, lease>> /\ Elsewhere

(* No branch matches POLICY_CHECK: the session is returned as it is, which *)
(* is not a safe stop, so the lease is kept.                               *)
ReturnUnresolved ==
  /\ pc = "ENTRY" /\ stops = {} /\ session.status = "POLICY_CHECK"
  /\ Abandon
  /\ Elsewhere

BeginRound ==
  /\ pc = "LOOP" /\ stops = {}
  /\ IF Round(session) > MaxRounds
     THEN Checkpoint(Advanced("BLOCKED"), "CLOSE")
     ELSE pc' = "PROPOSE" /\ UNCHANGED <<session, lease>>
  /\ Elsewhere

ProposalFails == pc = "PROPOSE" /\ Fails /\ Elsewhere

(* processPendingChange up to its first checkpoint.                        *)
PolicyChecked(change) ==
  [Advanced("POLICY_CHECK") EXCEPT
     !.eval = change, !.evalRound = Round(session),
     !.evaluatedAt = session.version + 1, !.pending = TRUE]

Propose(change) ==
  /\ pc = "PROPOSE"
  /\ Checkpoint(PolicyChecked(change), "CHECKED")
  /\ Elsewhere

Gated ==
  [Advanced("HUMAN_GATE") EXCEPT
     !.pending = FALSE, !.gate = "OPEN",
     !.gateRound = session.evalRound, !.gateChange = session.eval,
     !.requestedAt = session.version + 1, !.decision = "NONE"]

OpenGate ==
  /\ pc = "CHECKED" /\ session.eval # "ALLOW"
  /\ Checkpoint(Gated, "CLOSE")
  /\ Elsewhere

-----------------------------------------------------------------------------
(* executeRound *)

Editing == [Advanced("EDITING") EXCEPT !.pending = TRUE]

BeginEditing ==
  /\ \/ pc = "CHECKED" /\ session.eval = "ALLOW"
     \/ pc = "EXECUTE"
  /\ Checkpoint(Editing, "EDITING")
  /\ Elsewhere

(* MUTANT: the single-use claim file is not written. *)
AuthorizeWithoutClaim ==
  /\ pc = "EDITING" /\ stops = {}
  /\ pc' = "MUTATE" /\ UNCHANGED <<session, lease>>
  /\ Elsewhere

(* The single-use claim file of the decision, created exclusively.         *)
Consumed == consumed \cup {session.createdAt}

(* MUTANT: the Stop request is not looked up again before the mutation. *)
AuthorizeDespiteStop ==
  /\ pc = "EDITING"
  /\ IF session.eval = "ALLOW" \/ session.createdAt \notin consumed
     THEN pc' = "MUTATE" /\ UNCHANGED <<session, lease>>
     ELSE Fails
  /\ consumed' = IF session.eval = "ALLOW" THEN consumed ELSE Consumed
  /\ UNCHANGED <<claims, activeClaim, mode, choice, stopVars, drift,
                 observed, faults>>

(* After the Stop check: a policy ALLOW is persisted as an authorization,  *)
(* an Approve Once decision is consumed in a claim file of its own.        *)
Authorize ==
  /\ pc = "EDITING" /\ stops = {}
  /\ IF session.eval = "ALLOW" \/ session.createdAt \notin consumed
     THEN pc' = "MUTATE" /\ UNCHANGED <<session, lease>>
     ELSE Fails
  /\ consumed' = IF session.eval = "ALLOW" THEN consumed ELSE Consumed
  /\ UNCHANGED <<claims, activeClaim, mode, choice, stopVars, drift,
                 observed, faults>>

(* The executor changes the target and records its source revision.        *)
ApplyMutation ==
  /\ pc = "MUTATE"
  /\ pc' = "APPLIED" /\ drift' = FALSE
  /\ applied' = [applied EXCEPT ![Round(session)] = @ + 1]
  /\ UNCHANGED <<session, claims, consumed, activeClaim, lease, mode, choice,
                 stopVars, passedFrom, decidedFrom, faults>>

(* NO_TARGET_CHANGE or ROLLED_BACK before anything is applied,             *)
(* RECONCILIATION_REQUIRED after it; an error of another class carries no  *)
(* mutationFailure.                                                        *)
MutationFails ==
  /\ pc \in {"MUTATE", "APPLIED"}
  /\ Checkpoint(Unreconciled, "CLOSE") \/ Fails
  /\ Elsewhere

NextPhase(from, to) ==
  /\ pc = from
  /\ Checkpoint(Advanced(to), to)
  /\ Elsewhere

RunProject   == NextPhase("APPLIED", "RUNNING")
StartCapture == NextPhase("RUNNING", "CAPTURING")
Capture      == NextPhase("CAPTURING", "COMPARING")

PhaseFails == pc \in {"RUNNING", "CAPTURING", "COMPARING"} /\ Fails /\ Elsewhere

(* Someone edits the project after the mutation's source revision and      *)
(* before the capture's.  At any other moment it changes nothing here.     *)
ExternalEdit ==
  /\ pc \in {"APPLIED", "RUNNING", "CAPTURING"} /\ ~drift
  /\ drift' = TRUE
  /\ UNCHANGED <<session, claims, consumed, activeClaim, lease, pc, mode,
                 choice, stopVars, observed, faults>>

(* The analysis either meets every quality criterion or it does not; the   *)
(* render is fresh when both source revisions are the same.                *)
RoundCompleted(pass) ==
  [Advanced("DECIDING") EXCEPT !.rounds = @ + 1, !.pending = FALSE,
                               !.pass = pass, !.fresh = ~drift]

Analyze(pass) ==
  /\ pc = "COMPARING"
  /\ Checkpoint(RoundCompleted(pass), "FINALIZE")
  /\ Elsewhere

-----------------------------------------------------------------------------
(* finalizeDecidingRound and commitMangekyoTerminalTransition *)

Passes == session.fresh /\ session.pass

KeepFixing ==
  /\ pc = "FINALIZE" /\ stops = {}
  /\ ~Passes /\ session.rounds < MaxRounds
  /\ Checkpoint(Advanced("FIXING"), IF mode = "RUN" THEN "LOOP" ELSE "CLOSE")
  /\ Elsewhere

(* MUTANT: an exhausted round budget goes on fixing. *)
ReachTerminalFixing ==
  /\ pc = "FINALIZE" /\ stops = {}
  /\ Passes \/ session.rounds >= MaxRounds
  /\ choice' = IF Passes THEN "COMPLETE" ELSE "FIXING"
  /\ pc' = "COMMIT"
  /\ UNCHANGED <<session, claims, consumed, activeClaim, lease, mode, stopVars,
                 drift, observed, faults>>

ReachTerminal ==
  /\ pc = "FINALIZE" /\ stops = {}
  /\ Passes \/ session.rounds >= MaxRounds
  /\ choice' = IF Passes THEN "COMPLETE" ELSE "BLOCKED"
  /\ pc' = "COMMIT"
  /\ UNCHANGED <<session, claims, consumed, activeClaim, lease, mode, stopVars,
                 drift, observed, faults>>

(* MUTANT: the terminal claim does not look for another action. *)
ClaimTerminalBlindly ==
  /\ pc = "COMMIT"
  /\ terminalClaims' = terminalClaims \cup {session.version}
  /\ pc' = "COMMITTING"
  /\ UNCHANGED <<session, stops, gateClaims, consumed, activeClaim, lease, mode,
                 choice, stopVars, drift, observed, faults>>

ClaimTerminal ==
  /\ pc = "COMMIT" /\ ~Claimed(session.version)
  /\ terminalClaims' = terminalClaims \cup {session.version}
  /\ pc' = "COMMITTING"
  /\ UNCHANGED <<session, stops, gateClaims, consumed, activeClaim, lease, mode,
                 choice, stopVars, drift, observed, faults>>

StopWins ==
  /\ pc = "COMMIT" /\ Claimed(session.version)
  /\ \E q \in stops : /\ stops = {q} /\ q.version = session.version
                      /\ Checkpoint(Blocked(q), "CLOSE")
  /\ Elsewhere

TerminalConflict ==
  /\ pc = "COMMIT" /\ Claimed(session.version)
  /\ ~ \E q \in stops : stops = {q} /\ q.version = session.version
  /\ Abandon
  /\ Elsewhere

CommitTerminal ==
  /\ pc = "COMMITTING"
  /\ Checkpoint(Advanced(choice), "CLOSE")
  /\ IF Valid(Advanced(choice))
     THEN /\ terminalClaims' = terminalClaims \ {session.version}
          /\ passedFrom' = IF choice = "COMPLETE" THEN session.version ELSE passedFrom
     ELSE UNCHANGED <<terminalClaims, passedFrom>>
  /\ UNCHANGED <<stops, gateClaims, consumed, activeClaim, mode, choice,
                 stopVars, drift, applied, decidedFrom, faults>>

(* The catch of runPersistedMangekyoLoop: FAILED over the durable session. *)
RecordFailure == pc = "CATCH" /\ Fails /\ Elsewhere

(* MUTANT: a worker that waits for its human gives the project up too. *)
CloseWorkerReleasing ==
  /\ pc = "CLOSE"
  /\ lease' = "FREE" /\ pc' = "RELEASE"
  /\ UNCHANGED session /\ Elsewhere

CloseWorker ==
  /\ pc = "CLOSE"
  /\ lease' = "FREE"
  /\ pc' = IF session.status \in Terminal THEN "RELEASE" ELSE "NONE"
  /\ UNCHANGED session /\ Elsewhere

(* MUTANT: the active-loop claim of a finished loop is never released. *)
ForgetActiveClaim ==
  /\ pc = "RELEASE"
  /\ pc' = "NONE"
  /\ UNCHANGED <<session, lease>> /\ Elsewhere

ReleaseActive ==
  /\ pc = "RELEASE"
  /\ activeClaim' = FALSE /\ pc' = "NONE"
  /\ UNCHANGED <<session, claims, consumed, lease, mode, choice, stopVars,
                 drift, observed, faults>>

-----------------------------------------------------------------------------
(* decideMangekyoGate and resolveHumanGate *)

BeginDecision(decision) ==
  /\ pc = "NONE" /\ lease = "FREE" /\ activeClaim
  /\ session.status = "HUMAN_GATE"
  /\ pc' = "CLAIM_GATE" /\ mode' = "GATE" /\ choice' = decision
  /\ lease' = "HELD"
  /\ UNCHANGED <<session, claims, consumed, activeClaim, stopVars, drift,
                 observed, faults>>

(* MUTANT: the gate claim does not look for another action. *)
ClaimGateBlindly ==
  /\ pc = "CLAIM_GATE"
  /\ gateClaims' = gateClaims \cup {session.version} /\ pc' = "DECIDE"
  /\ UNCHANGED <<session, lease, stops, terminalClaims, consumed, activeClaim,
                 mode, choice, stopVars, drift, observed, faults>>

ClaimGate ==
  /\ pc = "CLAIM_GATE"
  /\ IF Claimed(session.version)
     THEN Throw /\ UNCHANGED gateClaims
     ELSE /\ gateClaims' = gateClaims \cup {session.version}
          /\ pc' = "DECIDE" /\ UNCHANGED <<session, lease>>
  /\ UNCHANGED <<stops, terminalClaims, consumed, activeClaim, mode, choice,
                 stopVars, drift, observed, faults>>

Decided(decision) ==
  [Advanced(IF decision = "REJECT" THEN "BLOCKED" ELSE "EDITING") EXCEPT
     !.gate = "DECIDED", !.decision = decision,
     !.createdAt = session.version + 1, !.pending = decision # "REJECT"]

AfterDecision(decision) ==
  CASE decision = "REJECT"       -> "CLOSE"
    [] decision = "APPROVE_ONCE" -> "EXECUTE"
    [] OTHER                     -> "REEVALUATE"

(* MUTANT: a refused decision checkpoint keeps its action claim. *)
RecordDecisionKeepingClaim ==
  /\ pc = "DECIDE"
  /\ Checkpoint(Decided(choice), AfterDecision(choice))
  /\ decidedFrom' = IF Valid(Decided(choice)) THEN session.version ELSE decidedFrom
  /\ UNCHANGED <<claims, consumed, activeClaim, mode, choice, stopVars, drift,
                 applied, passedFrom, faults>>

(* The exact action claim is given back, unless the gate has moved on.     *)
GateReleased ==
  IF session.status = "HUMAN_GATE" /\ session.gate = "OPEN"
  THEN gateClaims \ {session.version} ELSE gateClaims

(* The decision checkpoint; refused, its action claim is released.         *)
RecordDecision ==
  /\ pc = "DECIDE"
  /\ Checkpoint(Decided(choice), AfterDecision(choice))
  /\ IF Valid(Decided(choice))
     THEN decidedFrom' = session.version /\ UNCHANGED gateClaims
     ELSE gateClaims' = GateReleased /\ UNCHANGED decidedFrom
  /\ UNCHANGED <<stops, terminalClaims, consumed, activeClaim, mode, choice,
                 stopVars, drift, applied, passedFrom, faults>>

(* Expand Scope evaluates the same change against the expanded policy.     *)
Expanded == IF session.gateChange = "EXPANDABLE" THEN "ALLOW" ELSE session.gateChange

Reevaluate ==
  /\ pc = "REEVALUATE"
  /\ Checkpoint(PolicyChecked(Expanded), "CHECKED")
  /\ Elsewhere

-----------------------------------------------------------------------------
(* stopMangekyoLoop and requestMangekyoStop, one step per await that       *)
(* another process can be interleaved with.                                *)

StopElsewhere ==
  UNCHANGED <<session, gateClaims, terminalClaims, consumed, activeClaim, lease,
              pc, mode, choice, drift, observed, faults>>

StopRead(p) ==
  /\ stopPc[p] = "idle"
  /\ session.status \notin Terminal /\ activeClaim
  /\ stopPc' = [stopPc EXCEPT ![p] = "read"]
  /\ seen' = [seen EXCEPT ![p].version = session.version]
  /\ UNCHANGED stops /\ StopElsewhere

(* An existing request is answered as it is.                               *)
StopList(p) ==
  /\ stopPc[p] = "read"
  /\ stopPc' = [stopPc EXCEPT ![p] =
                  IF stops = {} THEN "listed"
                  ELSE IF Cardinality(stops) = 1 THEN "joined" ELSE "refused"]
  /\ seen' = [seen EXCEPT ![p].at = session.version]
  /\ UNCHANGED stops /\ StopElsewhere

(* MUTANT: the Stop claim replaces another action of the same version. *)
StopWriteBlindly(p) ==
  /\ stopPc[p] = "listed"
  /\ stops' = stops \cup {[by |-> p, version |-> seen[p].version, at |-> seen[p].at]}
  /\ stopPc' = [stopPc EXCEPT ![p] = "written"]
  /\ UNCHANGED seen /\ StopElsewhere

StopWrite(p) ==
  /\ stopPc[p] = "listed"
  /\ IF Claimed(seen[p].version)
     THEN stopPc' = [stopPc EXCEPT ![p] = "refused"] /\ UNCHANGED stops
     ELSE /\ stopPc' = [stopPc EXCEPT ![p] = "written"]
          /\ stops' = stops \cup {[by |-> p, version |-> seen[p].version,
                                   at |-> seen[p].at]}
  /\ UNCHANGED seen /\ StopElsewhere

(* MUTANT: the durable session is not read again after the claim. *)
StopConfirmBlindly(p) ==
  /\ stopPc[p] = "written"
  /\ stopPc' = [stopPc EXCEPT ![p] = "acked"]
  /\ UNCHANGED <<stops, seen>> /\ StopElsewhere

StopConfirm(p) ==
  /\ stopPc[p] = "written"
  /\ IF session.status \in Terminal
     THEN /\ stopPc' = [stopPc EXCEPT ![p] = "refused"]
          /\ stops' = {q \in stops : q.by # p}
          /\ UNCHANGED seen
     ELSE /\ stopPc' = [stopPc EXCEPT ![p] = "acked"]
          /\ seen' = [seen EXCEPT ![p].confirmed = session.version]
          /\ UNCHANGED stops
  /\ StopElsewhere

-----------------------------------------------------------------------------
(* The bounded lease of a worker that is gone runs out.                    *)
LeaseExpires ==
  /\ lease = "STALE" /\ lease' = "FREE"
  /\ UNCHANGED <<session, pc>> /\ Elsewhere

(* A heartbeat or a write of the owner fails: it stays failed, its worker   *)
(* stops where it is, and closing it throws, so that even a session that   *)
(* became terminal keeps its active claim.  The lease can no longer be     *)
(* renewed once the session is terminal, so that a heartbeat between the   *)
(* last checkpoint and the close is enough.                                *)
OwnerFails ==
  /\ faults < MaxFaults /\ faults' = faults + 1
  /\ pc \notin {"NONE", "RELEASE"}
  /\ Abandon
  /\ UNCHANGED <<claims, consumed, activeClaim, mode, choice, stopVars, drift,
                 observed>>

(* The server process dies: files stay, memory and handlers are gone.      *)
Crash ==
  /\ faults < MaxFaults /\ faults' = faults + 1
  /\ pc # "NONE" \/ \E p \in Stoppers : stopPc[p] \in {"read", "listed", "written"}
  /\ pc' = "NONE"
  /\ lease' = IF lease = "HELD" THEN "STALE" ELSE lease
  /\ stopPc' = [p \in Stoppers |->
                  IF stopPc[p] \in {"read", "listed", "written"}
                  THEN "refused" ELSE stopPc[p]]
  /\ UNCHANGED <<session, claims, consumed, activeClaim, mode, choice, seen,
                 drift, observed>>

WorkerStep ==
  \/ StopAtBoundary \/ AmbiguousStop
  \/ Prepare \/ RecoverInterrupted \/ Resume \/ ReturnUnresolved
  \/ BeginRound \/ ProposalFails \/ (\E c \in Changes : Propose(c)) \/ OpenGate
  \/ BeginEditing \/ Authorize \/ ApplyMutation \/ MutationFails
  \/ RunProject \/ StartCapture \/ Capture \/ PhaseFails
  \/ (\E b \in BOOLEAN : Analyze(b))
  \/ KeepFixing \/ ReachTerminal
  \/ ClaimTerminal \/ StopWins \/ TerminalConflict \/ CommitTerminal
  \/ RecordFailure \/ CloseWorker \/ ReleaseActive
  \/ ClaimGate \/ RecordDecision \/ Reevaluate

StopStep(p) == StopRead(p) \/ StopList(p) \/ StopWrite(p) \/ StopConfirm(p)

Next ==
  \/ WorkerStep
  \/ Schedule
  \/ \E d \in Decisions : BeginDecision(d)
  \/ \E p \in Stoppers : StopStep(p)
  \/ ExternalEdit
  \/ LeaseExpires
  \/ OwnerFails
  \/ Crash

Spec == Init /\ [][Next]_vars

(* A scheduled worker runs on, a lease runs out, and the page polls the    *)
(* data route while work or a Stop is pending, which schedules recovery.   *)
(* Nobody owes a decision, a Stop, an edit or a crash.                     *)
FairSpec ==
  /\ Spec
  /\ WF_vars(WorkerStep)
  /\ WF_vars(Schedule)
  /\ WF_vars(LeaseExpires)
  /\ \A p \in Stoppers : WF_vars(StopList(p) \/ StopWrite(p) \/ StopConfirm(p))

-----------------------------------------------------------------------------
(* Type invariant: the durable record and the handlers' memory.            *)
TypeOK ==
  /\ session \in Sessions
  /\ stops \subseteq StopRequests
  /\ gateClaims \subseteq Nat /\ terminalClaims \subseteq Nat
  /\ consumed \subseteq Nat
  /\ activeClaim \in BOOLEAN /\ lease \in {"FREE", "HELD", "STALE"}
  /\ pc \in PC /\ mode \in {"RUN", "GATE"}
  /\ choice \in Decisions \cup {"NONE", "COMPLETE", "BLOCKED"}
  /\ stopPc \in [Stoppers -> {"idle", "read", "listed", "written", "acked",
                              "joined", "refused"}]
  /\ seen \in [Stoppers -> [version: Nat, at: Nat, confirmed: Nat]]
  /\ drift \in BOOLEAN
  /\ applied \in [1 .. MaxRounds -> Nat]
  /\ passedFrom \in Nat /\ decidedFrom \in Nat /\ faults \in Nat

(* However often the server crashes and the loop is recovered, the target  *)
(* is mutated at most once for a round: recovery never replays a round     *)
(* whose bytes may already have changed.                                   *)
OneMutationPerRound == \A r \in 1 .. MaxRounds : applied[r] <= 1

(* A mutation of the target happens only under an evaluation of the        *)
(* current round that allowed it, or under the Approve Once decision of    *)
(* this round's gate, whose single-use claim is then already on disk.      *)
MutationAuthorized ==
  [][applied' # applied =>
       /\ session.status = "EDITING" /\ session.evalRound = Round(session)
       /\ \/ session.eval = "ALLOW"
          \/ /\ session.decision = "APPROVE_ONCE"
             /\ session.gateRound = Round(session)
             /\ session.createdAt \in consumed]_vars

(* After a Stop was acknowledged the target changes no more, except by the *)
(* one mutation whose EDITING checkpoint was already durable when the Stop *)
(* request was confirmed: no later round, decision, recovery or second     *)
(* worker mutates past it.                                                 *)
StopHaltsMutation ==
  [][applied' # applied =>
       \A p \in Stoppers :
         stopPc[p] = "acked" => seen[p].confirmed = session.version]_vars

(* A Stop, a gate decision and a PASS of the same session version exclude  *)
(* each other: an acknowledged Stop never claims the version a decision or *)
(* a PASS was committed from.                                              *)
StopExcludesSameVersion ==
  \A p \in Stoppers : stopPc[p] = "acked" =>
    seen[p].version \notin {passedFrom, decidedFrom}

(* Two clients that both listed no Stop before either had written one      *)
(* leave two Stop files of different versions.                             *)
StopsCrossed == \E q, r \in stops : q # r

(* While nothing works on it, a session waiting at a Human Gate can still  *)
(* be decided, its version unclaimed and the store ready for the decision, *)
(* or it can be stopped: the one Stop request owns its version and the     *)
(* worker can record it.  The exception is two crossed Stops: every        *)
(* boundary then refuses both as ambiguous, and if one of them owns the    *)
(* gate's version the decision is refused as well.                         *)
GateStaysDecidable ==
  session.status = "HUMAN_GATE" /\ pc = "NONE" =>
    \/ ~Claimed(session.version) /\ Valid(Decided("REJECT"))
    \/ \E q \in stops : /\ q.version = session.version
                        /\ StopsCrossed \/ Valid(Blocked(q))

(* Only the worker that proved its session terminal gives up the project's *)
(* active-loop claim, so a non-terminal session always owns it.            *)
ActiveUntilTerminal == activeClaim \/ session.status \in Terminal

(* Without a fault every loop waits for its human or ends and gives the    *)
(* project back, so that another loop can be started on it: whatever the   *)
(* store refuses (a project edited under the loop) is recovered once the   *)
(* abandoned lease has run out.                                            *)
LoopSettles ==
  \/ <>(faults > 0)
  \/ <>[](\/ session.status = "HUMAN_GATE"
          \/ session.status \in Terminal /\ ~activeClaim)

(* The decision checkpoint of Expand Scope, before its second evaluation.  *)
ExpansionPending ==
  session.status = "EDITING" /\ session.decision = "EXPAND_SCOPE"
    /\ session.eval # "ALLOW"

(* Work interrupted in a mutation-capable phase by any number of faults is *)
(* recovered to a terminal record, except between the two checkpoints of   *)
(* an Expand Scope decision.                                               *)
InterruptedMutationEnds ==
  pc = "NONE" /\ session.status \in Mutating /\ ~ExpansionPending
    ~> session.status \in Terminal

===============================================================================
