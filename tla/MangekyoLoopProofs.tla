-------------------------- MODULE MangekyoLoopProofs --------------------------
(* Theorems about the Mangekyo loop, for every number of rounds, clients   *)
(* and faults.                                                             *)
EXTENDS MangekyoLoop, TLAPS

-----------------------------------------------------------------------------
(* Replacing a field of a session by a value of its type.                  *)

(* A session keeps its type when its status is set.                        *)
LEMMA SetStatus ==
  ASSUME NEW s \in Sessions, NEW v \in Status
  PROVE  [s EXCEPT !.status = v] \in Sessions
BY SMT DEF Sessions

(* The same for a field that counts versions or rounds.                    *)
LEMMA SetNumber ==
  ASSUME NEW s \in Sessions, NEW n \in Nat
  PROVE  /\ [s EXCEPT !.version = n] \in Sessions
         /\ [s EXCEPT !.rounds = n] \in Sessions
         /\ [s EXCEPT !.evalRound = n] \in Sessions
         /\ [s EXCEPT !.evaluatedAt = n] \in Sessions
         /\ [s EXCEPT !.gateRound = n] \in Sessions
         /\ [s EXCEPT !.requestedAt = n] \in Sessions
         /\ [s EXCEPT !.createdAt = n] \in Sessions
         /\ [s EXCEPT !.stopVersion = n] \in Sessions
         /\ [s EXCEPT !.stopAt = n] \in Sessions
BY SMT DEF Sessions

(* The same for a field that is a flag.                                    *)
LEMMA SetFlag ==
  ASSUME NEW s \in Sessions, NEW b \in BOOLEAN
  PROVE  /\ [s EXCEPT !.pass = b] \in Sessions
         /\ [s EXCEPT !.fresh = b] \in Sessions
         /\ [s EXCEPT !.pending = b] \in Sessions
         /\ [s EXCEPT !.stopped = b] \in Sessions
         /\ [s EXCEPT !.reconcile = b] \in Sessions
BY SMT DEF Sessions

(* The same for a field that names a kind of change.                       *)
LEMMA SetChange ==
  ASSUME NEW s \in Sessions, NEW c \in Change \cup {"NONE"}
  PROVE  /\ [s EXCEPT !.eval = c] \in Sessions
         /\ [s EXCEPT !.gateChange = c] \in Sessions
BY SMT DEF Sessions

(* The same for the state of the gate.                                     *)
LEMMA SetGate ==
  ASSUME NEW s \in Sessions, NEW g \in {"NONE", "OPEN", "DECIDED"}
  PROVE  [s EXCEPT !.gate = g] \in Sessions
BY SMT DEF Sessions

(* The same for the decision.                                              *)
LEMMA SetDecision ==
  ASSUME NEW s \in Sessions, NEW d \in Decisions \cup {"NONE"}
  PROVE  [s EXCEPT !.decision = d] \in Sessions
BY SMT DEF Sessions

-----------------------------------------------------------------------------
(* The sessions a worker writes.                                           *)

(* The types of a session's fields.                                        *)
LEMMA FieldTypes ==
  ASSUME NEW s \in Sessions
  PROVE  /\ s.status \in Status /\ s.version \in Nat /\ s.rounds \in Nat
         /\ s.eval \in Change \cup {"NONE"} /\ s.evalRound \in Nat
         /\ s.gateChange \in Change \cup {"NONE"}
         /\ s.createdAt \in Nat /\ s.gateRound \in Nat
         /\ Round(s) \in Nat
BY SMT DEF Sessions, Round

(* A session advanced to a status is a session.                            *)
LEMMA AdvancedType ==
  ASSUME session \in Sessions, NEW status \in Status
  PROVE  Advanced(status) \in Sessions
<1>. DEFINE t == [session EXCEPT !.status = status]
<1>1. session.version + 1 \in Nat
  BY FieldTypes, SMT
<1>2. t \in Sessions
  BY SetStatus, Zenon
<1>3. [t EXCEPT !.version = session.version + 1] \in Sessions
  BY <1>1, <1>2, SetNumber, Zenon
<1> QED
  BY <1>3, Zenon DEF Advanced

(* So is the record that asks for a reconciliation.                        *)
LEMMA UnreconciledType ==
  ASSUME session \in Sessions PROVE Unreconciled \in Sessions
<1>1. Advanced("FAILED") \in Sessions
  BY AdvancedType, Zenon DEF Status, Terminal
<1> QED
  BY <1>1, SetFlag, Zenon DEF Unreconciled

(* So is the session that opens a Human Gate.                              *)
LEMMA GatedType ==
  ASSUME session \in Sessions, session.eval # "ALLOW" PROVE Gated \in Sessions
<1>. DEFINE a == Advanced("HUMAN_GATE")
            b == [a EXCEPT !.pending = FALSE]
            c == [b EXCEPT !.gate = "OPEN"]
            d == [c EXCEPT !.gateRound = session.evalRound]
            e == [d EXCEPT !.gateChange = session.eval]
            f == [e EXCEPT !.requestedAt = session.version + 1]
            g == [f EXCEPT !.decision = "NONE"]
<1>1. a \in Sessions
  BY AdvancedType, Zenon DEF Status
<1>2. b \in Sessions BY <1>1, SetFlag, Zenon
<1>3. c \in Sessions BY <1>2, SetGate, Zenon
<1>4. d \in Sessions BY <1>3, SetNumber, FieldTypes, Zenon
<1>5. e \in Sessions BY <1>4, SetChange, FieldTypes, Zenon
<1>6. session.version + 1 \in Nat BY FieldTypes, SMT
<1>7. f \in Sessions BY <1>5, <1>6, SetNumber, Zenon
<1>8. g \in Sessions BY <1>7, SetDecision, Zenon
<1> QED BY <1>8, Zenon DEF Gated

(* So is the session a Stop has blocked.                                   *)
LEMMA BlockedType ==
  ASSUME session \in Sessions, NEW q \in StopRequests PROVE Blocked(q) \in Sessions
<1>. DEFINE a == Advanced("BLOCKED")
            b == [a EXCEPT !.stopped = TRUE]
            c == [b EXCEPT !.stopVersion = q.version]
            d == [c EXCEPT !.stopAt = q.at]
<1>1. q.version \in Nat /\ q.at \in Nat BY SMT DEF StopRequests
<1>2. a \in Sessions BY AdvancedType, Zenon DEF Status, Terminal
<1>3. b \in Sessions BY <1>2, SetFlag, Zenon
<1>4. c \in Sessions BY <1>1, <1>3, SetNumber, Zenon
<1>5. d \in Sessions BY <1>1, <1>4, SetNumber, Zenon
<1> QED BY <1>5, Zenon DEF Blocked

(* So is the session with a new policy evaluation.                         *)
LEMMA PolicyCheckedType ==
  ASSUME session \in Sessions, NEW change \in Change \cup {"NONE"}
  PROVE  PolicyChecked(change) \in Sessions
<1>. DEFINE a == Advanced("POLICY_CHECK")
            b == [a EXCEPT !.eval = change]
            c == [b EXCEPT !.evalRound = Round(session)]
            d == [c EXCEPT !.evaluatedAt = session.version + 1]
            e == [d EXCEPT !.pending = TRUE]
<1>1. Round(session) \in Nat /\ session.version + 1 \in Nat BY FieldTypes, SMT
<1>2. a \in Sessions BY AdvancedType, Zenon DEF Status
<1>3. b \in Sessions BY <1>2, SetChange, Zenon
<1>4. c \in Sessions BY <1>1, <1>3, SetNumber, Zenon
<1>5. d \in Sessions BY <1>1, <1>4, SetNumber, Zenon
<1>6. e \in Sessions BY <1>5, SetFlag, Zenon
<1> QED BY <1>6, Zenon DEF PolicyChecked

(* So is the session that is about to mutate.                              *)
LEMMA EditingType ==
  ASSUME session \in Sessions PROVE Editing \in Sessions
<1>1. Advanced("EDITING") \in Sessions
  BY AdvancedType, Zenon DEF Status, Mutating
<1> QED BY <1>1, SetFlag, Zenon DEF Editing

(* So is the session with the evidence of a round.                         *)
LEMMA RoundCompletedType ==
  ASSUME session \in Sessions, drift \in BOOLEAN, NEW pass \in BOOLEAN
  PROVE  RoundCompleted(pass) \in Sessions
<1>. DEFINE a == Advanced("DECIDING")
            b == [a EXCEPT !.rounds = a.rounds + 1]
            c == [b EXCEPT !.pending = FALSE]
            d == [c EXCEPT !.pass = pass]
            e == [d EXCEPT !.fresh = ~drift]
<1>1. a \in Sessions BY AdvancedType, Zenon DEF Status
<1>2. a.rounds + 1 \in Nat
  <2>1. a.rounds \in Nat BY <1>1, FieldTypes, Zenon
  <2> QED BY <2>1, SMT
<1>3. b \in Sessions BY <1>1, <1>2, SetNumber, Zenon
<1>4. c \in Sessions BY <1>3, SetFlag, Zenon
<1>5. d \in Sessions BY <1>4, SetFlag, Zenon
<1>6. (~drift) \in BOOLEAN BY Zenon
<1>7. e \in Sessions BY <1>5, <1>6, SetFlag, Zenon
<1> QED BY <1>7, Zenon DEF RoundCompleted

(* So is the session with a gate decision.                                 *)
LEMMA DecidedType ==
  ASSUME session \in Sessions, NEW decision \in Decisions
  PROVE  Decided(decision) \in Sessions
<1>. DEFINE status == IF decision = "REJECT" THEN "BLOCKED" ELSE "EDITING"
            a == Advanced(status)
            b == [a EXCEPT !.gate = "DECIDED"]
            c == [b EXCEPT !.decision = decision]
            d == [c EXCEPT !.createdAt = session.version + 1]
            e == [d EXCEPT !.pending = decision # "REJECT"]
<1>1. session.version + 1 \in Nat BY FieldTypes, SMT
<1>2. status \in Status BY Zenon DEF Status, Mutating, Terminal
<1>3. a \in Sessions BY <1>2, AdvancedType, Zenon
<1>4. b \in Sessions BY <1>3, SetGate, Zenon
<1>5. c \in Sessions BY <1>4, SetDecision, Zenon
<1>6. d \in Sessions BY <1>1, <1>5, SetNumber, Zenon
<1>7. (decision # "REJECT") \in BOOLEAN BY Zenon
<1>8. e \in Sessions BY <1>6, <1>7, SetFlag, Zenon
<1> QED BY <1>8, Zenon DEF Decided

(* A checkpoint is either recorded or abandons the worker.                 *)
LEMMA CheckpointCases ==
  ASSUME NEW s, NEW next, Checkpoint(s, next)
  PROVE  \/ Valid(s) /\ session' = s /\ pc' = next /\ lease' = lease
         \/ session' = session /\ pc' = "NONE" /\ lease' = "STALE"
BY Zenon DEF Checkpoint, Abandon

(* A checkpoint of a session keeps the types.                              *)
LEMMA CheckpointType ==
  ASSUME TypeOK, NEW s \in Sessions, NEW next \in PC, Checkpoint(s, next)
  PROVE  session' \in Sessions /\ pc' \in PC /\ lease' \in {"FREE", "HELD", "STALE"}
BY CheckpointCases, Zenon DEF TypeOK, PC

(* Recording FAILED keeps the types.                                       *)
LEMMA FailsType ==
  ASSUME TypeOK, Fails
  PROVE  session' \in Sessions /\ pc' \in PC /\ lease' \in {"FREE", "HELD", "STALE"}
<1>1. Advanced("FAILED") \in Sessions
  BY AdvancedType, Zenon DEF TypeOK, Status, Terminal
<1> QED BY <1>1, CheckpointType, Zenon DEF Fails, PC

(* An error outside the owner's queue keeps the types.                     *)
LEMMA ThrowType ==
  ASSUME TypeOK, Throw
  PROVE  session' \in Sessions /\ pc' \in PC /\ lease' \in {"FREE", "HELD", "STALE"}
BY Zenon DEF Throw, TypeOK, PC

(* What the worker chose is an outcome while it commits one and a decision *)
(* while it records one.                                                   *)
ChoiceFits ==
  /\ pc \in {"COMMIT", "COMMITTING"} => choice \in {"COMPLETE", "BLOCKED"}
  /\ pc \in {"CLAIM_GATE", "DECIDE"} => choice \in Decisions

(* A step keeps the choice fit for where the worker is.                    *)
LEMMA ChoiceFitsStep ==
  ASSUME ChoiceFits, [Next]_vars
  PROVE  ChoiceFits'
<1>1. CASE WorkerStep
  <2>1. ASSUME NEW s, NEW next, Checkpoint(s, next), choice' = choice,
               next \notin {"COMMIT", "COMMITTING", "CLAIM_GATE", "DECIDE"}
        PROVE  ChoiceFits'
    BY <2>1, CheckpointCases, Zenon DEF ChoiceFits
  <2>2. ASSUME Throw, choice' = choice PROVE ChoiceFits'
    BY <2>2, Zenon DEF Throw, ChoiceFits
  <2>3. CASE StopAtBoundary \/ AmbiguousStop \/ Prepare \/ RecoverInterrupted
    BY <2>1, <2>2, <2>3, Zenon DEF StopAtBoundary, AmbiguousStop, Prepare,
       RecoverInterrupted, Elsewhere
  <2>4. CASE Resume \/ ReturnUnresolved \/ CloseWorker \/ ApplyMutation
    BY <2>4, Zenon DEF Resume, ReturnUnresolved, CloseWorker, ApplyMutation,
       Abandon, ChoiceFits, Elsewhere
  <2>5. CASE BeginRound \/ ProposalFails \/ (\E c \in Changes : Propose(c))
             \/ OpenGate \/ BeginEditing
    BY <2>1, <2>5, Zenon DEF BeginRound, ProposalFails, Fails, Propose, OpenGate,
       BeginEditing, Elsewhere, ChoiceFits
  <2>6. CASE Authorize
    BY <2>1, <2>6, Zenon DEF Authorize, Fails, ChoiceFits
  <2>7. CASE MutationFails \/ RunProject \/ StartCapture \/ Capture \/ PhaseFails
             \/ (\E b \in BOOLEAN : Analyze(b)) \/ KeepFixing \/ RecordFailure
    BY <2>1, <2>7, Zenon DEF MutationFails, RunProject, StartCapture, Capture,
       NextPhase, PhaseFails, Fails, Analyze, KeepFixing, RecordFailure, Elsewhere
  <2>8. CASE ReachTerminal \/ ClaimTerminal \/ TerminalConflict \/ ReleaseActive
    BY <2>8, Zenon DEF ReachTerminal, ClaimTerminal, TerminalConflict,
       ReleaseActive, Abandon, Elsewhere, ChoiceFits
  <2>9. CASE StopWins \/ CommitTerminal \/ Reevaluate
    BY <2>1, <2>9, Zenon DEF StopWins, CommitTerminal, Reevaluate, Elsewhere
  <2>10. CASE ClaimGate
    BY <2>2, <2>10, Zenon DEF ClaimGate, ChoiceFits
  <2>11. CASE RecordDecision
    <3>1. AfterDecision(choice) \notin {"COMMIT", "COMMITTING", "CLAIM_GATE", "DECIDE"}
      BY Zenon DEF AfterDecision
    <3> QED BY <2>1, <2>11, <3>1, Zenon DEF RecordDecision
  <2> QED
    BY <1>1, <2>3, <2>4, <2>5, <2>6, <2>7, <2>8, <2>9, <2>10, <2>11, Zenon
       DEF WorkerStep
<1>2. CASE Schedule \/ ExternalEdit \/ LeaseExpires \/ OwnerFails \/ Crash
  BY <1>2, SMT DEF ChoiceFits, Schedule, ExternalEdit, LeaseExpires, OwnerFails,
                   Crash, Abandon, Elsewhere
<1>3. CASE \E d \in Decisions : BeginDecision(d)
  BY <1>3, SMT DEF ChoiceFits, BeginDecision
<1>4. CASE \E p \in Stoppers : StopStep(p)
  BY <1>4, SMT DEF ChoiceFits, StopStep, StopRead, StopList, StopWrite,
                   StopConfirm, StopElsewhere
<1>5. CASE UNCHANGED vars
  BY <1>5, SMT DEF ChoiceFits, vars
<1> QED
  BY <1>1, <1>2, <1>3, <1>4, <1>5, Zenon DEF Next

(* A step that only moves the session, the worker and its lease.           *)
LEMMA ElsewhereType ==
  ASSUME TypeOK, Elsewhere,
         session' \in Sessions, pc' \in PC, lease' \in {"FREE", "HELD", "STALE"}
  PROVE  TypeOK'
BY Zenon DEF TypeOK, Elsewhere, claims, stopVars, observed

(* A step of the worker or of the gate handler keeps the types.            *)
LEMMA WorkerStepType ==
  ASSUME TypeOK, ChoiceFits, WorkerStep
  PROVE  TypeOK'
<1>. session \in Sessions
  BY Zenon DEF TypeOK
<1>1. CASE StopAtBoundary
  <2>1. PICK q \in stops : Checkpoint(Blocked(q), "CLOSE")
    BY <1>1, Zenon DEF StopAtBoundary
  <2>2. Blocked(q) \in Sessions
    BY BlockedType, Zenon DEF TypeOK
  <2> QED BY <1>1, <2>1, <2>2, CheckpointType, ElsewhereType, Zenon DEF StopAtBoundary, PC
<1>2. CASE AmbiguousStop
  BY <1>2, ThrowType, ElsewhereType, Zenon DEF AmbiguousStop
<1>3. CASE Prepare
  <2>1. Advanced("PREPARING") \in Sessions
    BY AdvancedType, Zenon DEF Status
  <2> QED BY <1>3, <2>1, CheckpointType, ElsewhereType, Zenon DEF Prepare, PC
<1>4. CASE RecoverInterrupted
  BY <1>4, UnreconciledType, CheckpointType, ElsewhereType, Zenon
     DEF RecoverInterrupted, PC
<1>5. CASE Resume
  <2>1. pc' \in PC
    BY <1>5, Zenon DEF Resume, PC
  <2> QED BY <1>5, <2>1, ElsewhereType, Zenon DEF Resume, TypeOK
<1>6. CASE ReturnUnresolved
  BY <1>6, ElsewhereType, Zenon DEF ReturnUnresolved, Abandon, PC
<1>7. CASE BeginRound
  <2>1. Advanced("BLOCKED") \in Sessions
    BY AdvancedType, Zenon DEF Status, Terminal
  <2>2. CASE Round(session) > MaxRounds
    BY <1>7, <2>1, <2>2, CheckpointType, ElsewhereType, Zenon DEF BeginRound, PC
  <2>3. CASE ~(Round(session) > MaxRounds)
    BY <1>7, <2>3, ElsewhereType, Zenon DEF BeginRound, PC, TypeOK
  <2> QED BY <2>2, <2>3
<1>8. CASE ProposalFails
  BY <1>8, FailsType, ElsewhereType, Zenon DEF ProposalFails
<1>9. CASE \E c \in Changes : Propose(c)
  <2>1. PICK c \in Changes : Propose(c)
    BY <1>9, Zenon
  <2>2. PolicyChecked(c) \in Sessions
    BY LoopAssumption, PolicyCheckedType, Zenon
  <2> QED BY <2>1, <2>2, CheckpointType, ElsewhereType, Zenon DEF Propose, PC
<1>10. CASE OpenGate
  BY <1>10, GatedType, CheckpointType, ElsewhereType, Zenon DEF OpenGate, PC
<1>11. CASE BeginEditing
  BY <1>11, EditingType, CheckpointType, ElsewhereType, Zenon DEF BeginEditing, PC
<1>12. CASE Authorize
  <2>1. /\ session' \in Sessions /\ pc' \in PC
        /\ lease' \in {"FREE", "HELD", "STALE"}
    BY <1>12, FailsType, Zenon DEF Authorize, TypeOK, PC
  <2>2. consumed' \subseteq Nat
    BY <1>12, FieldTypes, Zenon DEF Authorize, Consumed, TypeOK
  <2> QED
    BY <1>12, <2>1, <2>2, Zenon DEF Authorize, TypeOK, claims, stopVars, observed
<1>13. CASE ApplyMutation
  <2>1. applied' \in [1 .. MaxRounds -> Nat]
    <3>1. applied[Round(session)] + 1 \in Nat \/ Round(session) \notin 1 .. MaxRounds
      BY SMT DEF TypeOK
    <3>2. ASSUME NEW S, NEW f \in [S -> Nat], NEW i, NEW n, n \in Nat \/ i \notin S
          PROVE  [f EXCEPT ![i] = n] \in [S -> Nat]
      BY <3>2, Zenon
    <3> QED BY <1>13, <3>1, <3>2, Zenon DEF ApplyMutation, TypeOK
  <2> QED
    BY <1>13, <2>1, Zenon DEF ApplyMutation, TypeOK, claims, stopVars, PC
<1>14. CASE MutationFails
  BY <1>14, UnreconciledType, CheckpointType, FailsType, ElsewhereType, Zenon
     DEF MutationFails, PC
<1>15. CASE RunProject \/ StartCapture \/ Capture
  <2>1. ASSUME NEW from, NEW to \in Mutating \cap PC, NextPhase(from, to)
        PROVE  TypeOK'
    <3>1. Advanced(to) \in Sessions
      BY <2>1, AdvancedType, Zenon DEF Status
    <3> QED BY <2>1, <3>1, CheckpointType, ElsewhereType, Zenon DEF NextPhase
  <2>2. {"RUNNING", "CAPTURING", "COMPARING"} \subseteq Mutating \cap PC
    BY Zenon DEF Mutating, PC
  <2> QED BY <1>15, <2>1, <2>2, Zenon DEF RunProject, StartCapture, Capture
<1>16. CASE PhaseFails
  BY <1>16, FailsType, ElsewhereType, Zenon DEF PhaseFails
<1>17. CASE \E b \in BOOLEAN : Analyze(b)
  <2>1. PICK b \in BOOLEAN : Analyze(b)
    BY <1>17, Zenon
  <2>2. RoundCompleted(b) \in Sessions
    BY RoundCompletedType, Zenon DEF TypeOK
  <2> QED BY <2>1, <2>2, CheckpointType, ElsewhereType, Zenon DEF Analyze, PC
<1>18. CASE KeepFixing
  <2>1. Advanced("FIXING") \in Sessions
    BY AdvancedType, Zenon DEF Status
  <2>2. (IF mode = "RUN" THEN "LOOP" ELSE "CLOSE") \in PC
    BY Zenon DEF PC
  <2> QED BY <1>18, <2>1, <2>2, CheckpointType, ElsewhereType, Zenon DEF KeepFixing
<1>19. CASE ReachTerminal
  BY <1>19, Zenon DEF ReachTerminal, TypeOK, claims, stopVars, observed, PC
<1>20. CASE ClaimTerminal
  BY <1>20, FieldTypes, Zenon DEF ClaimTerminal, TypeOK, stopVars, observed, PC
<1>21. CASE StopWins
  <2>1. PICK q \in stops : Checkpoint(Blocked(q), "CLOSE")
    BY <1>21, Zenon DEF StopWins
  <2>2. Blocked(q) \in Sessions
    BY BlockedType, Zenon DEF TypeOK
  <2> QED BY <1>21, <2>1, <2>2, CheckpointType, ElsewhereType, Zenon DEF StopWins, PC
<1>22. CASE TerminalConflict
  BY <1>22, ElsewhereType, Zenon DEF TerminalConflict, Abandon, PC
<1>23. CASE CommitTerminal
  <2>1. choice \in Status
    BY <1>23, Zenon DEF CommitTerminal, ChoiceFits, Status, Terminal
  <2>2. Advanced(choice) \in Sessions
    BY <2>1, AdvancedType, Zenon
  <2>3. /\ session' \in Sessions /\ pc' \in PC
        /\ lease' \in {"FREE", "HELD", "STALE"}
    BY <1>23, <2>2, CheckpointType, Zenon DEF CommitTerminal, PC
  <2> QED
    BY <1>23, <2>3, FieldTypes, Zenon DEF CommitTerminal, TypeOK, stopVars
<1>24. CASE RecordFailure
  BY <1>24, FailsType, ElsewhereType, Zenon DEF RecordFailure
<1>25. CASE CloseWorker
  BY <1>25, ElsewhereType, Zenon DEF CloseWorker, PC
<1>26. CASE ReleaseActive
  BY <1>26, Zenon DEF ReleaseActive, TypeOK, claims, stopVars, observed, PC
<1>27. CASE ClaimGate
  <2>1. CASE Claimed(session.version)
    BY <1>27, <2>1, ThrowType, Zenon DEF ClaimGate, TypeOK, stopVars, observed
  <2>2. CASE ~Claimed(session.version)
    BY <1>27, <2>2, FieldTypes, Zenon DEF ClaimGate, TypeOK, stopVars, observed, PC
  <2> QED BY <2>1, <2>2
<1>28. CASE RecordDecision
  <2>1. choice \in Decisions
    BY <1>28, Zenon DEF RecordDecision, ChoiceFits
  <2>2. AfterDecision(choice) \in PC
    BY Zenon DEF AfterDecision, PC
  <2>3. /\ session' \in Sessions /\ pc' \in PC
        /\ lease' \in {"FREE", "HELD", "STALE"}
    BY <1>28, <2>1, <2>2, DecidedType, CheckpointType, Zenon DEF RecordDecision
  <2> QED
    BY <1>28, <2>3, FieldTypes, Zenon DEF RecordDecision, GateReleased, TypeOK, stopVars
<1>29. CASE Reevaluate
  <2>1. Expanded \in Change \cup {"NONE"}
    BY FieldTypes, Zenon DEF Expanded, Change
  <2>2. PolicyChecked(Expanded) \in Sessions
    BY <2>1, PolicyCheckedType, Zenon
  <2> QED BY <1>29, <2>2, CheckpointType, ElsewhereType, Zenon DEF Reevaluate, PC
<1> QED
  BY <1>1, <1>2, <1>3, <1>4, <1>5, <1>6, <1>7, <1>8, <1>9, <1>10, <1>11, <1>12,
     <1>13, <1>14, <1>15, <1>16, <1>17, <1>18, <1>19, <1>20, <1>21, <1>22,
     <1>23, <1>24, <1>25, <1>26, <1>27, <1>28, <1>29, Zenon DEF WorkerStep

StopPhases == {"idle", "read", "listed", "written", "acked", "joined", "refused"}

(* Well-typed changes of a Stop handler's own variables keep the types.    *)
LEMMA StopElsewhereType ==
  ASSUME TypeOK, StopElsewhere, stops' \subseteq StopRequests,
         stopPc' \in [Stoppers -> StopPhases],
         seen' \in [Stoppers -> [version: Nat, at: Nat, confirmed: Nat]]
  PROVE  TypeOK'
BY Zenon DEF TypeOK, StopElsewhere, observed, StopPhases

(* A step of a Stop handler keeps the types.                               *)
LEMMA StopStepType ==
  ASSUME TypeOK, NEW p \in Stoppers, StopStep(p)
  PROVE  TypeOK'
<1>1. session.version \in Nat
  BY FieldTypes, Zenon DEF TypeOK
<1>2. /\ stopPc \in [Stoppers -> StopPhases]
      /\ seen \in [Stoppers -> [version: Nat, at: Nat, confirmed: Nat]]
      /\ stops \subseteq StopRequests
  BY Zenon DEF TypeOK, StopPhases
<1>3. ASSUME NEW phase \in StopPhases
      PROVE  [stopPc EXCEPT ![p] = phase] \in [Stoppers -> StopPhases]
  BY <1>2, Zenon
<1>4. CASE StopRead(p)
  <2>1. seen' \in [Stoppers -> [version: Nat, at: Nat, confirmed: Nat]]
    BY <1>1, <1>2, <1>4, SMT DEF StopRead
  <2> QED BY <1>2, <1>3, <1>4, <2>1, StopElsewhereType, Zenon DEF StopRead, StopPhases
<1>5. CASE StopList(p)
  <2>1. seen' \in [Stoppers -> [version: Nat, at: Nat, confirmed: Nat]]
    BY <1>1, <1>2, <1>5, SMT DEF StopList
  <2>2. stopPc' \in [Stoppers -> StopPhases]
    BY <1>2, <1>3, <1>5, SMT DEF StopList, StopPhases
  <2> QED BY <1>2, <1>5, <2>1, <2>2, StopElsewhereType, Zenon DEF StopList
<1>6. CASE StopWrite(p)
  <2>1. [by |-> p, version |-> seen[p].version, at |-> seen[p].at] \in StopRequests
    BY <1>2, SMT DEF StopRequests
  <2>2. stops' \subseteq StopRequests
    BY <1>2, <1>6, <2>1, SMT DEF StopWrite
  <2>3. stopPc' \in [Stoppers -> StopPhases]
    BY <1>2, <1>3, <1>6, SMT DEF StopWrite, StopPhases
  <2> QED BY <1>2, <1>6, <2>2, <2>3, StopElsewhereType, Zenon DEF StopWrite
<1>7. CASE StopConfirm(p)
  <2>1. stops' \subseteq StopRequests
    BY <1>2, <1>7, SMT DEF StopConfirm
  <2>2. stopPc' \in [Stoppers -> StopPhases]
    BY <1>2, <1>3, <1>7, SMT DEF StopConfirm, StopPhases
  <2>3. seen' \in [Stoppers -> [version: Nat, at: Nat, confirmed: Nat]]
    BY <1>1, <1>2, <1>7, SMT DEF StopConfirm
  <2> QED BY <1>2, <1>7, <2>1, <2>2, <2>3, StopElsewhereType, Zenon DEF StopConfirm
<1> QED BY <1>4, <1>5, <1>6, <1>7, Zenon DEF StopStep

(* The initial state has the types.                                        *)
LEMMA InitType == Init => TypeOK /\ ChoiceFits
<1>. SUFFICES ASSUME Init PROVE TypeOK /\ ChoiceFits
  OBVIOUS
<1>1. session \in Sessions
  BY SMT DEF Init, Sessions, Status
<1>2. /\ stopPc \in [Stoppers -> StopPhases]
      /\ seen \in [Stoppers -> [version: Nat, at: Nat, confirmed: Nat]]
  BY SMT DEF Init, StopPhases
<1>3. applied \in [1 .. MaxRounds -> Nat] /\ passedFrom \in Nat
      /\ decidedFrom \in Nat /\ faults \in Nat
  BY SMT DEF Init
<1>4. pc \in PC /\ ChoiceFits
  BY SMT DEF Init, PC, ChoiceFits
<1> QED
  BY <1>1, <1>2, <1>3, <1>4, Zenon DEF Init, TypeOK, StopPhases

(* Every step keeps the types.                                             *)
LEMMA NextType == TypeOK /\ ChoiceFits /\ [Next]_vars => TypeOK'
<1>. SUFFICES ASSUME TypeOK, ChoiceFits, [Next]_vars PROVE TypeOK'
  OBVIOUS
<1>1. CASE WorkerStep
  BY <1>1, WorkerStepType
<1>2. CASE Schedule
  BY <1>2, Zenon DEF Schedule, TypeOK, claims, stopVars, observed, PC
<1>3. CASE \E d \in Decisions : BeginDecision(d)
  BY <1>3, Zenon DEF BeginDecision, TypeOK, claims, stopVars, observed, PC
<1>4. CASE \E p \in Stoppers : StopStep(p)
  BY <1>4, StopStepType, Zenon
<1>5. CASE ExternalEdit
  BY <1>5, Zenon DEF ExternalEdit, TypeOK, claims, stopVars, observed
<1>6. CASE LeaseExpires
  BY <1>6, Zenon DEF LeaseExpires, Elsewhere, TypeOK, claims, stopVars, observed
<1>7. CASE OwnerFails
  <2>1. faults' \in Nat
    BY <1>7, SMT DEF OwnerFails, TypeOK
  <2> QED
    BY <1>7, <2>1, Zenon DEF OwnerFails, Abandon, TypeOK, claims, stopVars, observed, PC
<1>8. CASE Crash
  <2>1. faults' \in Nat
    BY <1>8, SMT DEF Crash, TypeOK
  <2>2. stopPc' \in [Stoppers -> {"idle", "read", "listed", "written", "acked",
                                  "joined", "refused"}]
    BY <1>8, SMT DEF Crash, TypeOK
  <2> QED
    BY <1>8, <2>1, <2>2, Zenon DEF Crash, TypeOK, claims, observed, PC
<1>9. CASE UNCHANGED vars
  BY <1>9, Zenon DEF vars, TypeOK, claims, stopVars, observed
<1> QED
  BY <1>1, <1>2, <1>3, <1>4, <1>5, <1>6, <1>7, <1>8, <1>9, Zenon DEF Next

(* The durable record and the handlers' memory keep their types.           *)
THEOREM TypeInvariant == Spec => [](TypeOK /\ ChoiceFits)
<1>1. TypeOK /\ ChoiceFits /\ [Next]_vars => (TypeOK /\ ChoiceFits)'
  BY NextType, ChoiceFitsStep, Zenon
<1> QED
  BY InitType, <1>1, PTL DEF Spec

-----------------------------------------------------------------------------
(***************************************************************************)
(* The safety properties.                                                  *)
(***************************************************************************)


(* A status from which bytes may have changed, or with nothing left to do. *)
Settled == Mutating \cup Terminal

(* Where the worker has not reached this round's mutation.                 *)
BeforeMutation ==
  {"LOOP", "PROPOSE", "CHECKED", "EXECUTE", "EDITING", "MUTATE", "FINALIZE",
   "COMMIT", "COMMITTING", "CLAIM_GATE", "DECIDE", "REEVALUATE"}

-----------------------------------------------------------------------------
(* The fields of the sessions a worker writes.                             *)

(* Advancing a session changes its status and version.                     *)
LEMMA AdvancedFields ==
  ASSUME session \in Sessions, NEW status \in Status, NEW s, s = Advanced(status)
  PROVE  /\ s.status = status /\ s.version = session.version + 1
         /\ s.rounds = session.rounds /\ s.eval = session.eval
         /\ s.decision = session.decision
BY SMT DEF Advanced, Sessions

(* The record that asks for a reconciliation is FAILED.                    *)
LEMMA UnreconciledFields ==
  ASSUME session \in Sessions
  PROVE  /\ Unreconciled.status = "FAILED" /\ Unreconciled.rounds = session.rounds
         /\ Unreconciled.version = session.version + 1
BY SMT DEF Unreconciled, Advanced, Sessions

(* A Stop leaves the session BLOCKED.                                      *)
LEMMA BlockedFields ==
  ASSUME session \in Sessions, NEW q
  PROVE  /\ Blocked(q).status = "BLOCKED" /\ Blocked(q).rounds = session.rounds
         /\ Blocked(q).version = session.version + 1
BY SMT DEF Blocked, Advanced, Sessions

(* A policy evaluation leaves it in POLICY_CHECK.                          *)
LEMMA PolicyCheckedFields ==
  ASSUME session \in Sessions, NEW change
  PROVE  /\ PolicyChecked(change).status = "POLICY_CHECK"
         /\ PolicyChecked(change).rounds = session.rounds
         /\ PolicyChecked(change).version = session.version + 1
BY SMT DEF PolicyChecked, Advanced, Sessions

(* An opened gate leaves it in HUMAN_GATE.                                 *)
LEMMA GatedFields ==
  ASSUME session \in Sessions
  PROVE  /\ Gated.status = "HUMAN_GATE" /\ Gated.rounds = session.rounds
         /\ Gated.version = session.version + 1
BY SMT DEF Gated, Advanced, Sessions

(* Starting to edit keeps the evaluation and the decision.                 *)
LEMMA EditingFields ==
  ASSUME session \in Sessions
  PROVE  /\ Editing.status = "EDITING" /\ Editing.rounds = session.rounds
         /\ Editing.version = session.version + 1
         /\ Editing.eval = session.eval /\ Editing.decision = session.decision
BY SMT DEF Editing, Advanced, Sessions

(* Completing a round counts it.                                           *)
LEMMA RoundCompletedFields ==
  ASSUME session \in Sessions, NEW pass
  PROVE  /\ RoundCompleted(pass).status = "DECIDING"
         /\ RoundCompleted(pass).rounds = session.rounds + 1
         /\ RoundCompleted(pass).version = session.version + 1
BY SMT DEF RoundCompleted, Advanced, Sessions

(* A decision blocks the loop or sends it on to edit.                      *)
LEMMA DecidedFields ==
  ASSUME session \in Sessions, NEW decision
  PROVE  /\ Decided(decision).status = IF decision = "REJECT" THEN "BLOCKED" ELSE "EDITING"
         /\ Decided(decision).rounds = session.rounds
         /\ Decided(decision).version = session.version + 1
         /\ Decided(decision).decision = decision
BY SMT DEF Decided, Advanced, Sessions

(* A Stop handler changes the Stop requests and its own memory only.       *)
LEMMA StopStepElsewhere ==
  ASSUME NEW p, StopStep(p)
  PROVE  StopElsewhere
BY SMT DEF StopStep, StopRead, StopList, StopWrite, StopConfirm

-----------------------------------------------------------------------------
(* What the store accepted stays acceptable.                               *)

(* A step writes no session that the store refuses.                        *)
LEMMA SessionStep ==
  ASSUME [Next]_vars
  PROVE  session' = session \/ Valid(session')
<1>. USE DEF Elsewhere, Abandon, Fails
<1>1. ASSUME NEW s, NEW next, Checkpoint(s, next)
      PROVE  session' = session \/ Valid(session')
  BY <1>1, CheckpointCases, Zenon
<1>2. CASE WorkerStep
  <2>1. CASE StopAtBoundary \/ AmbiguousStop \/ Prepare \/ RecoverInterrupted
             \/ Resume \/ ReturnUnresolved
    BY <1>1, <2>1, Zenon DEF StopAtBoundary, AmbiguousStop, Throw, Prepare,
       RecoverInterrupted, Resume, ReturnUnresolved
  <2>2. CASE BeginRound \/ ProposalFails \/ (\E c \in Changes : Propose(c))
             \/ OpenGate \/ BeginEditing \/ Authorize
    BY <1>1, <2>2, Zenon DEF BeginRound, ProposalFails, Propose, OpenGate,
       BeginEditing, Authorize
  <2>3. CASE ApplyMutation \/ MutationFails \/ RunProject \/ StartCapture \/ Capture
             \/ PhaseFails \/ (\E b \in BOOLEAN : Analyze(b)) \/ KeepFixing
    BY <1>1, <2>3, Zenon DEF ApplyMutation, MutationFails, RunProject, StartCapture,
       Capture, NextPhase, PhaseFails, Analyze, KeepFixing
  <2>4. CASE ReachTerminal \/ ClaimTerminal \/ StopWins \/ TerminalConflict
             \/ CommitTerminal \/ RecordFailure \/ CloseWorker \/ ReleaseActive
    BY <1>1, <2>4, Zenon DEF ReachTerminal, ClaimTerminal, StopWins,
       TerminalConflict, CommitTerminal, RecordFailure, CloseWorker, ReleaseActive
  <2>5. CASE ClaimGate \/ RecordDecision \/ Reevaluate
    BY <1>1, <2>5, Zenon DEF ClaimGate, Throw, RecordDecision, Reevaluate
  <2> QED BY <1>2, <2>1, <2>2, <2>3, <2>4, <2>5, Zenon DEF WorkerStep
<1>3. CASE Schedule \/ (\E d \in Decisions : BeginDecision(d)) \/ ExternalEdit
           \/ LeaseExpires \/ OwnerFails \/ Crash
  BY <1>3, Zenon DEF Schedule, BeginDecision, ExternalEdit, LeaseExpires,
     OwnerFails, Crash
<1>4. CASE \E p \in Stoppers : StopStep(p)
  BY <1>4, StopStepElsewhere, Zenon DEF StopElsewhere
<1>5. CASE UNCHANGED vars
  BY <1>5, Zenon DEF vars
<1> QED
  BY <1>2, <1>3, <1>4, <1>5, Zenon DEF Next

(* A new session is valid.                                                 *)
LEMMA InitValid == Init => Valid(session)
BY LoopAssumption, SMT DEF Init, Valid, GatesResolved, EditingLinked, DecisionLinked,
           EvaluationLinked, RoundsLinked, Mutating

(* Every session on disk satisfies the relations the store checks.         *)
THEOREM DurableSessionValid == Spec => []Valid(session)
<1>1. Valid(session) /\ [Next]_vars => Valid(session)'
  <2>. SUFFICES ASSUME Valid(session), [Next]_vars PROVE Valid(session')
    BY Zenon DEF Valid, GatesResolved, EditingLinked, DecisionLinked,
                 EvaluationLinked, RoundsLinked, GateOfLatest, Round
  <2> QED BY SessionStep, Zenon
<1> QED
  BY InitValid, <1>1, PTL DEF Spec

-----------------------------------------------------------------------------
(* Only a worker that closes is left on an ended session, and the active   *)
(* claim goes last.                                                        *)

EndedInv ==
  /\ session.status \in Terminal => pc \in {"CLOSE", "RELEASE", "NONE"}
  /\ pc = "RELEASE" => session.status \in Terminal
  /\ ~activeClaim => session.status \in Terminal /\ pc = "NONE"

(* A checkpoint of a live worker keeps EndedInv.                           *)
LEMMA CheckpointEnded ==
  ASSUME EndedInv, NEW s, NEW next, Checkpoint(s, next), activeClaim' = activeClaim,
         pc \notin {"NONE", "RELEASE"}, next # "RELEASE",
         s.status \in Terminal => next = "CLOSE"
  PROVE  EndedInv'
BY CheckpointCases, Zenon DEF EndedInv

(* A working step that leaves the session and the active claim alone keeps *)
(* EndedInv.                                                               *)
LEMMA StutterEnded ==
  ASSUME EndedInv, session' = session, activeClaim' = activeClaim,
         pc \notin {"NONE", "RELEASE"}, pc' # "RELEASE",
         pc = "CLOSE" => pc' = "NONE"
  PROVE  EndedInv'
BY Zenon DEF EndedInv

(* Every step keeps EndedInv.                                              *)
LEMMA EndedStep ==
  ASSUME TypeOK, ChoiceFits, EndedInv, [Next]_vars
  PROVE  EndedInv'
<1>. session \in Sessions
  BY Zenon DEF TypeOK
<1>. USE DEF Elsewhere
<1>0. ASSUME Fails, activeClaim' = activeClaim, pc \notin {"NONE", "RELEASE"}
      PROVE  EndedInv'
  BY <1>0, CheckpointEnded, Zenon DEF Fails
<1>1. CASE StopAtBoundary \/ StopWins
  BY <1>1, CheckpointEnded, Zenon DEF StopAtBoundary, StopBoundary, StopWins
<1>2. CASE AmbiguousStop \/ ClaimGate
  BY <1>2, StutterEnded, Zenon DEF AmbiguousStop, StopBoundary, ClaimGate, Throw
<1>3. CASE Prepare \/ RecoverInterrupted
  <2>1. Advanced("PREPARING").status = "PREPARING"
    BY AdvancedFields, Zenon DEF Status
  <2> QED
    BY <1>3, <2>1, CheckpointEnded, Zenon DEF Prepare, RecoverInterrupted, Terminal
<1>4. CASE Resume \/ ReturnUnresolved \/ ApplyMutation \/ ReachTerminal
           \/ ClaimTerminal \/ TerminalConflict
  BY <1>4, StutterEnded, Zenon DEF Resume, ReturnUnresolved, Abandon, ApplyMutation,
     ReachTerminal, ClaimTerminal, TerminalConflict
<1>5. CASE BeginRound \/ ProposalFails \/ MutationFails \/ PhaseFails \/ RecordFailure
  BY <1>0, <1>5, StutterEnded, CheckpointEnded, Zenon DEF BeginRound, ProposalFails,
     MutationFails, PhaseFails, RecordFailure
<1>6. CASE (\E c \in Changes : Propose(c)) \/ Reevaluate
  <2>1. ASSUME NEW c PROVE PolicyChecked(c).status \notin Terminal
    BY PolicyCheckedFields, Zenon DEF Terminal
  <2> QED BY <1>6, <2>1, CheckpointEnded, Zenon DEF Propose, Reevaluate
<1>7. CASE OpenGate \/ BeginEditing
  BY <1>7, GatedFields, EditingFields, CheckpointEnded, Zenon
     DEF OpenGate, BeginEditing, Terminal
<1>8. CASE Authorize
  BY <1>0, <1>8, StutterEnded, Zenon DEF Authorize
<1>9. CASE RunProject \/ StartCapture \/ Capture
  <2>1. ASSUME NEW to \in {"RUNNING", "CAPTURING", "COMPARING"}
        PROVE  Advanced(to).status \notin Terminal
    BY AdvancedFields, Zenon DEF Status, Mutating, Terminal
  <2> QED
    BY <1>9, <2>1, CheckpointEnded, Zenon DEF RunProject, StartCapture, Capture, NextPhase
<1>10. CASE \E b \in BOOLEAN : Analyze(b)
  BY <1>10, RoundCompletedFields, CheckpointEnded, Zenon DEF Analyze, Terminal
<1>11. CASE KeepFixing
  <2>1. Advanced("FIXING").status = "FIXING"
    BY AdvancedFields, Zenon DEF Status
  <2> QED BY <1>11, <2>1, CheckpointEnded, Zenon DEF KeepFixing, Terminal
<1>12. CASE CommitTerminal
  BY <1>12, CheckpointEnded, Zenon DEF CommitTerminal
<1>13. CASE CloseWorker \/ ReleaseActive
  BY <1>13, Zenon DEF CloseWorker, ReleaseActive, EndedInv
<1>14. CASE RecordDecision
  <2>1. choice \in Decisions
    BY <1>14, Zenon DEF RecordDecision, ChoiceFits
  <2>2. Decided(choice).status \in Terminal => AfterDecision(choice) = "CLOSE"
    BY DecidedFields, Zenon DEF AfterDecision, Terminal
  <2>3. AfterDecision(choice) # "RELEASE"
    BY Zenon DEF AfterDecision
  <2> QED BY <1>14, <2>2, <2>3, CheckpointEnded, Zenon DEF RecordDecision
<1>15. CASE Schedule \/ \E d \in Decisions : BeginDecision(d)
  BY <1>15, Zenon DEF Schedule, BeginDecision, EndedInv, Terminal
<1>16. CASE ExternalEdit \/ LeaseExpires \/ OwnerFails \/ Crash
  BY <1>16, Zenon DEF ExternalEdit, LeaseExpires, OwnerFails, Crash, Abandon, EndedInv
<1>17. CASE \E p \in Stoppers : StopStep(p)
  BY <1>17, StopStepElsewhere, Zenon DEF StopElsewhere, EndedInv
<1>18. CASE UNCHANGED vars
  BY <1>18, Zenon DEF vars, EndedInv
<1> QED
  BY <1>1, <1>2, <1>3, <1>4, <1>5, <1>6, <1>7, <1>8, <1>9, <1>10, <1>11, <1>12,
     <1>13, <1>14, <1>15, <1>16, <1>17, <1>18, Zenon DEF Next, WorkerStep

(* Once a session has ended its worker only closes and releases: nothing   *)
(* is checkpointed over a terminal record.                                 *)
THEOREM EndedInvariant == Spec => []EndedInv
<1>1. Init => EndedInv
  BY Zenon DEF Init, EndedInv, Terminal
<1>2. (TypeOK /\ ChoiceFits) /\ EndedInv /\ [Next]_vars => EndedInv'
  BY EndedStep
<1> QED
  BY TypeInvariant, <1>1, <1>2, PTL DEF Spec

(* A session that has not ended owns the project's active-loop claim.      *)
THEOREM ActiveClaimKept == Spec => []ActiveUntilTerminal
<1>1. EndedInv => ActiveUntilTerminal
  BY Zenon DEF EndedInv, ActiveUntilTerminal
<1> QED
  BY EndedInvariant, <1>1, PTL

-----------------------------------------------------------------------------
(* A worker about to mutate holds an authorization for this round.         *)

Authority == session.eval = "ALLOW" \/ session.decision = "APPROVE_ONCE"

AuthorityInv ==
  /\ pc = "EXECUTE" => session.decision = "APPROVE_ONCE"
  /\ pc \in {"EDITING", "MUTATE"} => session.status = "EDITING" /\ Authority
  /\ pc = "MUTATE" => session.eval = "ALLOW" \/ session.createdAt \in consumed

Unarmed == pc' \notin {"EXECUTE", "EDITING", "MUTATE"}

(* Only the steps excepted here bring a worker in front of a mutation.     *)
LEMMA WorkerUnarmed ==
  ASSUME WorkerStep, ~BeginEditing, ~Authorize, ~RecordDecision
  PROVE  Unarmed
<1>. USE DEF Elsewhere, Unarmed
<1>1. ASSUME NEW s, NEW next, Checkpoint(s, next),
             next \notin {"EXECUTE", "EDITING", "MUTATE"}
      PROVE  Unarmed
  BY <1>1, CheckpointCases, Zenon
<1>2. CASE StopAtBoundary \/ AmbiguousStop \/ Prepare \/ RecoverInterrupted
           \/ Resume \/ ReturnUnresolved \/ BeginRound \/ ProposalFails
  BY <1>1, <1>2, Zenon DEF StopAtBoundary, AmbiguousStop, Throw, Prepare, Fails,
     RecoverInterrupted, Resume, ReturnUnresolved, Abandon, BeginRound, ProposalFails
<1>3. CASE (\E c \in Changes : Propose(c)) \/ OpenGate \/ ApplyMutation
           \/ MutationFails \/ RunProject \/ StartCapture \/ Capture \/ PhaseFails
  BY <1>1, <1>3, Zenon DEF Propose, OpenGate, ApplyMutation, MutationFails, RunProject,
     StartCapture, Capture, NextPhase, PhaseFails, Fails
<1>4. CASE (\E b \in BOOLEAN : Analyze(b)) \/ KeepFixing \/ ReachTerminal
           \/ ClaimTerminal \/ StopWins \/ TerminalConflict \/ CommitTerminal
  BY <1>1, <1>4, Zenon DEF Analyze, KeepFixing, ReachTerminal, ClaimTerminal,
     StopWins, TerminalConflict, Abandon, CommitTerminal
<1>5. CASE RecordFailure \/ CloseWorker \/ ReleaseActive \/ ClaimGate \/ Reevaluate
  BY <1>1, <1>5, Zenon DEF RecordFailure, Fails, CloseWorker, ReleaseActive,
     ClaimGate, Throw, Reevaluate
<1> QED
  BY <1>2, <1>3, <1>4, <1>5, Zenon DEF WorkerStep

(* Every step keeps AuthorityInv.                                          *)
LEMMA AuthorityStep ==
  ASSUME TypeOK, ChoiceFits, Valid(session), AuthorityInv, [Next]_vars
  PROVE  AuthorityInv'
<1>. session \in Sessions
  BY Zenon DEF TypeOK
<1>0. ASSUME Unarmed PROVE AuthorityInv'
  BY <1>0, Zenon DEF Unarmed, AuthorityInv
<1>1. CASE BeginEditing
  <2>1. Authority
    BY <1>1, Zenon DEF BeginEditing, AuthorityInv, Authority
  <2>2. CASE session' = Editing /\ pc' = "EDITING"
    BY <2>1, <2>2, EditingFields, Zenon DEF AuthorityInv, Authority
  <2>3. CASE pc' = "NONE"
    BY <1>0, <2>3, Zenon DEF Unarmed
  <2> QED BY <1>1, <2>2, <2>3, CheckpointCases, Zenon DEF BeginEditing
<1>2. CASE Authorize
  <2>1. CASE session.eval = "ALLOW" \/ session.createdAt \notin consumed
    BY <1>2, <2>1, Zenon DEF Authorize, Consumed, AuthorityInv, Authority
  <2>2. CASE ~(session.eval = "ALLOW" \/ session.createdAt \notin consumed)
    BY <1>0, <1>2, <2>2, CheckpointCases, Zenon DEF Authorize, Fails, Unarmed
  <2> QED BY <2>1, <2>2
<1>3. CASE RecordDecision
  <2>1. CASE session' = Decided(choice) /\ pc' = AfterDecision(choice)
    <3>1. pc' \in {"CLOSE", "EXECUTE", "REEVALUATE"}
      BY <2>1, Zenon DEF AfterDecision
    <3>2. pc' = "EXECUTE" => session'.decision = "APPROVE_ONCE"
      BY <2>1, DecidedFields, Zenon DEF AfterDecision
    <3> QED BY <3>1, <3>2, Zenon DEF AuthorityInv
  <2>2. CASE pc' = "NONE"
    BY <1>0, <2>2, Zenon DEF Unarmed
  <2> QED BY <1>3, <2>1, <2>2, CheckpointCases, Zenon DEF RecordDecision
<1>4. CASE WorkerStep
  BY <1>0, <1>1, <1>2, <1>3, <1>4, WorkerUnarmed, Zenon
<1>5. CASE Schedule \/ (\E d \in Decisions : BeginDecision(d)) \/ OwnerFails \/ Crash
  BY <1>0, <1>5, Zenon DEF Schedule, BeginDecision, OwnerFails, Abandon, Crash, Unarmed
<1>6. CASE ExternalEdit \/ LeaseExpires
  BY <1>6, Zenon DEF ExternalEdit, LeaseExpires, Elsewhere, AuthorityInv, Authority
<1>7. CASE \E p \in Stoppers : StopStep(p)
  <2>1. UNCHANGED <<session, pc, consumed>>
    BY <1>7, StopStepElsewhere, Zenon DEF StopElsewhere
  <2> QED BY <2>1, Zenon DEF AuthorityInv, Authority
<1>8. CASE UNCHANGED vars
  BY <1>8, Zenon DEF vars, AuthorityInv, Authority
<1> QED
  BY <1>4, <1>5, <1>6, <1>7, <1>8, Zenon DEF Next

(* A worker armed to mutate holds the authority the code checks before it: *)
(* this round's ALLOW, or this round's consumed Approve Once decision.     *)
THEOREM AuthorityInvariant == Spec => []AuthorityInv
<1>1. Init => AuthorityInv
  BY Zenon DEF Init, AuthorityInv
<1>2. (TypeOK /\ ChoiceFits) /\ Valid(session) /\ AuthorityInv /\ [Next]_vars
        => AuthorityInv'
  BY AuthorityStep
<1> QED
  BY TypeInvariant, DurableSessionValid, <1>1, <1>2, PTL DEF Spec

(* Nothing but the executor's mutation counts as one.                      *)
LEMMA AppliedStep ==
  ASSUME [Next]_vars, applied' # applied
  PROVE  ApplyMutation
<1>. USE DEF Elsewhere, observed
<1>1. CASE WorkerStep
  BY <1>1, Zenon DEF WorkerStep, StopAtBoundary, AmbiguousStop, Prepare,
     RecoverInterrupted, Resume, ReturnUnresolved, BeginRound, ProposalFails, Propose,
     OpenGate, BeginEditing, Authorize, MutationFails, RunProject, StartCapture,
     Capture, NextPhase, PhaseFails, Analyze, KeepFixing, ReachTerminal,
     ClaimTerminal, StopWins, TerminalConflict, CommitTerminal, RecordFailure,
     CloseWorker, ReleaseActive, ClaimGate, RecordDecision, Reevaluate
<1>2. CASE ~WorkerStep
  BY <1>2, StopStepElsewhere, Zenon DEF Next, Schedule, BeginDecision, ExternalEdit,
     LeaseExpires, OwnerFails, Crash, StopElsewhere, vars
<1> QED
  BY <1>1, <1>2

(* The target is mutated only in an EDITING session under an evaluation of *)
(* this round that allowed the change, or under the Approve Once decision  *)
(* of this round's gate, whose single-use claim is on disk.                *)
THEOREM MutationsAuthorized == Spec => MutationAuthorized
<1>. DEFINE A == applied' # applied =>
                   /\ session.status = "EDITING" /\ session.evalRound = Round(session)
                   /\ \/ session.eval = "ALLOW"
                      \/ /\ session.decision = "APPROVE_ONCE"
                         /\ session.gateRound = Round(session)
                         /\ session.createdAt \in consumed
<1>1. AuthorityInv /\ Valid(session) /\ [Next]_vars => [A]_vars
  <2>. SUFFICES ASSUME AuthorityInv, Valid(session), [Next]_vars, applied' # applied
                PROVE  A
    BY Zenon
  <2>1. ApplyMutation
    BY AppliedStep, Zenon
  <2>2. /\ session.status = "EDITING" /\ Authority
        /\ session.eval = "ALLOW" \/ session.createdAt \in consumed
    BY <2>1, Zenon DEF ApplyMutation, AuthorityInv
  <2>3. /\ session.evalRound = Round(session)
        /\ session.eval = "ALLOW" \/ GateOfLatest(session)
    BY <2>2, Zenon DEF Valid, EditingLinked, Mutating
  <2> QED
    BY <2>2, <2>3, Zenon DEF GateOfLatest, Authority
<1> QED
  BY AuthorityInvariant, DurableSessionValid, <1>1, PTL DEF Spec, MutationAuthorized

-----------------------------------------------------------------------------
(* At most one mutation for a round.                                       *)

Unmutated == \A r \in 1 .. MaxRounds : r >= Round(session) => applied[r] = 0

Armed == pc \in BeforeMutation \/ session.status \notin Settled

MutationInv ==
  /\ OneMutationPerRound
  /\ \A r \in 1 .. MaxRounds : r > Round(session) => applied[r] = 0
  /\ Armed => Unmutated

(* A step that stays in its round and mutates nothing keeps it unmutated.  *)
LEMMA SameRound ==
  ASSUME MutationInv, applied' = applied, session'.rounds = session.rounds,
         Armed' => Armed
  PROVE  MutationInv'
<1>1. Round(session)' = Round(session)
  BY Zenon DEF Round
<1> QED
  BY <1>1, Zenon DEF MutationInv, OneMutationPerRound, Unmutated

(* A checkpoint of a worker that has not mutated, or of an ended session.  *)
LEMMA CheckpointSameRound ==
  ASSUME MutationInv, NEW s, NEW next, Checkpoint(s, next), applied' = applied,
         s.rounds = session.rounds,
         \/ Armed
         \/ s.status \in Settled /\ next \notin BeforeMutation
  PROVE  MutationInv'
<1>1. CASE session' = s /\ pc' = next
  BY <1>1, SameRound, Zenon DEF Armed
<1>2. CASE session' = session /\ pc' = "NONE"
  BY <1>2, SameRound, Zenon DEF Armed, BeforeMutation
<1> QED
  BY <1>1, <1>2, CheckpointCases

(* Every step keeps MutationInv.                                           *)
LEMMA MutationStep ==
  ASSUME TypeOK, ChoiceFits, AuthorityInv, MutationInv, [Next]_vars
  PROVE  MutationInv'
<1>. session \in Sessions
  BY Zenon DEF TypeOK
<1>. USE DEF Elsewhere, observed
<1>0. ASSUME applied' = applied, session' = session,
             Armed \/ pc' \notin BeforeMutation
      PROVE  MutationInv'
  BY <1>0, SameRound, Zenon DEF Armed
<1>f. ASSUME Fails, applied' = applied PROVE MutationInv'
  <2>1. Advanced("FAILED").status = "FAILED" /\ Advanced("FAILED").rounds = session.rounds
    BY AdvancedFields, Zenon DEF Status, Terminal
  <2> QED BY <1>f, <2>1, CheckpointSameRound, Zenon
            DEF Fails, Settled, Terminal, BeforeMutation
<1>u. ASSUME Checkpoint(Unreconciled, "CLOSE"), applied' = applied PROVE MutationInv'
  BY <1>u, UnreconciledFields, CheckpointSameRound, Zenon
     DEF Settled, Terminal, BeforeMutation
<1>1. CASE StopAtBoundary \/ StopWins
  BY <1>1, BlockedFields, CheckpointSameRound, Zenon
     DEF StopAtBoundary, StopWins, Settled, Terminal, BeforeMutation
<1>2. CASE AmbiguousStop \/ ReturnUnresolved \/ CloseWorker \/ ReleaseActive
  BY <1>0, <1>2, Zenon DEF AmbiguousStop, Throw, ReturnUnresolved, Abandon,
     CloseWorker, ReleaseActive, BeforeMutation
<1>3. CASE Prepare
  <2>1. Advanced("PREPARING").rounds = session.rounds
    BY AdvancedFields, Zenon DEF Status
  <2> QED BY <1>3, <2>1, CheckpointSameRound, Zenon
            DEF Prepare, Armed, Settled, Mutating, Terminal
<1>4. CASE RecoverInterrupted \/ MutationFails
  BY <1>4, <1>f, <1>u, Zenon DEF RecoverInterrupted, MutationFails
<1>5. CASE Resume
  BY <1>0, <1>5, Zenon DEF Resume, Armed, Settled, Mutating, Terminal
<1>6. CASE BeginRound
  <2>1. Advanced("BLOCKED").rounds = session.rounds
    BY AdvancedFields, Zenon DEF Status, Terminal
  <2>2. Armed
    BY <1>6, Zenon DEF BeginRound, Armed, BeforeMutation
  <2> QED BY <1>0, <1>6, <2>1, <2>2, CheckpointSameRound, Zenon DEF BeginRound
<1>7. CASE ProposalFails \/ PhaseFails \/ RecordFailure
  BY <1>7, <1>f, Zenon DEF ProposalFails, PhaseFails, RecordFailure
<1>8. CASE (\E c \in Changes : Propose(c)) \/ Reevaluate
  BY <1>8, PolicyCheckedFields, CheckpointSameRound, Zenon
     DEF Propose, Reevaluate, Armed, BeforeMutation
<1>9. CASE OpenGate \/ BeginEditing
  BY <1>9, GatedFields, EditingFields, CheckpointSameRound, Zenon
     DEF OpenGate, BeginEditing, Armed, BeforeMutation
<1>10. CASE Authorize
  BY <1>0, <1>f, <1>10, Zenon DEF Authorize, Armed, BeforeMutation
<1>11. CASE ApplyMutation
  <2>1. Armed
    BY <1>11, Zenon DEF ApplyMutation, Armed, BeforeMutation
  <2>2. session' = session /\ Round(session)' = Round(session)
    BY <1>11, Zenon DEF ApplyMutation, Round
  <2>3. ~Armed'
    BY <1>11, <2>2, Zenon DEF ApplyMutation, AuthorityInv, Armed, BeforeMutation,
                              Settled, Mutating
  <2>4. \A r \in 1 .. MaxRounds :
          applied'[r] = IF r = Round(session) THEN 1 ELSE applied[r]
    BY <1>11, <2>1, SMT DEF ApplyMutation, MutationInv, Unmutated, TypeOK
  <2>5. OneMutationPerRound'
    BY <2>4, SMT DEF MutationInv, OneMutationPerRound
  <2>6. \A r \in 1 .. MaxRounds : r > Round(session)' => applied'[r] = 0
    BY <2>2, <2>4, SMT DEF MutationInv
  <2> QED BY <2>3, <2>5, <2>6, Zenon DEF MutationInv
<1>12. CASE RunProject \/ StartCapture \/ Capture
  <2>1. ASSUME NEW to \in {"RUNNING", "CAPTURING", "COMPARING"}
        PROVE  /\ Advanced(to).status \in Settled
               /\ Advanced(to).rounds = session.rounds
               /\ to \notin BeforeMutation
    BY AdvancedFields, Zenon DEF Status, Mutating, Settled, BeforeMutation
  <2> QED BY <1>12, <2>1, CheckpointSameRound, Zenon
            DEF RunProject, StartCapture, Capture, NextPhase
<1>13. CASE \E b \in BOOLEAN : Analyze(b)
  <2>1. PICK b \in BOOLEAN : Analyze(b)
    BY <1>13, Zenon
  <2>2. applied' = applied
    BY <2>1, Zenon DEF Analyze
  <2>3. CASE session' = session /\ pc' = "NONE"
    BY <1>0, <2>2, <2>3, Zenon DEF BeforeMutation
  <2>4. CASE session' = RoundCompleted(b)
    <3>1. session'.rounds = session.rounds + 1
      BY <2>4, RoundCompletedFields, Zenon
    <3>2. session.rounds \in Nat
      BY FieldTypes, Zenon
    <3>3. Round(session)' = Round(session) + 1
      BY <3>1, Zenon DEF Round
    <3>4. Unmutated' /\ \A r \in 1 .. MaxRounds : r > Round(session)' => applied'[r] = 0
      BY <2>2, <3>2, <3>3, SMT DEF MutationInv, Unmutated, Round
    <3> QED BY <2>2, <3>4, Zenon DEF MutationInv, OneMutationPerRound
  <2> QED BY <2>1, <2>3, <2>4, CheckpointCases, Zenon DEF Analyze
<1>14. CASE KeepFixing
  <2>1. Advanced("FIXING").rounds = session.rounds
    BY AdvancedFields, Zenon DEF Status
  <2> QED BY <1>14, <2>1, CheckpointSameRound, Zenon DEF KeepFixing, Armed, BeforeMutation
<1>15. CASE ReachTerminal \/ ClaimTerminal \/ TerminalConflict \/ ClaimGate
  BY <1>0, <1>15, Zenon DEF ReachTerminal, ClaimTerminal, TerminalConflict, Abandon,
     ClaimGate, Throw, Armed, BeforeMutation
<1>16. CASE CommitTerminal
  <2>1. Advanced(choice).rounds = session.rounds
    BY <1>16, AdvancedFields, Zenon DEF CommitTerminal, ChoiceFits, Status, Terminal
  <2> QED BY <1>16, <2>1, CheckpointSameRound, Zenon
            DEF CommitTerminal, Armed, BeforeMutation
<1>17. CASE RecordDecision
  BY <1>17, DecidedFields, CheckpointSameRound, Zenon
     DEF RecordDecision, Armed, BeforeMutation
<1>18. CASE Schedule \/ OwnerFails \/ Crash \/ ExternalEdit \/ LeaseExpires
  BY <1>0, <1>18, SameRound, Zenon DEF Schedule, OwnerFails, Abandon, Crash,
     ExternalEdit, LeaseExpires, BeforeMutation, Armed
<1>19. CASE \E d \in Decisions : BeginDecision(d)
  BY <1>0, <1>19, Zenon DEF BeginDecision, Armed, Settled, Mutating, Terminal
<1>20. CASE \E p \in Stoppers : StopStep(p)
  BY <1>20, SameRound, StopStepElsewhere, Zenon DEF StopElsewhere, Armed
<1>21. CASE UNCHANGED vars
  BY <1>21, SameRound, Zenon DEF vars, Armed
<1> QED
  BY <1>1, <1>2, <1>3, <1>4, <1>5, <1>6, <1>7, <1>8, <1>9, <1>10, <1>11, <1>12,
     <1>13, <1>14, <1>15, <1>16, <1>17, <1>18, <1>19, <1>20, <1>21, Zenon
     DEF Next, WorkerStep

(* However often the server crashes and the loop is recovered, the target  *)
(* is mutated at most once for each round.                                 *)
THEOREM SingleMutation == Spec => []OneMutationPerRound
<1>1. Init => MutationInv
  BY SMT DEF Init, MutationInv, OneMutationPerRound, Unmutated
<1>2. (TypeOK /\ ChoiceFits) /\ AuthorityInv /\ MutationInv /\ [Next]_vars
        => MutationInv'
  BY MutationStep
<1>3. MutationInv => OneMutationPerRound
  BY Zenon DEF MutationInv
<1> QED
  BY TypeInvariant, AuthorityInvariant, <1>1, <1>2, <1>3, PTL DEF Spec

-----------------------------------------------------------------------------
(* Stop, a gate decision and a PASS of one session version exclude each    *)
(* other: the claim files of a version decide, and the session moves on    *)
(* before any of them is given up.                                         *)

StopOf(p) == \E q \in stops : q.by = p /\ q.version = seen[p].version

ClaimsDisjoint ==
  /\ gateClaims \cap terminalClaims = {}
  /\ \A q \in stops : q.version \notin gateClaims \cup terminalClaims

VersionInv ==
  /\ session.version > 0
  /\ \A p \in Stoppers : stopPc[p] # "idle" => seen[p].version > 0
  /\ decidedFrom < session.version

ClaimInv ==
  /\ ClaimsDisjoint
  /\ pc = "COMMITTING" => session.version \in terminalClaims
  /\ pc = "DECIDE" => session.version \in gateClaims
  /\ decidedFrom = 0 \/ decidedFrom \in gateClaims
  /\ \A p \in Stoppers : stopPc[p] \in {"written", "acked"} => StopOf(p)

PassInv ==
  passedFrom # 0 =>
    /\ session.status = "COMPLETE"
    /\ \A p \in Stoppers : stopPc[p] = "acked" => seen[p].version # passedFrom

(* A step of the worker that neither takes nor gives up a claim file.      *)
ClaimsKept ==
  /\ UNCHANGED <<stops, gateClaims, terminalClaims, seen, stopPc>>
  /\ UNCHANGED <<decidedFrom, passedFrom>>
  /\ pc' \notin {"COMMITTING", "DECIDE"}

(* All other steps of the worker leave the claim files as they are.        *)
LEMMA WorkerClaimsKept ==
  ASSUME WorkerStep, ~ClaimTerminal, ~CommitTerminal, ~ClaimGate, ~RecordDecision
  PROVE  ClaimsKept
<1>. USE DEF Elsewhere, observed, claims, stopVars, ClaimsKept
<1>1. ASSUME NEW s, NEW next, Checkpoint(s, next), next \notin {"COMMITTING", "DECIDE"}
      PROVE  pc' \notin {"COMMITTING", "DECIDE"}
  BY <1>1, CheckpointCases, Zenon
<1>2. CASE StopAtBoundary \/ AmbiguousStop \/ Prepare \/ RecoverInterrupted
           \/ Resume \/ ReturnUnresolved \/ BeginRound \/ ProposalFails
  BY <1>1, <1>2, Zenon DEF StopAtBoundary, AmbiguousStop, Throw, Prepare, Fails,
     RecoverInterrupted, Resume, ReturnUnresolved, Abandon, BeginRound, ProposalFails
<1>3. CASE (\E c \in Changes : Propose(c)) \/ OpenGate \/ BeginEditing \/ Authorize
           \/ ApplyMutation \/ MutationFails
  BY <1>1, <1>3, Zenon DEF Propose, OpenGate, BeginEditing, Authorize, Fails,
     ApplyMutation, MutationFails
<1>4. CASE RunProject \/ StartCapture \/ Capture \/ PhaseFails
           \/ (\E b \in BOOLEAN : Analyze(b)) \/ KeepFixing
  BY <1>1, <1>4, Zenon DEF RunProject, StartCapture, Capture, NextPhase, PhaseFails,
     Fails, Analyze, KeepFixing
<1>5. CASE ReachTerminal \/ TerminalConflict \/ CloseWorker \/ ReleaseActive
  BY <1>5, SMT DEF ReachTerminal, TerminalConflict, Abandon, CloseWorker, ReleaseActive
<1>6. CASE StopWins
  <2>1. PICK q \in stops : Checkpoint(Blocked(q), "CLOSE")
    BY <1>6, Zenon DEF StopWins
  <2> QED BY <1>1, <1>6, <2>1, Zenon DEF StopWins
<1>7. CASE RecordFailure \/ Reevaluate
  BY <1>1, <1>7, Zenon DEF RecordFailure, Fails, Reevaluate
<1> QED
  BY <1>2, <1>3, <1>4, <1>5, <1>6, <1>7, Zenon DEF WorkerStep

(* A step leaves the session alone or advances its version by one.         *)
LEMMA VersionStep ==
  ASSUME TypeOK, ChoiceFits, [Next]_vars
  PROVE  session' = session \/ session'.version = session.version + 1
<1>. session \in Sessions
  BY Zenon DEF TypeOK
<1>. USE DEF Elsewhere, Abandon
<1>1. ASSUME NEW s, NEW next, Checkpoint(s, next), s.version = session.version + 1
      PROVE  session' = session \/ session'.version = session.version + 1
  BY <1>1, CheckpointCases, Zenon
<1>a. \A status \in Status : Advanced(status).version = session.version + 1
  BY AdvancedFields, Zenon
<1>s. {"PREPARING", "BLOCKED", "FAILED", "RUNNING", "CAPTURING", "COMPARING",
       "FIXING", "COMPLETE"} \subseteq Status
  BY Zenon DEF Status, Mutating, Terminal
<1>2. CASE StopAtBoundary \/ StopWins \/ AmbiguousStop \/ RecoverInterrupted
  BY <1>1, <1>2, BlockedFields, UnreconciledFields, Zenon DEF StopAtBoundary, StopWins,
     AmbiguousStop, Throw, RecoverInterrupted
<1>3. CASE Prepare \/ BeginRound \/ ProposalFails \/ Authorize \/ MutationFails
           \/ PhaseFails \/ RecordFailure \/ KeepFixing
  BY <1>1, <1>3, <1>a, <1>s, UnreconciledFields, Zenon DEF Prepare, BeginRound,
     ProposalFails, Fails, Authorize, MutationFails, PhaseFails, RecordFailure, KeepFixing
<1>4. CASE RunProject \/ StartCapture \/ Capture
  BY <1>1, <1>4, <1>a, <1>s, Zenon DEF RunProject, StartCapture, Capture, NextPhase
<1>5. CASE Resume \/ ReturnUnresolved \/ ApplyMutation \/ ReachTerminal \/ ClaimTerminal
           \/ TerminalConflict \/ CloseWorker \/ ReleaseActive \/ ClaimGate
  BY <1>5, Zenon DEF Resume, ReturnUnresolved, ApplyMutation, ReachTerminal,
     ClaimTerminal, TerminalConflict, CloseWorker, ReleaseActive, ClaimGate, Throw
<1>6. CASE (\E c \in Changes : Propose(c)) \/ OpenGate \/ BeginEditing
           \/ (\E b \in BOOLEAN : Analyze(b)) \/ RecordDecision \/ Reevaluate
  BY <1>1, <1>6, PolicyCheckedFields, GatedFields, EditingFields, RoundCompletedFields,
     DecidedFields, Zenon DEF Propose, OpenGate, BeginEditing, Analyze, RecordDecision,
     Reevaluate
<1>7. CASE CommitTerminal
  BY <1>1, <1>7, <1>a, <1>s, Zenon DEF CommitTerminal, ChoiceFits
<1>8. CASE ~WorkerStep
  BY <1>8, StopStepElsewhere, Zenon DEF Next, Schedule, BeginDecision, ExternalEdit,
     LeaseExpires, OwnerFails, Crash, StopElsewhere, vars
<1> QED
  BY <1>2, <1>3, <1>4, <1>5, <1>6, <1>7, <1>8, Zenon DEF WorkerStep

(* Confirming a Stop keeps what every handler has read and withdraws its   *)
(* own request only.                                                       *)
LEMMA ConfirmKeeps ==
  ASSUME TypeOK, NEW p \in Stoppers, StopConfirm(p)
  PROVE  /\ stops' \subseteq stops
         /\ \A r \in Stoppers : /\ seen'[r].version = seen[r].version
                                /\ seen'[r].at = seen[r].at
                                /\ \/ stopPc'[r] = stopPc[r]
                                   \/ /\ stopPc[r] = "written"
                                      /\ stopPc'[r] \in {"acked", "refused"}
<1>1. seen \in [Stoppers -> [version: Nat, at: Nat, confirmed: Nat]]
      /\ stopPc \in [Stoppers -> StopPhases]
  BY Zenon DEF TypeOK, StopPhases
<1>2. PICK phase \in {"acked", "refused"} : stopPc' = [stopPc EXCEPT ![p] = phase]
  BY Zenon DEF StopConfirm
<1>3. stops' \subseteq stops /\ stopPc[p] = "written"
  BY Zenon DEF StopConfirm
<1>4. seen' = seen \/ seen' = [seen EXCEPT ![p].confirmed = session.version]
  BY Zenon DEF StopConfirm
<1>5. ASSUME NEW r \in Stoppers
      PROVE  seen'[r].version = seen[r].version /\ seen'[r].at = seen[r].at
  BY <1>1, <1>4, SMT
<1>6. ASSUME NEW r \in Stoppers
      PROVE  \/ stopPc'[r] = stopPc[r]
             \/ stopPc[r] = "written" /\ stopPc'[r] \in {"acked", "refused"}
  BY <1>1, <1>2, <1>3, Zenon
<1> QED BY <1>3, <1>5, <1>6

(* A Stop handler that has read the session knows a version above zero.    *)
LEMMA StopReadsVersion ==
  ASSUME TypeOK, NEW p \in Stoppers, StopStep(p), session.version > 0,
         \A q \in Stoppers : stopPc[q] # "idle" => seen[q].version > 0
  PROVE  \A q \in Stoppers : stopPc'[q] # "idle" => seen'[q].version > 0
<1>1. CASE StopRead(p)
  BY <1>1, SMT DEF StopRead, TypeOK
<1>2. CASE StopList(p)
  BY <1>2, SMT DEF StopList, TypeOK
<1>3. CASE StopWrite(p)
  BY <1>3, SMT DEF StopWrite, TypeOK
<1>4. CASE StopConfirm(p)
  <2>. SUFFICES ASSUME NEW q \in Stoppers, stopPc'[q] # "idle"
                PROVE  seen'[q].version > 0
    OBVIOUS
  <2>1. stopPc[q] # "idle" /\ seen'[q].version = seen[q].version
    BY <1>4, ConfirmKeeps, Zenon
  <2> QED BY <2>1, Zenon
<1> QED BY <1>1, <1>2, <1>3, <1>4, Zenon DEF StopStep

(* Every step keeps VersionInv.                                            *)
LEMMA VersionInvStep ==
  ASSUME TypeOK, ChoiceFits, VersionInv, [Next]_vars
  PROVE  VersionInv'
<1>. session \in Sessions /\ session.version \in Nat /\ decidedFrom \in Nat
  BY FieldTypes, Zenon DEF TypeOK
<1>1. /\ session'.version \in Nat
      /\ session'.version > 0 /\ session'.version >= session.version
  BY VersionStep, SMT DEF VersionInv
<1>2. decidedFrom' < session'.version
  <2>1. CASE decidedFrom' = decidedFrom
    BY <1>1, <2>1, SMT DEF VersionInv
  <2>2. CASE RecordDecision /\ decidedFrom' # decidedFrom
    <3>1. Valid(Decided(choice)) /\ decidedFrom' = session.version
      BY <2>2, Zenon DEF RecordDecision
    <3>2. session' = Decided(choice)
      BY <2>2, <3>1, Zenon DEF RecordDecision, Checkpoint
    <3> QED BY <3>1, <3>2, DecidedFields, SMT
  <2>3. RecordDecision \/ decidedFrom' = decidedFrom
    <3>1. CASE WorkerStep
      BY <3>1, WorkerClaimsKept, Zenon
         DEF ClaimsKept, ClaimTerminal, CommitTerminal, ClaimGate, observed
    <3>2. CASE ~WorkerStep
      BY <3>2, StopStepElsewhere, Zenon DEF Next, Schedule, BeginDecision, ExternalEdit,
         LeaseExpires, OwnerFails, Crash, Elsewhere, StopElsewhere, vars, observed
    <3> QED BY <3>1, <3>2
  <2> QED BY <2>1, <2>2, <2>3
<1>3. \A p \in Stoppers : stopPc'[p] # "idle" => seen'[p].version > 0
  <2>1. CASE \E p \in Stoppers : StopStep(p)
    BY <2>1, StopReadsVersion, Zenon DEF VersionInv
  <2>2. CASE UNCHANGED <<stopPc, seen>>
    BY <2>2, Zenon DEF VersionInv
  <2>3. CASE Crash
    BY <2>3, SMT DEF Crash, VersionInv, TypeOK
  <2>4. CASE WorkerStep
    BY <2>2, <2>4, WorkerClaimsKept, Zenon DEF ClaimsKept, ClaimTerminal,
       CommitTerminal, ClaimGate, RecordDecision, stopVars
  <2>5. CASE Schedule \/ (\E d \in Decisions : BeginDecision(d)) \/ ExternalEdit
             \/ LeaseExpires \/ OwnerFails \/ UNCHANGED vars
    BY <2>2, <2>5, Zenon DEF Schedule, BeginDecision, ExternalEdit, LeaseExpires,
       OwnerFails, Elsewhere, vars, stopVars
  <2> QED BY <2>1, <2>3, <2>4, <2>5, Zenon DEF Next
<1> QED
  BY <1>1, <1>2, <1>3, Zenon DEF VersionInv

(* Versions start above zero, every Stop handler that has read the session *)
(* knows such a version, and a decision's version has been superseded.     *)
THEOREM VersionInvariant == Spec => []VersionInv
<1>1. Init => VersionInv
  BY SMT DEF Init, VersionInv
<1>2. (TypeOK /\ ChoiceFits) /\ VersionInv /\ [Next]_vars => VersionInv'
  BY VersionInvStep
<1> QED
  BY TypeInvariant, <1>1, <1>2, PTL DEF Spec

(* A client's claim file is there from its write to its answer.            *)
LEMMA StopOfStep ==
  ASSUME TypeOK, NEW p \in Stoppers, StopStep(p),
         \A r \in Stoppers : stopPc[r] \in {"written", "acked"} => StopOf(r)
  PROVE  \A r \in Stoppers : stopPc'[r] \in {"written", "acked"} => StopOf(r)'
<1>. SUFFICES ASSUME NEW r \in Stoppers, stopPc'[r] \in {"written", "acked"}
              PROVE  StopOf(r)'
  BY Zenon
<1>1. CASE StopRead(p) \/ StopList(p)
  <2>1. r # p /\ stopPc'[r] = stopPc[r] /\ stops' = stops /\ seen'[r] = seen[r]
    BY <1>1, SMT DEF StopRead, StopList, TypeOK
  <2> QED BY <2>1, Zenon DEF StopOf
<1>2. CASE StopWrite(p)
  <2>1. CASE r = p
    <3>1. [by |-> p, version |-> seen[p].version, at |-> seen[p].at] \in stops'
      BY <1>2, <2>1, SMT DEF StopWrite, TypeOK
    <3>2. seen' = seen
      BY <1>2, Zenon DEF StopWrite
    <3> QED BY <2>1, <3>1, <3>2, SMT DEF StopOf
  <2>2. CASE r # p
    <3>1. stopPc'[r] = stopPc[r] /\ stops \subseteq stops' /\ seen'[r] = seen[r]
      BY <1>2, <2>2, SMT DEF StopWrite, TypeOK
    <3> QED BY <3>1, Zenon DEF StopOf
  <2> QED BY <2>1, <2>2
<1>3. CASE StopConfirm(p)
  <2>1. stopPc[r] \in {"written", "acked"} /\ seen'[r].version = seen[r].version
    BY <1>3, SMT DEF StopConfirm, TypeOK
  <2>2. \A q \in stops : q.by = r => q \in stops'
    BY <1>3, SMT DEF StopConfirm, TypeOK
  <2> QED BY <2>1, <2>2, Zenon DEF StopOf
<1> QED BY <1>1, <1>2, <1>3, Zenon DEF StopStep

(* Every step keeps ClaimInv.                                              *)
LEMMA ClaimInvStep ==
  ASSUME TypeOK, VersionInv, ClaimInv, [Next]_vars
  PROVE  ClaimInv'
<1>0. ASSUME UNCHANGED <<stops, gateClaims, terminalClaims, seen, stopPc, decidedFrom>>,
             pc' \notin {"COMMITTING", "DECIDE"} \/ UNCHANGED <<session, pc>>
      PROVE  ClaimInv'
  BY <1>0, Zenon DEF ClaimInv, ClaimsDisjoint, StopOf
<1>1. CASE ClaimTerminal
  <2>1. terminalClaims' = terminalClaims \cup {session.version}
        /\ UNCHANGED <<session, stops, gateClaims, seen, stopPc, decidedFrom>>
        /\ pc' = "COMMITTING"
    BY <1>1, Zenon DEF ClaimTerminal, stopVars, observed
  <2>2. ClaimsDisjoint'
    BY <1>1, <2>1, SMT DEF ClaimTerminal, Claimed, ClaimInv, ClaimsDisjoint
  <2> QED BY <2>1, <2>2, Zenon DEF ClaimInv, StopOf
<1>2. CASE CommitTerminal
  <2>1. /\ terminalClaims' \subseteq terminalClaims
        /\ UNCHANGED <<stops, gateClaims, seen, stopPc, decidedFrom>>
        /\ pc' \notin {"COMMITTING", "DECIDE"}
    BY <1>2, CheckpointCases, Zenon DEF CommitTerminal, stopVars
  <2> QED BY <2>1, Zenon DEF ClaimInv, ClaimsDisjoint, StopOf
<1>3. CASE ClaimGate
  <2>1. CASE Claimed(session.version)
    BY <1>0, <1>3, <2>1, Zenon DEF ClaimGate, Throw, stopVars, observed
  <2>2. CASE ~Claimed(session.version)
    <3>1. gateClaims' = gateClaims \cup {session.version}
          /\ UNCHANGED <<session, stops, terminalClaims, seen, stopPc, decidedFrom>>
          /\ pc' = "DECIDE"
      BY <1>3, <2>2, Zenon DEF ClaimGate, stopVars, observed
    <3>2. ClaimsDisjoint'
      BY <2>2, <3>1, SMT DEF Claimed, ClaimInv, ClaimsDisjoint
    <3> QED BY <3>1, <3>2, Zenon DEF ClaimInv, StopOf
  <2> QED BY <2>1, <2>2
<1>4. CASE RecordDecision
  <2>1. pc' \notin {"COMMITTING", "DECIDE"}
    BY <1>4, CheckpointCases, Zenon DEF RecordDecision, AfterDecision
  <2>2. UNCHANGED <<stops, terminalClaims, seen, stopPc>>
    BY <1>4, Zenon DEF RecordDecision, stopVars
  <2>3. CASE Valid(Decided(choice))
    <3>1. gateClaims' = gateClaims /\ decidedFrom' \in gateClaims
      BY <1>4, <2>3, Zenon DEF RecordDecision, ClaimInv
    <3> QED BY <2>1, <2>2, <3>1, Zenon DEF ClaimInv, ClaimsDisjoint, StopOf
  <2>4. CASE ~Valid(Decided(choice))
    <3>1. /\ gateClaims' \in {gateClaims, gateClaims \ {session.version}}
          /\ decidedFrom' = decidedFrom
      BY <1>4, <2>4, Zenon DEF RecordDecision, GateReleased
    <3>2. decidedFrom # session.version
      BY FieldTypes, SMT DEF TypeOK, VersionInv
    <3>3. /\ gateClaims' \subseteq gateClaims
          /\ decidedFrom = 0 \/ decidedFrom' \in gateClaims'
      BY <3>1, <3>2, Zenon DEF ClaimInv
    <3> QED BY <2>1, <2>2, <3>1, <3>3, Zenon DEF ClaimInv, ClaimsDisjoint, StopOf
  <2> QED BY <2>3, <2>4
<1>5. CASE WorkerStep
  BY <1>0, <1>1, <1>2, <1>3, <1>4, <1>5, WorkerClaimsKept, Zenon DEF ClaimsKept
<1>6. CASE Schedule \/ (\E d \in Decisions : BeginDecision(d)) \/ ExternalEdit
           \/ LeaseExpires \/ OwnerFails \/ UNCHANGED vars
  BY <1>0, <1>6, Zenon DEF Schedule, BeginDecision, ExternalEdit, LeaseExpires,
     OwnerFails, Abandon, Elsewhere, vars, claims, stopVars, observed
<1>7. CASE Crash
  <2>1. /\ UNCHANGED <<stops, gateClaims, terminalClaims, seen, decidedFrom>>
        /\ pc' = "NONE"
    BY <1>7, Zenon DEF Crash, claims, observed
  <2>2. \A p \in Stoppers : stopPc'[p] \in {"written", "acked"} => stopPc[p] = "acked"
    BY <1>7, SMT DEF Crash
  <2> QED BY <2>1, <2>2, Zenon DEF ClaimInv, ClaimsDisjoint, StopOf
<1>8. CASE \E p \in Stoppers : StopStep(p)
  <2>. PICK p \in Stoppers : StopStep(p)
    BY <1>8
  <2>1. UNCHANGED <<session, pc, gateClaims, terminalClaims, decidedFrom>>
    BY StopStepElsewhere, Zenon DEF StopElsewhere, observed
  <2>2. ClaimsDisjoint'
    BY <2>1, SMT DEF StopStep, StopRead, StopList, StopWrite, StopConfirm,
       Claimed, ClaimInv, ClaimsDisjoint
  <2>3. \A r \in Stoppers : stopPc'[r] \in {"written", "acked"} => StopOf(r)'
    BY StopOfStep, Zenon DEF ClaimInv
  <2> QED BY <2>1, <2>2, <2>3, Zenon DEF ClaimInv
<1> QED
  BY <1>5, <1>6, <1>7, <1>8, Zenon DEF Next

(* The claim files of one session version exclude each other, a worker     *)
(* that commits holds its claim, and a written Stop keeps its file.        *)
THEOREM ClaimInvariant == Spec => []ClaimInv
<1>1. Init => ClaimInv
  BY SMT DEF Init, ClaimInv, ClaimsDisjoint
<1>2. (TypeOK /\ ChoiceFits) /\ VersionInv /\ ClaimInv /\ [Next]_vars => ClaimInv'
  BY ClaimInvStep
<1> QED
  BY TypeInvariant, VersionInvariant, <1>1, <1>2, PTL DEF Spec

(* A session that is COMPLETE stays as it is.                              *)
LEMMA CompleteStays ==
  ASSUME session.status = "COMPLETE", pc \in {"CLOSE", "RELEASE", "NONE"}, [Next]_vars
  PROVE  session' = session
<1>1. CASE WorkerStep
  BY <1>1, SMT DEF WorkerStep, StopAtBoundary, StopBoundary, AmbiguousStop, Prepare,
     RecoverInterrupted, Resume, ReturnUnresolved, BeginRound, ProposalFails, Propose,
     OpenGate, BeginEditing, Authorize, ApplyMutation, MutationFails, RunProject,
     StartCapture, Capture, NextPhase, PhaseFails, Analyze, KeepFixing, ReachTerminal,
     ClaimTerminal, StopWins, TerminalConflict, CommitTerminal, RecordFailure,
     CloseWorker, ReleaseActive, ClaimGate, RecordDecision, Reevaluate
<1>2. CASE ~WorkerStep
  BY <1>2, StopStepElsewhere, Zenon DEF Next, Schedule, BeginDecision, ExternalEdit,
     LeaseExpires, OwnerFails, Abandon, Crash, Elsewhere, StopElsewhere, vars
<1> QED BY <1>1, <1>2

(* No Stop is acknowledged on a completed loop.                            *)
LEMMA AckStep ==
  ASSUME TypeOK, session.status = "COMPLETE", [Next]_vars
  PROVE  \A p \in Stoppers : stopPc'[p] = "acked"
                               => stopPc[p] = "acked" /\ seen'[p] = seen[p]
<1>1. CASE UNCHANGED <<stopPc, seen>>
  BY <1>1, Zenon
<1>2. CASE WorkerStep
  BY <1>1, <1>2, WorkerClaimsKept, Zenon DEF ClaimsKept, ClaimTerminal,
     CommitTerminal, ClaimGate, RecordDecision, stopVars
<1>3. CASE Schedule \/ (\E d \in Decisions : BeginDecision(d)) \/ ExternalEdit
           \/ LeaseExpires \/ OwnerFails \/ UNCHANGED vars
  BY <1>1, <1>3, Zenon DEF Schedule, BeginDecision, ExternalEdit, LeaseExpires,
     OwnerFails, Elsewhere, vars, stopVars
<1>4. CASE Crash
  BY <1>4, SMT DEF Crash, TypeOK
<1>5. CASE \E p \in Stoppers : StopStep(p)
  <2>. PICK p \in Stoppers : StopStep(p)
    BY <1>5
  <2>1. CASE StopRead(p) \/ StopList(p) \/ StopWrite(p)
    BY <2>1, SMT DEF StopRead, StopList, StopWrite, TypeOK
  <2>2. CASE StopConfirm(p)
    BY <2>2, SMT DEF StopConfirm, TypeOK, Terminal
  <2> QED BY <2>1, <2>2, Zenon DEF StopStep
<1> QED
  BY <1>2, <1>3, <1>4, <1>5, Zenon DEF Next

(* Every step keeps PassInv.                                               *)
LEMMA PassInvStep ==
  ASSUME TypeOK, ChoiceFits, EndedInv, VersionInv, ClaimInv, PassInv, [Next]_vars
  PROVE  PassInv'
<1>. session \in Sessions
  BY Zenon DEF TypeOK
<1>1. CASE CommitTerminal /\ passedFrom' # passedFrom
  <2>1. /\ Valid(Advanced(choice)) /\ choice = "COMPLETE" /\ passedFrom' = session.version
        /\ UNCHANGED <<stopPc, seen>>
    BY <1>1, Zenon DEF CommitTerminal, stopVars
  <2>2. session'.status = "COMPLETE"
    BY <1>1, <2>1, AdvancedFields, Zenon
       DEF CommitTerminal, Checkpoint, Status, Terminal
  <2>3. session.version \in terminalClaims
    BY <1>1, Zenon DEF CommitTerminal, ClaimInv
  <2>4. \A p \in Stoppers : stopPc[p] = "acked" => seen[p].version # session.version
    BY <2>3, Zenon DEF ClaimInv, ClaimsDisjoint, StopOf
  <2> QED BY <2>1, <2>2, <2>4, Zenon DEF PassInv
<1>2. CASE passedFrom' = passedFrom
  <2>. SUFFICES ASSUME passedFrom # 0
                PROVE  /\ session'.status = "COMPLETE"
                       /\ \A p \in Stoppers : stopPc'[p] = "acked"
                                                => seen'[p].version # passedFrom
    BY <1>2, Zenon DEF PassInv
  <2>1. session.status = "COMPLETE" /\ pc \in {"CLOSE", "RELEASE", "NONE"}
    BY Zenon DEF PassInv, EndedInv, Terminal
  <2>2. session' = session
    BY <2>1, CompleteStays, Zenon
  <2>3. \A p \in Stoppers : stopPc'[p] = "acked"
                              => stopPc[p] = "acked" /\ seen'[p] = seen[p]
    BY <2>1, AckStep, Zenon
  <2> QED BY <2>1, <2>2, <2>3, Zenon DEF PassInv
<1>3. CommitTerminal \/ passedFrom' = passedFrom
  <2>1. CASE WorkerStep
    BY <2>1, WorkerClaimsKept, Zenon
       DEF ClaimsKept, ClaimTerminal, ClaimGate, RecordDecision, observed
  <2>2. CASE ~WorkerStep
    BY <2>2, StopStepElsewhere, Zenon DEF Next, Schedule, BeginDecision, ExternalEdit,
       LeaseExpires, OwnerFails, Crash, Elsewhere, StopElsewhere, vars, observed
  <2> QED BY <2>1, <2>2
<1> QED
  BY <1>1, <1>2, <1>3

(* After a PASS the session is COMPLETE for good, and no acknowledged Stop *)
(* claims the version the PASS was committed from.                         *)
THEOREM PassInvariant == Spec => []PassInv
<1>1. Init => PassInv
  BY SMT DEF Init, PassInv
<1>2. (TypeOK /\ ChoiceFits) /\ EndedInv /\ VersionInv /\ ClaimInv /\ PassInv /\ [Next]_vars
        => PassInv'
  BY PassInvStep
<1> QED
  BY TypeInvariant, EndedInvariant, VersionInvariant, ClaimInvariant, <1>1, <1>2,
     PTL DEF Spec

(* An acknowledged Stop never claims the session version a PASS or a gate  *)
(* decision was committed from, whatever the number of clients and faults. *)
THEOREM StopExclusion == Spec => []StopExcludesSameVersion
<1>1. TypeOK /\ VersionInv /\ ClaimInv /\ PassInv => StopExcludesSameVersion
  <2>. SUFFICES ASSUME TypeOK, VersionInv, ClaimInv, PassInv,
                       NEW p \in Stoppers, stopPc[p] = "acked"
                PROVE  seen[p].version # passedFrom /\ seen[p].version # decidedFrom
    BY Zenon DEF StopExcludesSameVersion
  <2>1. seen[p].version > 0
    BY Zenon DEF VersionInv
  <2>2. seen[p].version # 0
    BY <2>1, SMT
  <2>3. seen[p].version \notin gateClaims
    BY Zenon DEF ClaimInv, ClaimsDisjoint, StopOf
  <2> QED BY <2>2, <2>3, Zenon DEF PassInv, ClaimInv
<1> QED
  BY TypeInvariant, VersionInvariant, ClaimInvariant, PassInvariant, <1>1, PTL
-----------------------------------------------------------------------------
(* A gate claim of the session's current version exists only between its   *)
(* exclusive creation and the decision checkpoint: that checkpoint moves   *)
(* the version on, and a refused one gives the claim back because the gate *)
(* is still open.  Only a fault in between leaves it behind.               *)

GateInv ==
  /\ \A v \in gateClaims : v <= session.version
  /\ pc \in {"CLAIM_GATE", "DECIDE"} => session.status = "HUMAN_GATE"
  /\ faults = 0 /\ session.version \in gateClaims => pc = "DECIDE"
  /\ faults <= MaxFaults

(* The steps of the worker or the gate handler that touch no gate claim.   *)
LEMMA WorkerGateKept ==
  ASSUME WorkerStep, ~ClaimGate, ~RecordDecision
  PROVE  /\ pc \notin {"CLAIM_GATE", "DECIDE"} /\ pc' \notin {"CLAIM_GATE", "DECIDE"}
         /\ UNCHANGED <<gateClaims, faults>>
<1>. USE DEF Elsewhere, claims
<1>1. ASSUME NEW s, NEW next, Checkpoint(s, next), next \notin {"CLAIM_GATE", "DECIDE"}
      PROVE  pc' \notin {"CLAIM_GATE", "DECIDE"}
  BY <1>1, CheckpointCases, Zenon
<1>2. CASE StopAtBoundary \/ AmbiguousStop \/ Prepare \/ RecoverInterrupted
           \/ Resume \/ ReturnUnresolved \/ BeginRound \/ ProposalFails
  BY <1>1, <1>2, Zenon DEF StopAtBoundary, StopBoundary, AmbiguousStop, Throw, Prepare,
     Fails, RecoverInterrupted, Resume, ReturnUnresolved, Abandon, BeginRound,
     ProposalFails
<1>3. CASE (\E c \in Changes : Propose(c)) \/ OpenGate \/ BeginEditing \/ Authorize
           \/ ApplyMutation \/ MutationFails
  BY <1>1, <1>3, Zenon DEF Propose, OpenGate, BeginEditing, Authorize, Fails,
     ApplyMutation, MutationFails
<1>4. CASE RunProject \/ StartCapture \/ Capture \/ PhaseFails
           \/ (\E b \in BOOLEAN : Analyze(b)) \/ KeepFixing
  BY <1>1, <1>4, Zenon DEF RunProject, StartCapture, Capture, NextPhase, PhaseFails,
     Fails, Analyze, KeepFixing
<1>5. CASE ReachTerminal \/ ClaimTerminal \/ TerminalConflict \/ CloseWorker
           \/ ReleaseActive
  BY <1>5, SMT DEF ReachTerminal, ClaimTerminal, TerminalConflict, Abandon, CloseWorker,
     ReleaseActive
<1>6. CASE StopWins \/ CommitTerminal
  BY <1>1, <1>6, Zenon DEF StopWins, CommitTerminal
<1>7. CASE RecordFailure \/ Reevaluate
  BY <1>1, <1>7, Zenon DEF RecordFailure, Fails, Reevaluate
<1> QED
  BY <1>2, <1>3, <1>4, <1>5, <1>6, <1>7, Zenon DEF WorkerStep

(* Every step keeps GateInv.                                               *)
LEMMA GateInvStep ==
  ASSUME TypeOK, ChoiceFits, Valid(session), GateInv, [Next]_vars
  PROVE  GateInv'
<1>. session \in Sessions /\ session.version \in Nat /\ faults \in Nat
     /\ gateClaims \subseteq Nat
  BY FieldTypes, Zenon DEF TypeOK
<1>0. session' = session \/ session'.version = session.version + 1
  BY VersionStep
<1>1. CASE ClaimGate
  <2>. pc = "CLAIM_GATE" /\ session.status = "HUMAN_GATE"
    BY <1>1, Zenon DEF ClaimGate, GateInv
  <2>1. session' = session /\ faults' = faults
    BY <1>1, Zenon DEF ClaimGate, Throw
  <2>2. CASE Claimed(session.version)
    <3>1. gateClaims' = gateClaims /\ pc' \notin {"CLAIM_GATE", "DECIDE"}
      BY <1>1, <2>2, Zenon DEF ClaimGate, Throw
    <3> QED BY <2>1, <3>1, Zenon DEF GateInv
  <2>3. CASE ~Claimed(session.version)
    <3>1. gateClaims' = gateClaims \cup {session.version} /\ pc' = "DECIDE"
      BY <1>1, <2>3, Zenon DEF ClaimGate
    <3> QED BY <2>1, <3>1, SMT DEF GateInv
  <2> QED BY <2>2, <2>3
<1>2. CASE RecordDecision
  <2>. pc = "DECIDE" /\ session.status = "HUMAN_GATE" /\ faults' = faults
    BY <1>2, Zenon DEF RecordDecision, GateInv
  <2>1. pc' \notin {"CLAIM_GATE", "DECIDE"}
    BY <1>2, CheckpointCases, Zenon DEF RecordDecision, AfterDecision
  <2>2. CASE Valid(Decided(choice))
    <3>1. session' = Decided(choice) /\ gateClaims' = gateClaims
      BY <1>2, <2>2, Zenon DEF RecordDecision, Checkpoint
    <3>2. session'.version = session.version + 1
      BY <3>1, DecidedFields
    <3> QED BY <2>1, <3>1, <3>2, SMT DEF GateInv
  <2>3. CASE ~Valid(Decided(choice))
    <3>1. session' = session
      BY <1>2, <2>3, Zenon DEF RecordDecision, Checkpoint, Abandon
    <3>2. session.gate = "OPEN"
      BY Zenon DEF Valid
    <3>3. gateClaims' = gateClaims \ {session.version}
      BY <1>2, <2>3, <3>2, Zenon DEF RecordDecision, GateReleased
    <3> QED BY <2>1, <3>1, <3>3, SMT DEF GateInv
  <2> QED BY <2>2, <2>3
<1>3. CASE WorkerStep /\ ~ClaimGate /\ ~RecordDecision
  <2>1. /\ pc # "DECIDE" /\ pc' \notin {"CLAIM_GATE", "DECIDE"}
        /\ gateClaims' = gateClaims /\ faults' = faults
    BY <1>3, WorkerGateKept, Zenon
  <2> QED BY <1>0, <2>1, SMT DEF GateInv
<1>4. CASE \E d \in Decisions : BeginDecision(d)
  <2>1. /\ UNCHANGED <<session, gateClaims, faults>> /\ session.status = "HUMAN_GATE"
        /\ pc = "NONE" /\ pc' = "CLAIM_GATE"
    BY <1>4, Zenon DEF BeginDecision, claims
  <2> QED BY <2>1, Zenon DEF GateInv
<1>5. CASE Schedule \/ (\E p \in Stoppers : StopStep(p)) \/ ExternalEdit
           \/ LeaseExpires \/ UNCHANGED vars
  <2>1. /\ UNCHANGED <<session, gateClaims, faults>>
        /\ pc' = pc \/ (pc = "NONE" /\ pc' = "ENTRY")
    BY <1>5, StopStepElsewhere, Zenon DEF Schedule, ExternalEdit, LeaseExpires,
       Elsewhere, StopElsewhere, vars, claims
  <2> QED BY <2>1, Zenon DEF GateInv
<1>6. CASE OwnerFails \/ Crash
  <2>1. /\ UNCHANGED <<session, gateClaims>> /\ pc' = "NONE"
        /\ faults < MaxFaults /\ faults' = faults + 1
    BY <1>6, Zenon DEF OwnerFails, Crash, Abandon, claims
  <2> QED BY <2>1, LoopAssumption, SMT DEF GateInv
<1> QED
  BY <1>1, <1>2, <1>3, <1>4, <1>5, <1>6, Zenon DEF Next

(* Every gate claim is of a version the session has reached, and one of    *)
(* its current version has a handler, until a fault.                       *)
THEOREM GateInvariant == Spec => []GateInv
<1>1. Init => GateInv
  BY LoopAssumption, SMT DEF Init, GateInv
<1>2. (TypeOK /\ ChoiceFits) /\ Valid(session) /\ GateInv /\ [Next]_vars => GateInv'
  BY GateInvStep
<1> QED
  BY TypeInvariant, DurableSessionValid, <1>1, <1>2, PTL DEF Spec

-----------------------------------------------------------------------------
(* A terminal claim of the session's current version exists only while the *)
(* session is DECIDING, from its creation to the checkpoint that ends it.  *)

EndingInv ==
  /\ pc \in {"FINALIZE", "COMMIT", "COMMITTING"} => session.status = "DECIDING"
  /\ \A v \in terminalClaims :
       v <= session.version /\ (v = session.version => session.status = "DECIDING")

(* A step that takes no terminal claim, and puts no worker in front of one *)
(* but over a DECIDING session.                                            *)
LEMMA EndingKept ==
  ASSUME TypeOK, ChoiceFits, EndingInv, [Next]_vars, terminalClaims' \subseteq terminalClaims,
         \/ pc' \notin {"FINALIZE", "COMMIT", "COMMITTING"}
         \/ session'.status = "DECIDING"
         \/ session' = session /\ pc' = pc
  PROVE  EndingInv'
<1>1. session.version \in Nat /\ terminalClaims \subseteq Nat
  BY FieldTypes, Zenon DEF TypeOK
<1>2. session' = session \/ session'.version = session.version + 1
  BY VersionStep
<1>3. \A v \in terminalClaims' :
        /\ v <= session'.version
        /\ v = session'.version => session'.status = "DECIDING"
  BY <1>1, <1>2, SMT DEF EndingInv
<1> QED BY <1>3, Zenon DEF EndingInv

(* The steps that bring a worker towards a terminal commit.                *)
LEMMA WorkerEnding ==
  ASSUME WorkerStep, ~ClaimTerminal, ~CommitTerminal, ~ReachTerminal, ~Resume,
         ~(\E b \in BOOLEAN : Analyze(b))
  PROVE  pc' \notin {"FINALIZE", "COMMIT", "COMMITTING"}
<1>. USE DEF Elsewhere
<1>1. ASSUME NEW s, NEW next, Checkpoint(s, next),
             next \notin {"FINALIZE", "COMMIT", "COMMITTING"}
      PROVE  pc' \notin {"FINALIZE", "COMMIT", "COMMITTING"}
  BY <1>1, CheckpointCases, Zenon
<1>2. CASE StopAtBoundary \/ AmbiguousStop \/ Prepare \/ RecoverInterrupted
           \/ ReturnUnresolved \/ BeginRound \/ ProposalFails \/ KeepFixing
  BY <1>1, <1>2, Zenon DEF StopAtBoundary, AmbiguousStop, Throw, Prepare, Fails,
     RecoverInterrupted, ReturnUnresolved, Abandon, BeginRound, ProposalFails, KeepFixing
<1>3. CASE (\E c \in Changes : Propose(c)) \/ OpenGate \/ BeginEditing \/ Authorize
           \/ ApplyMutation \/ MutationFails
  BY <1>1, <1>3, Zenon DEF Propose, OpenGate, BeginEditing, Authorize, Fails,
     ApplyMutation, MutationFails
<1>4. CASE RunProject \/ StartCapture \/ Capture \/ PhaseFails
  BY <1>1, <1>4, Zenon DEF RunProject, StartCapture, Capture, NextPhase, PhaseFails, Fails
<1>5. CASE StopWins \/ TerminalConflict \/ RecordFailure \/ CloseWorker \/ ReleaseActive
  BY <1>1, <1>5, Zenon DEF StopWins, TerminalConflict, Abandon, RecordFailure, Fails,
     CloseWorker, ReleaseActive
<1>6. CASE ClaimGate \/ Reevaluate
  BY <1>1, <1>6, Zenon DEF ClaimGate, Throw, Reevaluate
<1>7. CASE RecordDecision
  <2>1. AfterDecision(choice) \notin {"FINALIZE", "COMMIT", "COMMITTING"}
    BY Zenon DEF AfterDecision
  <2> QED BY <1>1, <1>7, <2>1, Zenon DEF RecordDecision
<1> QED
  BY <1>2, <1>3, <1>4, <1>5, <1>6, <1>7, Zenon DEF WorkerStep

(* Every step keeps EndingInv.                                             *)
LEMMA EndingStep ==
  ASSUME TypeOK, ChoiceFits, EndingInv, [Next]_vars
  PROVE  EndingInv'
<1>. session \in Sessions /\ session.version \in Nat /\ terminalClaims \subseteq Nat
  BY FieldTypes, Zenon DEF TypeOK
<1>. USE DEF Elsewhere, claims
<1>1. CASE ClaimTerminal
  <2>1. /\ session' = session /\ session.status = "DECIDING" /\ pc' = "COMMITTING"
        /\ terminalClaims' = terminalClaims \cup {session.version}
    BY <1>1, Zenon DEF ClaimTerminal, EndingInv
  <2> QED BY <2>1, SMT DEF EndingInv
<1>2. CASE CommitTerminal
  <2>1. terminalClaims' \subseteq terminalClaims
    BY <1>2, Zenon DEF CommitTerminal
  <2>2. pc' \notin {"FINALIZE", "COMMIT", "COMMITTING"}
    BY <1>2, CheckpointCases, Zenon DEF CommitTerminal
  <2> QED BY <2>1, <2>2, EndingKept, Zenon
<1>3. CASE ReachTerminal
  <2>1. session' = session /\ session.status = "DECIDING" /\ terminalClaims' = terminalClaims
    BY <1>3, Zenon DEF ReachTerminal, EndingInv
  <2> QED BY <2>1, EndingKept, Zenon
<1>4. CASE Resume
  <2>1. session' = session /\ terminalClaims' = terminalClaims
    BY <1>4, Zenon DEF Resume
  <2>2. session.status = "DECIDING" \/ pc' = "LOOP"
    BY <1>4, Zenon DEF Resume
  <2> QED BY <2>1, <2>2, EndingKept, Zenon
<1>5. CASE \E b \in BOOLEAN : Analyze(b)
  <2>1. PICK b \in BOOLEAN : Analyze(b)
    BY <1>5, Zenon
  <2>2. terminalClaims' = terminalClaims
    BY <2>1, Zenon DEF Analyze
  <2>3. session'.status = "DECIDING" \/ pc' = "NONE"
    BY <2>1, CheckpointCases, RoundCompletedFields, Zenon DEF Analyze
  <2> QED BY <2>2, <2>3, EndingKept, Zenon
<1>6. CASE WorkerStep
  <2>1. CASE ~ClaimTerminal /\ ~CommitTerminal /\ ~ReachTerminal /\ ~Resume
             /\ ~(\E b \in BOOLEAN : Analyze(b))
    <3>1. terminalClaims' = terminalClaims
      BY <1>6, <2>1, WorkerClaimsKept, Zenon DEF ClaimsKept, ClaimGate, RecordDecision
    <3> QED BY <1>6, <2>1, <3>1, WorkerEnding, EndingKept, Zenon
  <2> QED BY <1>1, <1>2, <1>3, <1>4, <1>5, <2>1
<1>7. CASE Schedule \/ (\E d \in Decisions : BeginDecision(d)) \/ OwnerFails \/ Crash
  <2>1. terminalClaims' = terminalClaims /\ pc' \notin {"FINALIZE", "COMMIT", "COMMITTING"}
    BY <1>7, Zenon DEF Schedule, BeginDecision, OwnerFails, Abandon, Crash
  <2> QED BY <2>1, EndingKept, Zenon
<1>8. CASE (\E p \in Stoppers : StopStep(p)) \/ ExternalEdit \/ LeaseExpires \/ UNCHANGED vars
  <2>1. UNCHANGED <<session, pc, terminalClaims>>
    BY <1>8, StopStepElsewhere, Zenon DEF StopElsewhere, ExternalEdit, LeaseExpires, vars
  <2> QED BY <2>1, EndingKept, Zenon
<1> QED
  BY <1>6, <1>7, <1>8, Zenon DEF Next

(* No terminal claim stands in the way of a session that is not DECIDING,  *)
(* whatever faults there were.                                             *)
THEOREM EndingInvariant == Spec => []EndingInv
<1>1. Init => EndingInv
  BY Zenon DEF Init, EndingInv
<1>2. (TypeOK /\ ChoiceFits) /\ EndingInv /\ [Next]_vars => EndingInv'
  BY EndingStep
<1> QED
  BY TypeInvariant, <1>1, <1>2, PTL DEF Spec

-----------------------------------------------------------------------------
(* A Stop request is stamped no earlier than the version it claims, which  *)
(* the session had reached, as it had when its gate was opened.            *)

StampInv ==
  /\ session.requestedAt <= session.version
  /\ \A q \in stops : q.version <= q.at
  /\ \A p \in Stoppers :
       /\ stopPc[p] = "read" => seen[p].version <= session.version
       /\ stopPc[p] = "listed" => seen[p].version <= seen[p].at

(* A new version of the session was not given a gate of a later one.       *)
LEMMA RequestedStep ==
  ASSUME TypeOK, ChoiceFits, session.requestedAt <= session.version, [Next]_vars
  PROVE  session'.requestedAt <= session'.version
<1>. session \in Sessions /\ session.version \in Nat /\ session.requestedAt \in Nat
  <2>1. session \in Sessions
    BY Zenon DEF TypeOK
  <2> QED BY <2>1, SMT DEF Sessions
<1>. USE DEF Elsewhere, Abandon
<1>0. ASSUME NEW s, s.version = session.version + 1,
             s.requestedAt \in {session.requestedAt, session.version + 1}
      PROVE  s.requestedAt <= s.version
  BY <1>0, SMT
<1>1. ASSUME NEW s, NEW next, Checkpoint(s, next), s.version = session.version + 1,
             s.requestedAt \in {session.requestedAt, session.version + 1}
      PROVE  session'.requestedAt <= session'.version
  BY <1>0, <1>1, CheckpointCases, Zenon
<1>a. \A status \in Status : /\ Advanced(status).version = session.version + 1
                             /\ Advanced(status).requestedAt = session.requestedAt
  BY SMT DEF Advanced, Sessions
<1>b. /\ Unreconciled.requestedAt = session.requestedAt
      /\ Gated.requestedAt = session.version + 1
      /\ Editing.requestedAt = session.requestedAt
      /\ \A q : Blocked(q).requestedAt = session.requestedAt
      /\ \A c : PolicyChecked(c).requestedAt = session.requestedAt
      /\ \A b : RoundCompleted(b).requestedAt = session.requestedAt
      /\ \A d : Decided(d).requestedAt = session.requestedAt
  BY SMT DEF Unreconciled, Gated, Editing, Blocked, PolicyChecked, RoundCompleted,
     Decided, Advanced, Sessions
<1>s. {"PREPARING", "BLOCKED", "FAILED", "RUNNING", "CAPTURING", "COMPARING",
       "FIXING", "COMPLETE"} \subseteq Status
  BY Zenon DEF Status, Mutating, Terminal
<1>2. CASE StopAtBoundary \/ StopWins \/ AmbiguousStop \/ RecoverInterrupted
  BY <1>1, <1>2, <1>b, BlockedFields, UnreconciledFields, Zenon DEF StopAtBoundary,
     StopWins, AmbiguousStop, Throw, RecoverInterrupted
<1>3. CASE Prepare \/ BeginRound \/ ProposalFails \/ Authorize \/ MutationFails
           \/ PhaseFails \/ RecordFailure \/ KeepFixing
  BY <1>1, <1>3, <1>a, <1>b, <1>s, UnreconciledFields, Zenon DEF Prepare, BeginRound,
     ProposalFails, Fails, Authorize, MutationFails, PhaseFails, RecordFailure, KeepFixing
<1>4. CASE RunProject \/ StartCapture \/ Capture
  BY <1>1, <1>4, <1>a, <1>s, Zenon DEF RunProject, StartCapture, Capture, NextPhase
<1>5. CASE Resume \/ ReturnUnresolved \/ ApplyMutation \/ ReachTerminal \/ ClaimTerminal
           \/ TerminalConflict \/ CloseWorker \/ ReleaseActive \/ ClaimGate
  BY <1>5, Zenon DEF Resume, ReturnUnresolved, ApplyMutation, ReachTerminal,
     ClaimTerminal, TerminalConflict, CloseWorker, ReleaseActive, ClaimGate, Throw
<1>6. CASE (\E c \in Changes : Propose(c)) \/ OpenGate \/ BeginEditing
           \/ (\E b \in BOOLEAN : Analyze(b)) \/ RecordDecision \/ Reevaluate
  BY <1>1, <1>6, <1>b, PolicyCheckedFields, GatedFields, EditingFields,
     RoundCompletedFields, DecidedFields, Zenon DEF Propose, OpenGate, BeginEditing,
     Analyze, RecordDecision, Reevaluate
<1>7. CASE CommitTerminal
  BY <1>1, <1>7, <1>a, <1>s, Zenon DEF CommitTerminal, ChoiceFits
<1>8. CASE ~WorkerStep
  BY <1>8, StopStepElsewhere, Zenon DEF Next, Schedule, BeginDecision, ExternalEdit,
     LeaseExpires, OwnerFails, Crash, StopElsewhere, vars
<1> QED
  BY <1>2, <1>3, <1>4, <1>5, <1>6, <1>7, <1>8, Zenon DEF WorkerStep

(* A step of a Stop handler keeps the stamps in order.                     *)
LEMMA StopStampStep ==
  ASSUME TypeOK, StampInv, NEW p \in Stoppers, StopStep(p)
  PROVE  StampInv'
<1>. session.version \in Nat /\ session' = session
  BY FieldTypes, StopStepElsewhere, Zenon DEF TypeOK, StopElsewhere
<1>1. CASE StopRead(p)
  BY <1>1, SMT DEF StopRead, StampInv, TypeOK
<1>2. CASE StopList(p)
  BY <1>2, SMT DEF StopList, StampInv, TypeOK
<1>3. CASE StopWrite(p)
  BY <1>3, SMT DEF StopWrite, StampInv, TypeOK
<1>4. CASE StopConfirm(p)
  <2>1. \A r \in Stoppers : /\ stopPc'[r] = "read" => stopPc[r] = "read"
                            /\ stopPc'[r] = "listed" => stopPc[r] = "listed"
    BY <1>4, ConfirmKeeps, Zenon
  <2> QED BY <1>4, <2>1, ConfirmKeeps, Zenon DEF StampInv
<1> QED BY <1>1, <1>2, <1>3, <1>4, Zenon DEF StopStep

(* Every step keeps StampInv.                                              *)
LEMMA StampStep ==
  ASSUME TypeOK, ChoiceFits, StampInv, [Next]_vars
  PROVE  StampInv'
<1>. /\ session \in Sessions /\ session.version \in Nat
     /\ seen \in [Stoppers -> [version: Nat, at: Nat, confirmed: Nat]]
  BY FieldTypes, Zenon DEF TypeOK
<1>1. session'.requestedAt <= session'.version
  BY RequestedStep, Zenon DEF StampInv
<1>2. session'.version \in Nat /\ session'.version >= session.version
  BY VersionStep, SMT
<1>3. ASSUME UNCHANGED <<stops, seen>>,
             \A p \in Stoppers : stopPc'[p] \in {"read", "listed"} => stopPc'[p] = stopPc[p]
      PROVE  StampInv'
  <2>1. \A p \in Stoppers : stopPc'[p] = "read" => seen'[p].version <= session'.version
    <3>. SUFFICES ASSUME NEW p \in Stoppers, stopPc'[p] = "read"
                  PROVE  seen[p].version <= session'.version
      BY <1>3, Zenon
    <3>1. seen[p].version \in Nat /\ seen[p].version <= session.version
      BY <1>3, SMT DEF StampInv
    <3> QED BY <1>2, <3>1, SMT
  <2> QED BY <1>1, <1>3, <2>1, Zenon DEF StampInv
<1>4. CASE WorkerStep
  <2>1. UNCHANGED <<stops, seen, stopPc>>
    BY <1>4, WorkerClaimsKept, Zenon DEF ClaimsKept, ClaimTerminal, CommitTerminal,
       ClaimGate, RecordDecision, stopVars
  <2> QED BY <1>3, <2>1, Zenon
<1>5. CASE Schedule \/ (\E d \in Decisions : BeginDecision(d)) \/ ExternalEdit
           \/ LeaseExpires \/ OwnerFails \/ UNCHANGED vars
  <2>1. UNCHANGED <<stops, seen, stopPc>>
    BY <1>5, Zenon DEF Schedule, BeginDecision, ExternalEdit, LeaseExpires, OwnerFails,
       Elsewhere, vars, claims, stopVars
  <2> QED BY <1>3, <2>1, Zenon
<1>6. CASE Crash
  <2>1. UNCHANGED <<stops, seen>>
    BY <1>6, Zenon DEF Crash, claims
  <2>2. \A p \in Stoppers : stopPc'[p] \notin {"read", "listed"}
    BY <1>6, SMT DEF Crash
  <2> QED BY <1>3, <2>1, <2>2, Zenon
<1>7. CASE \E p \in Stoppers : StopStep(p)
  BY <1>7, StopStampStep, Zenon
<1> QED BY <1>4, <1>5, <1>6, <1>7, Zenon DEF Next

(* The stamps of gates and Stop requests are in order.                     *)
THEOREM StampInvariant == Spec => []StampInv
<1>1. Init => StampInv
  BY SMT DEF Init, StampInv
<1>2. (TypeOK /\ ChoiceFits) /\ StampInv /\ [Next]_vars => StampInv'
  BY StampStep
<1> QED
  BY TypeInvariant, <1>1, <1>2, PTL DEF Spec

-----------------------------------------------------------------------------
(* A waiting Human Gate can be decided or stopped.                         *)

(* The store accepts a rejection of the gate a session waits at.           *)
LEMMA RejectionAccepted ==
  ASSUME session \in Sessions, Valid(session), session.status = "HUMAN_GATE"
  PROVE  Valid(Decided("REJECT"))
<1>. DEFINE s == Decided("REJECT")
<1>1. /\ s.status = "BLOCKED" /\ s.gate = "DECIDED" /\ s.decision = "REJECT"
      /\ s.rounds = session.rounds /\ s.eval = session.eval /\ s.pass = session.pass
      /\ s.fresh = session.fresh /\ s.evalRound = session.evalRound
      /\ s.gateRound = session.gateRound /\ s.gateChange = session.gateChange
      /\ s.stopped = session.stopped /\ s.reconcile = session.reconcile
  BY SMT DEF Decided, Advanced, Sessions
<1>2. ~session.stopped /\ ~session.reconcile /\ session.gate = "OPEN"
  BY Zenon DEF Valid
<1>3. EvaluationLinked(s)
  <2>1. \/ session.eval = "NONE" \/ GateOfLatest(session)
        \/ session.rounds >= session.evalRound
    BY Zenon DEF Valid, EvaluationLinked, Mutating
  <2>2. GateOfLatest(session) => GateOfLatest(s)
    BY <1>1, Zenon DEF GateOfLatest
  <2> QED BY <1>1, <2>1, <2>2, Zenon DEF EvaluationLinked
<1>4. GatesResolved(s) /\ EditingLinked(s) /\ DecisionLinked(s)
  BY <1>1, <1>2, Zenon DEF GatesResolved, EditingLinked, DecisionLinked, Mutating
<1>5. RoundsLinked(s)
  BY <1>1, Zenon DEF Valid, RoundsLinked
<1> QED BY <1>1, <1>2, <1>3, <1>4, <1>5, Zenon DEF Valid

(* The store accepts a Stop that owns the version of a waiting session.    *)
LEMMA StopAccepted ==
  ASSUME session \in Sessions, Valid(session), session.status = "HUMAN_GATE",
         session.requestedAt <= session.version,
         NEW q \in StopRequests, q.version = session.version, q.version <= q.at
  PROVE  Valid(Blocked(q))
<1>. DEFINE s == Blocked(q)
<1>1. /\ s.status = "BLOCKED" /\ s.stopped = TRUE /\ s.stopAt = q.at
      /\ s.gate = session.gate /\ s.decision = session.decision
      /\ s.rounds = session.rounds /\ s.eval = session.eval /\ s.pass = session.pass
      /\ s.fresh = session.fresh /\ s.evalRound = session.evalRound
      /\ s.gateRound = session.gateRound /\ s.gateChange = session.gateChange
      /\ s.requestedAt = session.requestedAt /\ s.reconcile = session.reconcile
  BY SMT DEF Blocked, Advanced, Sessions
<1>2. ~session.reconcile /\ session.gate = "OPEN"
  BY Zenon DEF Valid
<1>3. GateOfLatest(session) => GateOfLatest(s)
  BY <1>1, Zenon DEF GateOfLatest
<1>4. EvaluationLinked(s)
  <2>1. \/ session.eval = "NONE" \/ GateOfLatest(session)
        \/ session.rounds >= session.evalRound
    BY Zenon DEF Valid, EvaluationLinked, Mutating
  <2> QED BY <1>1, <1>3, <2>1, Zenon DEF EvaluationLinked
<1>5. GatesResolved(s)
  <2>1. s.stopAt >= s.requestedAt
    BY <1>1, SMT DEF Sessions, StopRequests
  <2> QED BY <1>1, <1>2, <2>1, Zenon DEF GatesResolved
<1>6. DecisionLinked(s)
  <2>1. /\ session.decision # "REJECT"
        /\ session.decision = "APPROVE_ONCE" => session.rounds >= session.gateRound
        /\ session.decision = "EXPAND_SCOPE" =>
             /\ session.gateChange = "EXPANDABLE"
             /\ \/ session.rounds >= session.gateRound
                \/ session.eval = "ALLOW" /\ session.evalRound = session.gateRound
    BY Zenon DEF Valid, DecisionLinked, Mutating
  <2> QED BY <1>1, <2>1, Zenon DEF DecisionLinked
<1>7. EditingLinked(s) /\ RoundsLinked(s)
  BY <1>1, Zenon DEF Valid, EditingLinked, RoundsLinked, Mutating
<1> QED BY <1>1, <1>2, <1>4, <1>5, <1>6, <1>7, Zenon DEF Valid

(* Until the first fault, a session waiting at a Human Gate on which       *)
(* nothing works can be decided or stopped, unless two Stops have crossed. *)
THEOREM DecidableUntilFault == Spec => [](faults = 0 => GateStaysDecidable)
<1>1. TypeOK /\ Valid(session) /\ GateInv /\ EndingInv /\ StampInv
        => (faults = 0 => GateStaysDecidable)
  <2>. SUFFICES ASSUME TypeOK, Valid(session), GateInv, EndingInv, StampInv, faults = 0,
                       session.status = "HUMAN_GATE", pc = "NONE"
                PROVE  \/ ~Claimed(session.version) /\ Valid(Decided("REJECT"))
                       \/ \E q \in stops : /\ q.version = session.version
                                           /\ StopsCrossed \/ Valid(Blocked(q))
    BY Zenon DEF GateStaysDecidable
  <2>. session \in Sessions /\ stops \subseteq StopRequests
    BY Zenon DEF TypeOK
  <2>1. CASE ~Claimed(session.version)
    BY <2>1, RejectionAccepted, Zenon
  <2>2. CASE Claimed(session.version)
    <3>1. session.version \notin gateClaims \cup terminalClaims
      BY Zenon DEF GateInv, EndingInv
    <3>2. PICK q \in stops : q.version = session.version
      BY <2>2, <3>1, Zenon DEF Claimed
    <3>3. Valid(Blocked(q))
      BY <3>2, StopAccepted, Zenon DEF StampInv
    <3> QED BY <3>2, <3>3, Zenon
  <2> QED BY <2>1, <2>2
<1> QED
  BY TypeInvariant, DurableSessionValid, GateInvariant, EndingInvariant, StampInvariant,
     <1>1, PTL

(* Where no fault may happen, a waiting Human Gate stays decidable.        *)
THEOREM GateDecidable ==
  ASSUME MaxFaults = 0
  PROVE  Spec => []GateStaysDecidable
<1>1. TypeOK /\ GateInv => faults = 0
  BY SMT DEF TypeOK, GateInv
<1>2. TypeOK /\ GateInv /\ (faults = 0 => GateStaysDecidable) => GateStaysDecidable
  BY <1>1, Zenon
<1> QED
  BY TypeInvariant, GateInvariant, DecidableUntilFault, <1>2, PTL

-----------------------------------------------------------------------------
(* An acknowledged Stop is followed by no mutation but the one under way.  *)

HaltInv ==
  pc = "MUTATE" =>
    \A p \in Stoppers : stopPc[p] = "acked" => seen[p].confirmed = session.version

(* Every step keeps HaltInv: a worker is armed only where no Stop request  *)
(* exists, and every acknowledged Stop has one.                            *)
LEMMA HaltStep ==
  ASSUME TypeOK, ClaimInv, HaltInv, [Next]_vars
  PROVE  HaltInv'
<1>. USE DEF Elsewhere
<1>1. CASE Authorize
  <2>1. stops = {} /\ stopPc' = stopPc
    BY <1>1, Zenon DEF Authorize, stopVars
  <2>2. \A p \in Stoppers : stopPc[p] # "acked"
    BY <2>1, Zenon DEF ClaimInv, StopOf
  <2> QED BY <2>1, <2>2, Zenon DEF HaltInv
<1>2. CASE WorkerStep /\ ~Authorize
  <2>1. pc' # "MUTATE"
    <3>1. CASE BeginEditing
      BY <3>1, CheckpointCases, Zenon DEF BeginEditing
    <3>2. CASE RecordDecision
      <4>1. AfterDecision(choice) # "MUTATE"
        BY Zenon DEF AfterDecision
      <4> QED BY <3>2, <4>1, CheckpointCases, Zenon DEF RecordDecision
    <3> QED BY <1>2, <3>1, <3>2, WorkerUnarmed, Zenon DEF Unarmed
  <2> QED BY <2>1, Zenon DEF HaltInv
<1>3. CASE Schedule \/ (\E d \in Decisions : BeginDecision(d)) \/ OwnerFails \/ Crash
  BY <1>3, Zenon DEF Schedule, BeginDecision, OwnerFails, Abandon, Crash, HaltInv
<1>4. CASE ExternalEdit \/ LeaseExpires \/ UNCHANGED vars
  BY <1>4, Zenon DEF ExternalEdit, LeaseExpires, vars, stopVars, HaltInv
<1>5. CASE \E p \in Stoppers : StopStep(p)
  <2>. PICK p \in Stoppers : StopStep(p)
    BY <1>5
  <2>1. UNCHANGED <<session, pc>>
    BY StopStepElsewhere, Zenon DEF StopElsewhere
  <2>2. \A r \in Stoppers : stopPc'[r] = "acked" =>
          \/ stopPc[r] = "acked" /\ seen'[r].confirmed = seen[r].confirmed
          \/ seen'[r].confirmed = session.version
    BY SMT DEF StopStep, StopRead, StopList, StopWrite, StopConfirm, TypeOK
  <2> QED BY <2>1, <2>2, Zenon DEF HaltInv
<1> QED BY <1>1, <1>2, <1>3, <1>4, <1>5, Zenon DEF Next

(* After an acknowledged Stop only the mutation of the EDITING checkpoint  *)
(* that was durable when the Stop was confirmed can still change the       *)
(* target, whatever the number of clients, rounds and faults.              *)
THEOREM StopsHalt == Spec => StopHaltsMutation
<1>. DEFINE A == applied' # applied =>
                   \A p \in Stoppers :
                     stopPc[p] = "acked" => seen[p].confirmed = session.version
<1>1. Init => HaltInv
  BY Zenon DEF Init, HaltInv
<1>2. (TypeOK /\ ChoiceFits) /\ ClaimInv /\ HaltInv /\ [Next]_vars => HaltInv'
  BY HaltStep
<1>3. HaltInv /\ [Next]_vars => [A]_vars
  <2>. SUFFICES ASSUME HaltInv, [Next]_vars, applied' # applied PROVE A
    BY Zenon
  <2>1. ApplyMutation
    BY AppliedStep, Zenon
  <2> QED BY <2>1, Zenon DEF ApplyMutation, HaltInv
<1> QED
  BY TypeInvariant, ClaimInvariant, <1>1, <1>2, <1>3, PTL DEF Spec, StopHaltsMutation
===============================================================================
