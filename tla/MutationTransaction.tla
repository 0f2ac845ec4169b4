------------------------- MODULE MutationTransaction -------------------------
(***************************************************************************)
(* How an approved change reaches the user's files: the execution claim of *)
(* a workspace, its takeover from a dead process, the transaction over the *)
(* approved paths with its rollback, and the human who reconciles what a   *)
(* crash left (mutation-executor.ts).                                      *)
(*                                                                         *)
(* Executors are calls of MutationExecutor.apply in the server processes   *)
(* of one machine.  Other programs edit the files at any time, single file *)
(* operations fail, and a server may die between any two of them.          *)
(***************************************************************************)
EXTENDS Naturals

CONSTANTS
  Executors, Proposals, ProposalOf,  \* each executes one approved proposal
  Servers, ServerOf,                 \* in one server process
  ReviewServer,                      \* the server a human reconciles from
  Last,                              \* the approved paths are 1..Last
  MaxEdits, MaxFailures, MaxDeaths,  \* bounds on the environment
  Suspensions,     \* whether a process may stop between two file operations
                   \* for as long as an agent's turn takes
  NoClaim, Absent, Base, Foreign     \* no file; bytes of nobody, of others

Paths == 1..Last
Bytes == Executors \cup {Absent, Base, Foreign}

ASSUME MutationAssumption ==
  /\ ProposalOf \in [Executors -> Proposals] /\ ServerOf \in [Executors -> Servers]
  /\ ReviewServer \in Servers /\ Last \in Nat \ {0}
  /\ Suspensions \in BOOLEAN /\ MaxEdits \in Nat /\ MaxFailures \in Nat /\ MaxDeaths \in Nat

(* A claim file, authenticated only once it is written whole.              *)
Claim == [by: Executors, phase: {"PREPARING", "APPLYING"}, whole: BOOLEAN]

ASSUME BytesAssumption ==
  /\ NoClaim \notin Claim
  /\ {Absent, Base, Foreign} \cap Executors = {}
  /\ Absent # Base /\ Base # Foreign /\ Absent # Foreign

VARIABLES
  file,            \* the approved paths
  operation,       \* what the proposal does at each path
  claim,           \* the execution claim file of the workspace
  recovered,       \* the recovery records: the claim and files as reviewed
  up,              \* servers alive
  pc, at,          \* where each executor is, and at which path
  retried,         \* whether it has met a claim already
  original,        \* what it captured
  written,         \* the paths of its applied list
  trouble,         \* its rollbackError
  outcome,
  review,          \* the human: [step, claim, files] as reviewed
  edits, failures, deaths, \* counts of the environment
  exposed          \* paths edited between an executor's check and its write

disk    == <<file, claim, recovered>>
local   == <<at, retried, original, written, trouble, outcome>>
counts  == <<edits, failures, deaths, exposed>>
vars    == <<disk, operation, up, pc, local, review, counts>>

Acquiring == {"START", "CREATE", "WRITE_CLAIM", "REGISTER", "TAKEOVER", "UNLINK"}
Preparing == {"CAPTURE", "AGENT", "BEGIN", "PUBLISH"}
Applying  == {"CHECK", "WRITE", "VERIFY", "VALIDATE", "ROLLBACK", "RESTORE", "PROVE",
              "EVIDENCE"}
Releasing == {"RELEASE", "REMOVE"}
Ended     == {"DONE", "DEAD"}
Outcomes  == {"NONE", "APPLIED", "NO_TARGET_CHANGE", "FULLY_ROLLED_BACK",
              "RECONCILIATION_REQUIRED", "CLAIM_LOST"}

(* A change proposal lists the files to create, to modify and to delete.    *)
Lists == [{"create", "modify", "delete"} -> SUBSET Paths]

(* An agent's answer is refused unless it names some path, and none twice. *)
WellFormed(lists) ==
  /\ \E op \in DOMAIN lists : lists[op] # {}
  /\ \A op, other \in DOMAIN lists : op # other => lists[op] \cap lists[other] = {}

(* The executor's records: what is done at each approved path.             *)
Records(lists) == [p \in Paths |-> CHOOSE op \in DOMAIN lists : p \in lists[op]]

Init ==
  /\ operation \in {Records(lists) :
       lists \in {l \in Lists : WellFormed(l) /\ UNION {l[op] : op \in DOMAIN l} = Paths}}
  /\ file = [p \in Paths |-> IF operation[p] = "create" THEN Absent ELSE Base]
  /\ claim = NoClaim /\ recovered = {}
  /\ up = Servers
  /\ pc = [e \in Executors |-> "START"]
  /\ at = [e \in Executors |-> 1]
  /\ retried = [e \in Executors |-> FALSE]
  /\ original = [e \in Executors |-> file]
  /\ written = [e \in Executors |-> {}]
  /\ trouble = [e \in Executors |-> FALSE]
  /\ outcome = [e \in Executors |-> "NONE"]
  /\ review = [step |-> "IDLE", claim |-> NoClaim, files |-> file]
  /\ edits = 0 /\ failures = 0 /\ deaths = 0 /\ exposed = {}

Goto(e, label) == pc' = [pc EXCEPT ![e] = label]
Step(e, from, to) == pc[e] = from /\ Goto(e, to)
Quiet == UNCHANGED <<operation, up, review, edits, deaths, exposed>>
Faultless == Quiet /\ UNCHANGED failures

(* What the change of e leaves at a path.                                 *)
Intended(e, p) == IF operation[p] = "delete" THEN Absent ELSE e
-----------------------------------------------------------------------------
(* The claim                                                               *)

Mine(e, phase) == [by |-> e, phase |-> phase, whole |-> TRUE]

(* Known to its own server by the owners it has in memory, to every other  *)
(* one by the life of its process.                                         *)
OwnerAlive(record, server) ==
  IF ServerOf[record.by] = server
  THEN pc[record.by] \in Preparing \cup Applying \cup {"RELEASE"}
  ELSE ServerOf[record.by] \in up

(* The proposals whose recovery a human has recorded.                      *)
Spent(proposal) == \E r \in recovered : ProposalOf[r.claim.by] = proposal

(* An executor that gives up before it published the claim.                *)
GivesUp(e) ==
  /\ outcome' = [outcome EXCEPT ![e] = "NO_TARGET_CHANGE"]
  /\ Goto(e, IF pc[e] \in Acquiring THEN "DONE" ELSE "RELEASE")
  /\ UNCHANGED <<disk, at, retried, original, written, trouble>>

CheckRecovered(e) ==
  /\ pc[e] = "START"
  /\ \/ ~ Spent(ProposalOf[e]) /\ Goto(e, "CREATE") /\ UNCHANGED <<disk, local>>
     \/ Spent(ProposalOf[e]) /\ GivesUp(e)
  /\ Faultless

CreateClaim(e) ==
  /\ pc[e] = "CREATE"
  /\ \/ /\ claim = NoClaim /\ Goto(e, "WRITE_CLAIM")
        /\ claim' = [Mine(e, "PREPARING") EXCEPT !.whole = FALSE]
        /\ UNCHANGED <<file, recovered, local>>
     \/ /\ claim # NoClaim /\ ~ retried[e] /\ Goto(e, "TAKEOVER")
        /\ retried' = [retried EXCEPT ![e] = TRUE]
        /\ UNCHANGED <<disk, at, original, written, trouble, outcome>>
     \/ claim # NoClaim /\ retried[e] /\ GivesUp(e)
  /\ Faultless

WriteClaim(e) ==
  /\ Step(e, "WRITE_CLAIM", "REGISTER")
  /\ claim' = IF claim # NoClaim /\ claim.by = e THEN Mine(e, "PREPARING") ELSE claim
  /\ UNCHANGED <<file, recovered, local>> /\ Faultless

(* activeExecutionOwners, after the file is synced and closed.             *)
Register(e) ==
  /\ Step(e, "REGISTER", "CAPTURE") /\ UNCHANGED <<disk, local>> /\ Faultless

(* MUTANT: a claim that reads well is taken to be abandoned. *)
AbandonedIfRead(record, server) == record.whole

(* Only the preparation of a dead process may be cleared away.             *)
Abandoned(record, server) == record.whole /\ ~ OwnerAlive(record, server)

(* MUTANT: the phase the dead process was in is not asked for. *)
TakeOverAny(e) ==
  /\ pc[e] = "TAKEOVER"
  /\ \/ claim = NoClaim /\ Goto(e, "CREATE") /\ UNCHANGED <<disk, local>>
     \/ /\ claim # NoClaim /\ Abandoned(claim, ServerOf[e])
        /\ Goto(e, "UNLINK") /\ UNCHANGED <<disk, local>>
     \/ /\ claim # NoClaim /\ ~ Abandoned(claim, ServerOf[e])
        /\ GivesUp(e)
  /\ Faultless

TakeOver(e) ==
  /\ pc[e] = "TAKEOVER"
  /\ \/ claim = NoClaim /\ Goto(e, "CREATE") /\ UNCHANGED <<disk, local>>
     \/ /\ claim # NoClaim /\ Abandoned(claim, ServerOf[e]) /\ claim.phase = "PREPARING"
        /\ Goto(e, "UNLINK") /\ UNCHANGED <<disk, local>>
     \/ /\ claim # NoClaim
        /\ ~ (Abandoned(claim, ServerOf[e]) /\ claim.phase = "PREPARING")
        /\ GivesUp(e)
  /\ Faultless

Unlink(e) ==
  /\ pc[e] = "UNLINK"
  /\ \/ /\ claim # NoClaim /\ Goto(e, "CREATE") /\ claim' = NoClaim
        /\ UNCHANGED <<file, recovered, local>>
     \/ claim = NoClaim /\ GivesUp(e)
  /\ Faultless
-----------------------------------------------------------------------------
(* Preparation: capture the targets, let the agent work on a mirror, look  *)
(* at the targets again, publish that they are about to change.            *)

Capturable(p) == (operation[p] = "create") <=> (file[p] = Absent)

Capture(e) ==
  /\ pc[e] = "CAPTURE"
  /\ \/ /\ \A p \in Paths : Capturable(p)
        /\ original' = [original EXCEPT ![e] = file]
        /\ Goto(e, "AGENT")
        /\ UNCHANGED <<disk, at, retried, written, trouble, outcome>>
     \/ (\E p \in Paths : ~ Capturable(p)) /\ GivesUp(e)
  /\ Faultless

(* A turn takes longer than two file operations that follow each other.    *)
Outlasted(e) ==
  \/ Suspensions
  \/ /\ \A other \in Executors \ {e} : pc[other] \notin {"UNLINK", "REMOVE"}
     /\ review.step # "CLEAR"

(* The turn, the delta it left in the mirror, the worker's ownership and   *)
(* the second look; any of them may fail.                                  *)
RunAgent(e) ==
  /\ pc[e] = "AGENT" /\ Outlasted(e)
  /\ \/ file = original[e] /\ Goto(e, "BEGIN") /\ UNCHANGED <<disk, local>>
     \/ GivesUp(e)
  /\ Faultless

BeginTargetMutation(e) ==
  /\ pc[e] = "BEGIN"
  /\ \/ claim = Mine(e, "PREPARING") /\ Goto(e, "PUBLISH") /\ UNCHANGED <<disk, local>>
     \/ claim # Mine(e, "PREPARING") /\ GivesUp(e)
  /\ Faultless

(* The record is renamed over whatever is at the path.                     *)
Publish(e) ==
  /\ Step(e, "PUBLISH", "CHECK")
  /\ claim' = Mine(e, "APPLYING")
  /\ UNCHANGED <<file, recovered, local>> /\ Faultless
-----------------------------------------------------------------------------
(* applyTransaction                                                        *)

(* MUTANT: a stale target is reported as if nothing had been written yet. *)
CheckTargetGivingUp(e) ==
  /\ pc[e] = "CHECK"
  /\ \/ /\ file[at[e]] = original[e][at[e]] /\ Goto(e, "WRITE")
        /\ UNCHANGED <<disk, local>>
     \/ file[at[e]] # original[e][at[e]] /\ GivesUp(e)
  /\ exposed' = exposed \ {at[e]}
  /\ UNCHANGED <<operation, up, review, edits, failures, deaths>>

(* MUTANT: the target is not looked at again before it is written. *)
CheckTargetNever(e) ==
  /\ Step(e, "CHECK", "WRITE")
  /\ exposed' = exposed \ {at[e]}
  /\ UNCHANGED <<disk, local, operation, up, review, edits, failures, deaths>>

CheckTarget(e) ==
  /\ Step(e, "CHECK", IF file[at[e]] = original[e][at[e]] THEN "WRITE" ELSE "ROLLBACK")
  /\ exposed' = exposed \ {at[e]}
  /\ UNCHANGED <<disk, local, operation, up, review, edits, failures, deaths>>

WriteTarget(e) ==
  /\ Step(e, "WRITE", "VERIFY")
  /\ file' = [file EXCEPT ![at[e]] = Intended(e, at[e])]
  /\ written' = [written EXCEPT ![e] = @ \cup {at[e]}]
  /\ UNCHANGED <<claim, recovered, at, retried, original, trouble, outcome>> /\ Faultless

(* A failed operation may have taken effect, or somebody else may have got *)
(* there: the executor looks.                                              *)
WriteFails(e) ==
  /\ Step(e, "WRITE", "ROLLBACK") /\ failures < MaxFailures
  /\ failures' = failures + 1
  /\ \E now \in {file[at[e]], Intended(e, at[e])} :
       /\ file' = [file EXCEPT ![at[e]] = now]
       /\ written' = IF now = Intended(e, at[e])
                     THEN [written EXCEPT ![e] = @ \cup {at[e]}] ELSE written
       /\ trouble' = [trouble EXCEPT ![e] =
                        now \notin {Intended(e, at[e]), original[e][at[e]]}]
  /\ UNCHANGED <<claim, recovered, at, retried, original, outcome>> /\ Quiet

VerifyTarget(e) ==
  /\ \/ /\ file[at[e]] = Intended(e, at[e]) /\ at[e] < Last
        /\ Step(e, "VERIFY", "CHECK") /\ at' = [at EXCEPT ![e] = @ + 1]
     \/ /\ file[at[e]] = Intended(e, at[e]) /\ at[e] = Last
        /\ Step(e, "VERIFY", "VALIDATE") /\ UNCHANGED at
     \/ /\ file[at[e]] # Intended(e, at[e])
        /\ Step(e, "VERIFY", "ROLLBACK") /\ UNCHANGED at
  /\ UNCHANGED <<disk, retried, original, written, trouble, outcome>> /\ Faultless

Applied(e) == \A p \in Paths : file[p] = Intended(e, p)

ValidateApplied(e) ==
  /\ Step(e, "VALIDATE", IF Applied(e) THEN "EVIDENCE" ELSE "ROLLBACK")
  /\ UNCHANGED <<disk, local>> /\ Faultless

(* The applied paths, last first: a path somebody else has changed since   *)
(* is left alone.                                                          *)
RollBack(e) ==
  /\ pc[e] = "ROLLBACK"
  /\ \/ written[e] = {} /\ Goto(e, "PROVE") /\ UNCHANGED <<at, written, trouble, exposed>>
     \/ \E p \in written[e] :
          /\ \A q \in written[e] : q <= p
          /\ at' = [at EXCEPT ![e] = p]
          /\ exposed' = exposed \ {p}
          /\ \/ file[p] = Intended(e, p) /\ Goto(e, "RESTORE") /\ UNCHANGED <<written, trouble>>
             \/ /\ file[p] # Intended(e, p)
                /\ written' = [written EXCEPT ![e] = @ \ {p}]
                /\ trouble' = [trouble EXCEPT ![e] = TRUE] /\ UNCHANGED pc
  /\ UNCHANGED <<disk, retried, original, outcome, operation, up, review, edits,
                 failures, deaths>>

(* A path has its captured bytes again, or is gone again if created.       *)
MatchesOriginal(e, p) == file[p] = original[e][p]

Restore(e) ==
  /\ Step(e, "RESTORE", "ROLLBACK")
  /\ written' = [written EXCEPT ![e] = @ \ {at[e]}]
  /\ \/ /\ file' = [file EXCEPT ![at[e]] = original[e][at[e]]]
        /\ UNCHANGED <<trouble, failures>>
     \/ /\ failures < MaxFailures /\ failures' = failures + 1
        /\ trouble' = [trouble EXCEPT ![e] = TRUE] /\ UNCHANGED file
  /\ UNCHANGED <<claim, recovered, at, retried, original, outcome>> /\ Quiet

Report(e, result) == outcome' = [outcome EXCEPT ![e] = result]

(* The directories made for created files are removed (which may fail),    *)
(* and every target is read once more.                                     *)
ProveRolledBack(e) ==
  /\ Step(e, "PROVE", "RELEASE")
  /\ \/ /\ Report(e, IF trouble[e] \/ \E p \in Paths : ~ MatchesOriginal(e, p)
                     THEN "RECONCILIATION_REQUIRED" ELSE "FULLY_ROLLED_BACK")
        /\ UNCHANGED failures
     \/ /\ failures < MaxFailures /\ failures' = failures + 1
        /\ Report(e, "RECONCILIATION_REQUIRED")
  /\ UNCHANGED <<disk, at, retried, original, written, trouble>> /\ Quiet

(* Git and source evidence between two more reads of the applied bytes.    *)
Evidence(e) ==
  /\ Step(e, "EVIDENCE", "RELEASE")
  /\ \/ Applied(e) /\ Report(e, "APPLIED")
     \/ Report(e, "RECONCILIATION_REQUIRED")
  /\ UNCHANGED <<disk, at, retried, original, written, trouble>> /\ Faultless

(* MUTANT: only an applied change removes its claim. *)
ReleaseIfApplied(e) ==
  /\ Step(e, "RELEASE", IF outcome[e] = "APPLIED" THEN "REMOVE" ELSE "DONE")
  /\ UNCHANGED <<disk, local>> /\ Faultless

(* The claim is preserved for a human, or exactly the own one is removed.  *)
Release(e) ==
  /\ pc[e] = "RELEASE"
  /\ \/ /\ outcome[e] = "RECONCILIATION_REQUIRED" /\ Goto(e, "DONE")
        /\ UNCHANGED outcome
     \/ /\ outcome[e] # "RECONCILIATION_REQUIRED"
        /\ claim \in {Mine(e, "PREPARING"), Mine(e, "APPLYING")} /\ Goto(e, "REMOVE")
        /\ UNCHANGED outcome
     \/ /\ outcome[e] # "RECONCILIATION_REQUIRED"
        /\ claim \notin {Mine(e, "PREPARING"), Mine(e, "APPLYING")} /\ Goto(e, "DONE")
        /\ Report(e, "CLAIM_LOST")
  /\ UNCHANGED <<disk, at, retried, original, written, trouble>> /\ Faultless

RemoveClaim(e) ==
  /\ Step(e, "REMOVE", "DONE")
  /\ claim' = NoClaim
  /\ UNCHANGED <<file, recovered, local>> /\ Faultless
-----------------------------------------------------------------------------
(* reconcileMutationRecovery: a human has looked at an abandoned claim and *)
(* at the files, and confirms that they are to be kept as they are.        *)

Reviewing(from, to) ==
  /\ review.step = from /\ ReviewServer \in up
  /\ review' = [review EXCEPT !.step = to]
  /\ UNCHANGED <<operation, up, pc, local, counts>>

Inspect ==
  /\ review.step = "IDLE" /\ ReviewServer \in up /\ claim # NoClaim /\ claim.whole
  /\ review' = [step |-> "CONFIRM", claim |-> claim, files |-> file]
  /\ UNCHANGED <<disk, operation, up, pc, local, counts>>

AsReviewed == claim = review.claim /\ file = review.files

Reconcilable ==
  AsReviewed /\ claim.phase = "APPLYING" /\ ~ OwnerAlive(claim, ReviewServer)

Confirm ==
  Reviewing("CONFIRM", IF Reconcilable THEN "RECORD" ELSE "IDLE") /\ UNCHANGED disk

Reviewed == [claim |-> review.claim, files |-> review.files]

(* One record per proposal: another one in its place stops the review.     *)
RecordRecovery ==
  \/ /\ \A r \in recovered :
          ProposalOf[r.claim.by] = ProposalOf[review.claim.by] => r = Reviewed
     /\ Reviewing("RECORD", "RECHECK")
     /\ recovered' = recovered \cup {Reviewed}
     /\ UNCHANGED <<file, claim>>
  \/ /\ Spent(ProposalOf[review.claim.by]) /\ Reviewed \notin recovered
     /\ Reviewing("RECORD", "IDLE") /\ UNCHANGED disk

Recheck ==
  /\ Reviewing("RECHECK", IF AsReviewed THEN "CLEAR" ELSE "IDLE")
  /\ UNCHANGED disk

ClearClaim ==
  /\ Reviewing("CLEAR", "IDLE")
  /\ claim' = NoClaim /\ UNCHANGED <<file, recovered>>
-----------------------------------------------------------------------------
(* The environment                                                         *)

Exposing(p) == \E e \in Executors : pc[e] \in {"WRITE", "RESTORE"} /\ at[e] = p

Edit ==
  /\ edits < MaxEdits /\ edits' = edits + 1
  /\ \E p \in Paths : \E bytes \in {Foreign, Absent} \ {file[p]} :
       /\ file' = [file EXCEPT ![p] = bytes]
       /\ exposed' = IF Exposing(p) THEN exposed \cup {p} ELSE exposed \ {p}
  /\ UNCHANGED <<claim, recovered, operation, up, pc, local, review, failures, deaths>>

Die(server) ==
  /\ server \in up /\ deaths < MaxDeaths /\ deaths' = deaths + 1
  /\ up' = up \ {server}
  /\ pc' = [e \in Executors |->
              IF ServerOf[e] = server /\ pc[e] # "DONE" THEN "DEAD" ELSE pc[e]]
  /\ review' = IF server = ReviewServer THEN [review EXCEPT !.step = "IDLE"] ELSE review
  /\ UNCHANGED <<disk, operation, local, edits, failures, exposed>>
-----------------------------------------------------------------------------
Acquire(e) ==
  \/ CheckRecovered(e) \/ CreateClaim(e) \/ WriteClaim(e) \/ Register(e)
  \/ TakeOver(e) \/ Unlink(e)

Prepare(e) == Capture(e) \/ RunAgent(e) \/ BeginTargetMutation(e) \/ Publish(e)

Apply(e) ==
  \/ CheckTarget(e) \/ WriteTarget(e) \/ WriteFails(e) \/ VerifyTarget(e)
  \/ ValidateApplied(e) \/ RollBack(e) \/ Restore(e) \/ ProveRolledBack(e) \/ Evidence(e)

Reconcile == Inspect \/ Confirm \/ RecordRecovery \/ Recheck \/ ClearClaim

Next ==
  \/ \E e \in Executors :
       Acquire(e) \/ Prepare(e) \/ Apply(e) \/ Release(e) \/ RemoveClaim(e)
  \/ Reconcile \/ Edit \/ \E server \in Servers : Die(server)

Spec == Init /\ [][Next]_vars
-----------------------------------------------------------------------------
TypeOK ==
  /\ file \in [Paths -> Bytes] /\ operation \in [Paths -> {"create", "modify", "delete"}]
  /\ claim \in Claim \cup {NoClaim}
  /\ recovered \subseteq [claim: Claim, files: [Paths -> Bytes]]
  /\ up \subseteq Servers
  /\ pc \in [Executors -> Acquiring \cup Preparing \cup Applying \cup Releasing \cup Ended]
  /\ at \in [Executors -> Paths] /\ retried \in [Executors -> BOOLEAN]
  /\ original \in [Executors -> [Paths -> Bytes]]
  /\ written \in [Executors -> SUBSET Paths]
  /\ trouble \in [Executors -> BOOLEAN] /\ outcome \in [Executors -> Outcomes]
  /\ review \in [step: {"IDLE", "CONFIRM", "RECORD", "RECHECK", "CLEAR"},
                 claim: Claim \cup {NoClaim}, files: [Paths -> Bytes]]
  /\ edits \in Nat /\ failures \in Nat /\ deaths \in Nat /\ exposed \subseteq Paths

(* Never do two executors change the workspace's files at the same time,   *)
(* however they take over each other's claims.                             *)
OneMutator ==
  \A e, f \in Executors :
    pc[e] \in Applying /\ pc[f] \in Applying => e = f

(* What an executor wrote and neither finished nor rolled back - since it  *)
(* still works, died, or gave the files up for reconciliation - is known   *)
(* by its APPLYING claim until a human has recorded the recovery.          *)
UnfinishedIsClaimed ==
  \A e \in Executors :
    /\ written[e] # {} \/ trouble[e]
    /\ outcome[e] \in {"NONE", "RECONCILIATION_REQUIRED"}
    => claim = Mine(e, "APPLYING") \/ Spent(ProposalOf[e])

(* An executor that reports no change or a full rollback has left none of  *)
(* its bytes anywhere, whatever failed or was edited meanwhile.            *)
NothingLeftBehind ==
  \A e \in Executors :
    outcome[e] \in {"NO_TARGET_CHANGE", "FULLY_ROLLED_BACK"} =>
      \A p \in Paths : file[p] # e

(* A claim that is still there and that nobody will remove was left by a   *)
(* death, or on purpose for reconciliation.                                *)
ClaimExplained ==
  claim # NoClaim /\ pc[claim.by] = "DONE" =>
    outcome[claim.by] = "RECONCILIATION_REQUIRED"

(* The execution claim tells the truth about what was left unfinished, in  *)
(* both directions: a later executor has nothing else to go by.            *)
ClaimTellsTruth == UnfinishedIsClaimed /\ ClaimExplained

(* Bytes another program put into an approved path are overwritten, by the *)
(* change or by its rollback, only when the change was made from them or   *)
(* when they arrived between an executor's look at the path and its write. *)
ForeignBytesKept ==
  [][\A p \in Paths : file[p] = Foreign /\ file'[p] # Foreign /\ edits' = edits =>
       \/ p \in exposed
       \/ \E e \in Executors : pc[e] = "WRITE" /\ original[e][p] = Foreign]_vars

(* "The old approval is permanently spent": no executor starts to change   *)
(* files for a proposal whose recovery a human has recorded.               *)
ApprovalSpent ==
  [][\A e \in Executors :
       pc[e] = "PUBLISH" /\ pc'[e] = "CHECK" => ~ Spent(ProposalOf[e])]_vars
===============================================================================
