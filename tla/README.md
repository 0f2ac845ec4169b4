# Design Sharingan Studio in TLA+

A verification development kept beside the code of Design Sharingan Studio, a
TypeScript monorepo (packages/*, apps/studio) that lets a local user import a
project, learn from design references, and let an agent change the project's
source under explicit policies. What is hard in it is not the user interface but
the *durable, fail-closed protocols* around files: which version of a session is
current, who may change it, who may change the user's project, which evidence a
decision rests on, and what is known after a crash. There is no database: every
protocol is made of exclusive creation, rename and unlink of JSON files, by
requests of one or several server processes. These protocols are what the modules
here model.

Paths below are relative to the repository; store names are files of
`packages/project-adapters/src` unless another package is named.

## 1. Inventory

| component | state | operations | hard parts | correct when |
|---|---|---|---|---|
| Mangekyo loop engine (`packages/mangekyo-engine/src/loop.ts`, `stop-criteria.ts`) | none of its own: reads and writes the durable session | `runMangekyoLoop`, `executeRound`, `processPendingChange`, `finalizeDecidingRound`, `resolveHumanGate` | a crash between any two checkpoints, an error path after every await, a Stop at every boundary | a round mutates once, and only on fresh authority; an interrupted mutation is never replayed |
| Mangekyo store (`mangekyo-loop-store.ts`) | session file, action claims, active-loop claim, worker lease, authorizations, Approve Once claims | `saveMangekyoLoopSession`, `claim*`/`release*`, `requestMangekyoStop`, `commitMangekyoTerminalTransition` | the acceptance predicate must admit every state the engine writes; claim files race | Stop, gate decision and terminal commit exclude each other per version |
| Worker lease owner (`mangekyo-worker-owner.ts`) | one lease in memory, a promise queue, a sticky failure | heartbeat, `persist`, `commitTerminalTransition`, `close` | expiry against heartbeats, a lost renewal | one owner; only the owner persists |
| Mangekyo server handlers (`apps/studio/features/execute/mangekyo-server.ts`) | map of running workers | start, data (polled: recovers), decide gate, Stop | check-then-act across awaits, two processes | a live loop keeps its project, an ended one frees it |
| Mutation executor (`packages/approval-engine/src/mutation-executor.ts`) | execution claim, recovery journal, staged files | apply, rollback, takeover, reconcile | several files, foreign edits, death of a process in the middle | one mutator; nothing half done is forgotten; foreign bytes survive |
| Safe execution store (`safe-execution-store.ts`) | execution session with its proposal history, session claim | start, propose, revise, reject, approve, capture, verify, recover, clear | the mutation happens between two checkpoints, each of which may fail | an approval mutates once and stays on record |
| Session journal (`workspace-store.ts`) | body, head, checkpoint, event and commit claim per session | save, approve, list, recover | four files per version, recovery without a claim | committed history only grows; an approval writes two sessions or none |
| Learn sessions (`workspace-store.ts`, `packages/sharingan-engine`, learn routes) | session, reference, Design DNA, approval claim | SCAN, EVOLVE, ASSIMILATION, VERIFY, approve | artifacts replaced one by one while others read them | what a session or reference claims, its artifacts back |
| Genome store (`packages/governance/src/genome-store.ts`) | governance lock, Genome, catalog, approval transaction | initialize, approve, read, recover | two files replaced one by one, a reader without a lock, a user with version control | an approval is backed by evidence, applied once, completed or discarded |
| Audit generations (`genome-store.ts`, `drift-report.ts`, `screen-registry.ts`) | generations, pointer, invalidation, live documents | save a report, edit the registry, read, recover | three documents read and replaced one by one | all three change together, each change on top of the last |
| Governance engine (`packages/eternal-engine`, `drift-report.ts`, `finding-handoff.ts`) | Drift Report, decisions, release sessions | governed capture, audit, document polish, evaluate and authenticate a release | long renders over a worktree that changes, stale reports | nothing observed is forgotten, no release on stale evidence |
| Render engine (`packages/render-engine`) | dev-server child process, browser | start, wait ready, stop, capture | readiness against exit against timeout, ports | a capture shows the project's own server |
| Policy and state tables (`packages/policy-engine`, `packages/core`) | none | pure decisions | - | the stores and engines consult them before they write |
| Visual, agent and report packages, project adapters, UI | project locator | prompt, call, validate one answer; detection and import; read-only projections | external processes | - |

How they interact. API routes call the server handlers. A Mangekyo handler takes
the worker lease and runs the engine, whose dependencies are the store
(checkpoints, claims), the executor (mutation), the render and visual engines
(evidence). Gate decisions and Stop come from other requests, possibly of another
process, and meet the worker only in files. Learn sessions and execution sessions
are both versions of the session journal; the approval of an EVOLVE direction
commits one of each. Safe Mode calls the executor under the session's claim. The
governance store is read by Learn (the evidence an EVOLVE rests on) and written by
captures, audits and approvals; the release gate reads it with the worktree.

## 2. Plan

Done: the loop (1), the lease (2), the file transaction (3), the session journal
(4), Safe Mode (5), Genome approval (6), audit generations (7), Learn (8), the
release (9). Every safety and action property of the passing runs is a theorem
(section 14).

Left: a model of the development server (readiness, exit, timeout, stop).

### How the modules compose

| abstract | detailed | by |
|---|---|---|
| `lease` of MangekyoLoop: at most one live owner (`WorkerOwnership`) | WorkerLease: lock and lease files | `OwnershipImplemented`, proved |
| one `Checkpoint` of SafeExecution, one save of LearnSession (`CommittedSessions`) | SessionJournal: body, head, checkpoint, event, claim | `HistoryKept`, proved |
| the executor's claim and outcome in SafeExecution, `ApplyMutation` in MangekyoLoop | MutationTransaction: claim, files, recovery record | by hand: outcomes and the claim's phases are the same |
| one save under a revision in GovernedRelease (`GovernanceTruth`) | AuditGenerations: generations, pointer, live documents | `OneTruth`, proved |
| the governance lock of AuditGenerations, a mutex | GenomeApproval: temporary, link, unlink | `OneOwner`, proved |

A session saved through the journal may fail *with its version committed*: the body
is durable, the head's rename reports an error, the next reader rolls it forward.
So wherever SafeExecution, LearnSession or GenomeApproval save, the failing save
has two outcomes, and the caller sees the same error for both.

## 3. Runs

| run | module and instance | states | shows |
|---|---|---|---|
| `loop_stops` | MangekyoLoop: 1 round, 2 symmetric Stop clients, no fault | 6.45M | `TypeOK`, `StopExcludesSameVersion`, `GateStaysDecidable`, `MutationAuthorized`, `StopHaltsMutation` |
| `loop_recovery` | MangekyoLoop: 2 rounds, 2 faults, fair | 8,689 | `OneMutationPerRound`, `ActiveUntilTerminal`, `LoopSettles`, `InterruptedMutationEnds` |
| `lease_prompt` | WorkerLease: 2 workers, lease of 4 ticks, 8 ticks, 2 checkpoints | 7.65M | `OwnershipImplemented`, `ReplacedWorkersRefused`, `LiveLeaseKept` |
| `mutation_apply` | MutationTransaction: 2 executors in 2 servers, 2 files, 1 edit, 1 failure, 1 death | 2.30M | `OneMutator`, `ClaimTellsTruth`, `NothingLeftBehind`, `ForeignBytesKept` |
| `mutation_replay` | MutationTransaction: 1 proposal executed twice, 1 file, 1 death | - | violated: `ApprovalSpent` |
| `journal` | SessionJournal: 2 requests of one server, 2 versions, 1 death, 1 failure | 0.63M | `DraftHasApproval`, `Recoverable`, `HistoryKept` |
| `journal_rollback` | SessionJournal: the same callers, who also save back earlier records; 3 versions, no fault | - | violated: `HistoryKept` |
| `safe_execution` | SafeExecution: 2 directions, 2 requests, 2 proposals each, 2 faults | 0.74M | `TypeOK`, `AppliedOnce`, `VerificationUndisturbed`, `Operable` |
| `genome_approval` | GenomeApproval: 2 processes, 2 rules, 2 faults, 1 revert, fair | 0.66M | `ApprovedIsBacked`, `NeverWedged`, `OneOwner`, `NeverReplayed`, `Settles` |
| `audit` | AuditGenerations: 2 writers, 1 reader, 2 generations, 4 operations, 2 faults | 1.96M | `Readable`, `AcceptedPair`, `OneTruth`, proved |
| `learn` | LearnSession: 2 SCANs, 1 EVOLVE, 1 analysis, 2 approvers, 1 reference, 2 faults | 3.95M | `OutcomesHold`, `OneApproval`, `EvidenceInForce`, `DecisionKept` |
| `release` | GovernedRelease: 2 screens, 2 rules of 1 category, 2 sources, 2 saves | 3.91M | `NothingForgotten`, `SoundReport`, `FreshRelease`, `HonestRelease`, `AuthenticRelease` |

No run checks for deadlock: a loop that ended or waits for a human who never
comes, requests that have all been answered, and a dead process really stop.
Every module states a `TypeOK`; TLC has checked each on the instance above, and
the runs keep the two of them in which the type says something about the store
(every status and step of the loop; every durable execution session acceptable).
Every other property was chosen because it takes several steps, mostly of several
actors, to break, and for each the project names a plausible mistake in the code
(a `mutants` entry) with which TLC finds it broken.

## 4. MangekyoLoop

### State

| variable | code |
|---|---|
| `session` | `MangekyoLoopSession` on disk, reduced to the parts the store's relations tell apart: status, version (`updatedAt`), completed rounds and whether the last one passed and was fresh, latest policy evaluation, latest gate, latest decision, applied Stop, `mutationFailure` |
| `stops`, `gateClaims`, `terminalClaims` | the action claim files; the latter two by the version they claim |
| `consumed` | Approve Once claim files |
| `activeClaim` | the project's active-loop claim |
| `lease` | worker lease: free, held by a live worker, or left by one that is gone (`STALE`) |
| `pc`, `mode`, `choice` | the one worker: where it is, whether it runs in `scheduleMangekyoLoop` (`RUN`) or in `decideMangekyoGate` (`GATE`), the decision or outcome it carries |
| `stopPc`, `seen` | the Stop handlers in flight and what they read |
| `drift` | whether the project was edited after the last mutation's source revision |
| `applied`, `passedFrom`, `decidedFrom` | observation only |
| `faults` | counts crashes and owner failures against `MaxFaults` |

Time is the number of checkpoints: `updatedAt` of successive checkpoints is
strictly increasing, and every stamp the relations compare is the `updatedAt` of
the checkpoint that first recorded it, or one between two checkpoints.

### Actions

Every durable write of a session goes through `Checkpoint`, guarded by `Valid`,
the store's acceptance predicate: a refused write makes the owner's queue fail for
good (`serialize` keeps its first failure), so the worker is gone and its lease is
left to expire (`Abandon`). The predicate is a conjunction of named parts, one per
group of relations (`GatesResolved`, `EditingLinked`, `DecisionLinked`,
`EvaluationLinked`, `RoundsLinked`). An error outside the queue is `Throw`: the
loop's catch records FAILED (if *that* is valid), the gate handler answers with
the error and keeps its lease.

The worker: `Schedule`, then the branches of `runMangekyoLoop` on the durable
status (`StopAtBoundary`, `AmbiguousStop`, `Prepare`, `RecoverInterrupted`,
`Resume`, `ReturnUnresolved`), the round (`BeginRound`, `Propose`, `OpenGate`,
`BeginEditing`, `Authorize`, `ApplyMutation`, `RunProject`, `StartCapture`,
`Capture`, `Analyze` and the failures of each), the decision (`KeepFixing`,
`ReachTerminal`, `ClaimTerminal`, `StopWins`, `TerminalConflict`,
`CommitTerminal`) and the close (`CloseWorker`, `ReleaseActive`). The gate handler:
`BeginDecision`, `ClaimGate`, `RecordDecision`, `Reevaluate`, then the same round.
Stop is four steps, one per await another process can be interleaved with:
`StopRead`, `StopList`, `StopWrite`, `StopConfirm`. The environment: `ExternalEdit`,
`LeaseExpires`, `OwnerFails`, `Crash`.

Bounds: two rounds are the first instance with a round before and one after the
budget test, and with evidence (gate, decision, evaluation) of an *earlier* round
in the session; every relation is between the latest entry and the current round.
Two Stop clients are the least that can be ambiguous. One fault reaches every
single interruption point; two interrupt the recovery itself.

Fairness (`FairSpec`): a scheduled worker keeps running (Node's event loop); a
lease runs out by the clock; `Schedule`, because the page polls the data route every
300 ms while work or a Stop is pending (`mangekyo-workspace.tsx:90-104`) and that
route recovers the loop; a Stop handler that started finishes. Nobody owes a
decision, a Stop, an edit or a fault.

`StopHaltsMutation` says what an acknowledged Stop is worth: the target changes no
more after it, except by the one mutation whose EDITING checkpoint was durable when
the Stop was confirmed. `GateStaysDecidable` is about files as well as state: an open
gate's version is unclaimed and the store accepts a decision of it, or the Stop that
owns it can be recorded; two crossed Stops are the exception, described next.

### Limits of the code that the model shows

- Two Stops can cross. `requestMangekyoStop` lists the requests (`:1725`) before it
  writes its own (`:1729`), and nothing holds the directory in between; two clients
  that list none while the worker moves the version leave two Stop files of
  different versions. Every boundary refuses the pair as ambiguous (`:1761`), and an
  open gate whose version one of them owns can be neither decided nor stopped. No
  fault is needed: without the exception (`StopsCrossed`) TLC violates
  `GateStaysDecidable` in `loop_stops`.
- One Stop alone that is older than the gate is refused at every later boundary, also
  after the gate was approved; the gate itself can be decided.
- A Stop that was acknowledged can lose to a PASS committed under a later version,
  although `PHASE-3-MANGEKYO-REVIEW.md:59-60` says that a durable Stop "cannot lose to
  a concurrent PASS". `StopExcludesSameVersion` claims it for one version only.
- A crash between the gate claim and its decision leaves a gate that can be
  neither decided nor stopped (so `GateStaysDecidable` is checked without faults,
  and proved up to the first one).
- A crash between terminal claim and terminal checkpoint makes every later commit
  of that version conflict; one between terminal checkpoint and release keeps the
  project claimed.
- A loop found in POLICY_CHECK is never advanced; the window of an expanded scope
  is never recovered.
- An approved gate is written HUMAN_GATE to EDITING, an edge the published Mangekyo
  table lacks.

Not modelled: action claims are never pruned (more than 64 of one session stop its
listings); two checkpoints in one millisecond would share a version; the five
minutes of an Approve Once decision or an authorization.

## 5. WorkerLease

`WorkerLease` opens what `lease` is in `MangekyoLoop`: two files of the claims
directory, `lock` (`worker-lease.lock`) and `lease` (`worker-lease.claim`), and the
processes that compete for them. Each file operation another process can be
interleaved with is a step: exclusive creation, the write after it (a file is not
`whole` in between), the comparison and the `rm` of an orphaned lock, the read of
the lease with the session checks, the comparison and the rename of a
replacement, the comparison and the `rm` of the exact lock, the unlocked release.
`pc`, `task`, `want`, `known` and `held` are a worker's place, the operation it
claims for (`CLAIM`, `RENEW`, `PERSIST`, `ADVANCE`), the lease it asks for, the
record it read and its owner's `currentLease`. A failed operation is sticky
(`FAILED`), and the engine notices when it next asks (`EngineAborts`).

Time is one clock for the processes of one machine. A claim is a few file operations
and takes at most `Stall`: `Tick` waits for it, and, before a release, for the last
heartbeat (`Beat`). *Between* claims a worker may stop for any time, also between the
renewal before a checkpoint and the save: its lease runs out, and it is replaced
without knowing it. A renewal is one millisecond later than the one before when the
clock has not moved; the model rounds it up to a tick and lets the next operation
wait for it. Session versions are the stamps of checkpoints. `overdue` is observed: a
save was made under a lease that had run out.

The names every module has (`LeaseInit`, `LeaseNext`, `LeaseSpec`, `LeaseTypeOK`,
`leaseVars`) carry the module's own, since one proof module extends this one and
SessionJournal.

`OwnershipImplemented` says that the file protocol implements `WorkerOwnership`
with `owners` the workers that still work under a lease the clock has not run out:
never two, and no direct hand-over. A granted lease also stays in its file
(`LiveLeaseKept`).

`ReplacedWorkersRefused` is what becomes of a worker that stopped for longer than its
lease and was replaced. Its next renewal is refused: whoever comes out of a claim or
renewal successfully is the only owner, and the lease file names it. A save under a
live lease is by the worker the file names, over the version it was granted. The
exception is the save that is overdue: `persist` renews and then saves, and the save
looks at no lease (`mangekyo-worker-owner.ts:134`), so a worker that stops between the
two for the length of its lease overwrites a session its successor may have moved on,
and the versions read afterwards are no longer those of the leases. Nor is there a
check between `assertOwnership` and the mutation that follows it.
`PHASE-3-MANGEKYO-REVIEW.md:61-62`, "Replaced workers abort before mutation or
persistence", says otherwise; without the exception (`~ overdue'`) TLC finds the
property violated.

Two constants admit what breaks ownership itself. With `Suspensions` and a third
worker, two may find one orphaned lock, and the second removes the lock of the first,
which TLC shows to violate `LiveLeaseKept`; without `Suspensions` the removal compares
as it removes. With `LateRelease`, a worker closes later than a heartbeat after its
last renewal; `releaseMangekyoWorkerLease` (`mangekyo-loop-store.ts:1983-1999`) takes
no lock and looks at no expiry between its comparison and its `rm`, so it may remove
the lease of a successor, and TLC violates `LiveLeaseKept` with two workers. A worker
is also not told that its heartbeat failed, so a failed engine can still run, and can
make no checkpoint, beside the worker that took over.

Bounds: a lease of 4 ticks is the least that exceeds a claim of 1, its renewal's tick
ahead and one more (`Punctual`, the hypothesis of the theorems). 8 ticks let the lease
of each worker run out in turn, the first worker meet its refusal or make its late
save, and a renewal be asked for over the successor's expired lease. A worker is one
`workerId` and takes the lease once: a restart is another worker. The run has two
workers with `Suspensions`, and `LateRelease` FALSE. Not modelled: failures of single
file operations other than by death, a lock file torn while it is written (it never
expires), and the directory's permission checks.

## 6. MutationTransaction

One call of `MutationExecutor.apply` is an executor: it waits for the execution
claim of the workspace (`Acquire`: recovery marker, exclusive creation, comparison
and removal of a dead owner's claim), captures and validates every approved path
and publishes the APPLYING claim (`Prepare`), writes path by path, verifies, and
rolls back on any error (`Apply`), and removes its claim (`Release`,
`RemoveClaim`). `file` is what stands at each path: the bytes it had, an executor's,
somebody else's, or nothing. `Reconcile` is the human who confirms what a dead or
failed executor left, in the code's order: read claim and files, record the
recovery, look again, remove the claim. `Edit` is any other program, at any time
(`exposed` remembers the edits that fall between an executor's look and its write,
which no check can see); `Die` kills a server with all its executors.

`ClaimTellsTruth` is what a later executor goes by: unfinished work is claimed, and
a claim is unfinished work. Two files are the least with a partial apply; two
servers are the least in which one takes over while the other lives; one death is
the least that leaves a claim. `Suspensions` is FALSE: with it a process may stop
between two of its operations while another one does a whole execution, and then
comparing and removing a dead claim is not safe. `mutation_replay` shows the
finding: the marker of a spent approval is looked up once, before the wait.

Limits: a claim torn while it is written is never taken over; recovery records that
fit several claims are refused. Git evidence, diffs and the structured mirror are
not modelled.

## 7. SessionJournal

Each session has a `body`, a `head` naming the committed version, `ckpt` and
`event` files per version, and a commit `claim`. `Write` is one file operation of a
save or an approval, or its undoing after a failure; `Recover` is one of
`recoverSessionCommits`, which every read and save runs first: it lists checkpoints
and heads, and then, without a claim, finds for each future checkpoint whether its
body is durable, forgets the checkpoint or publishes the head. An approval commits
two sessions: the source, approved, and the execution draft it creates. A listing
for a page (`BeginLoad`) recovers, reads the records one by one, then the index of
heads, and shows what agrees.

`HistoryKept` refines `CommittedSessions`: the list of committed contents of each
session only grows at its end. `Recoverable` is what makes the next recovery go on;
`DraftHasApproval` orders the two sessions of an approval, in the files and on
every page. Two requests of one server are serialised by its per-process queue where
the code has one, and otherwise interleave at every file operation; two versions
are the least with a committed history and a candidate, and the third in
`journal_rollback` is the one committed behind the recovery's back. `Rollback`
distinguishes the callers: `safe-execution-store.ts:1145` and `:1364` save an
earlier record of the execution draft again, and then an old body no longer proves
that nothing was committed (the finding). Every other save brings a content with a
new timestamp, or retries the current one (`Savable`), for a session that is open to
it (`Open`): a draft that exists, a source that is not approved yet, since
`transitionLearnSession` compares with the record it loads under its claim.

Limits: the claim of a writer that died before its checkpoint is never looked at
again; a crash between the two bodies of an approval rolls the approval forward and
the draft back; a crash inside the rollback of an approval is excepted from
`Readable`, and among several servers it can cost history: a recovery of another
server that listed the approval's checkpoint before the rollback removed it finds the
approved body still there and publishes a head without a checkpoint
(`NoTornRollback`, section 14; it takes a failing approval and a death inside its
rollback); while another server commits, reads and saves fail with an error that the next attempt does not meet.
Creating and writing a claim is one step, so is comparing and unlinking it, and a
listing's heads and checkpoints are read as one.

## 8. SafeExecution

An approved direction is an execution `session` with a history of proposals. A
request (`Ask`, `Step`) is one route: propose, revise, reject, approve, or the
evidence route; it takes the session's `claim`, and each of its steps is one
checkpoint or one call to the agent, the executor or the renderer, any of which may
fail. `exec` is the executor's claim of MutationTransaction, `spent` its recovery
records, `mutated` counts the mutations of each proposal for the properties.
`StartDirection` is an approval coming from Learn, `ClearRecovery` the human after a
reconciliation, `ExternalEdit` an edit of the worktree before the approval is used.
Checkpoints follow the table of `canTransitionSafeExecution` and the store's
relation between status and history (`Acceptable`).

`AppliedOnce` is about faults: the mutation lies between two checkpoints, either of
which may fail with or without being committed, and the executor may fail before or
after it changed files. `VerificationUndisturbed` relates two directions, and
`Operable` says that without faults of the machine no error of agent, executor or
renderer strands a session. Two directions and two requests are the least with
interference; two faults are a failing save and a death during its recovery.

Limits: two approved directions that are both current are ambiguous for ever, also
when one of them is interrupted after its mutation; a death in PREPARING, PROPOSING,
RUNNING, CAPTURING or VERIFYING leaves a session no route continues (documented as
fail-closed in `PHASE-2-DESIGN-INTELLIGENCE-REVIEW.md:134-138`); an approval whose
save fails and is committed all the same stays APPROVED; FAILED may overwrite a
COMPLETE whose save failed after committing; a session with a full history (16, here
2) can only be approved or rejected. `Operable` therefore assumes no faults and one
current direction.

## 9. GenomeApproval

Initialization writes Genome and catalog under the governance `lock`. An approval
stages both in a directory with a manifest, publishes a `pointer`, replaces first
the catalog and then the Genome, records itself in `head`, removes pointer and
staging; whoever owns the lock next, and every reader that sees a pending
transaction, reconciles first. `Verdict` is that reconciliation's reading of the
files: nothing to do, complete, discard, or an error. The lock is a temporary file
linked into place; `FindStale` is the comparison and removal of a dead owner's.
`Edit` is the user who restores the draft from version control. `torn` marks two
interruptions the code cannot resolve: of removing the staging directory, and of the
first write of the manifest.

`ApprovedIsBacked` is about the reader between the two replacements, `NeverWedged`
and `Settles` about every interruption, `NeverReplayed` about the user's revert,
`OneOwner` about the lock. Two processes and two rules are the least in which one
approval meets another's remains. Fairness: a running request goes on, somebody
reads the project from time to time, and a reader that keeps finding the stale lock
removes it (strong, since other requests take the lock in between).

Limits: the two `torn` windows make every governance operation fail for good; a
death between link and unlink of the temporary leaves a lock that is never reclaimed;
with `Prompt` FALSE, that is, with a process suspended between the comparison and
the removal of a stale lock, the lock of a live owner is removed; an approval whose
caller saw an error may be completed by the next reader; a revert between the
Genome's write and the head's is overwritten; after a revert the same rule cannot be
approved again. The private staging directories of an initialization are not modelled.

## 10. AuditGenerations

A drift audit writes a directory with three documents (registry, report, catalog),
commits it, moves the pointer to it, activates it, and copies its documents to the
`live` ones; only an activated generation counts. The next audit first restores the
pointer and discards what was committed but never activated. An edit of the registry
brings the live documents up to date, changes the registry, and then invalidates the
generation (`invalidation`) and removes the pointer. `Read` is a reader without a
lock, which resolves the active generation anew for each of the three documents and
checks at the end that they fit. `Truth` is what the files stand for, and `OneTruth`
says that it implements `GovernanceTruth`: the three change together, by audits and
edits that each start from the last. Four operations let an edit stand between two
audits, with an interrupted one before them; two generations are the least with one
to fall back on, and let the third audit be refused.

Limits: an interrupted removal of a committed generation makes every read fail
(excepted from `Readable`); generations that are not retired fill the bound of 16 and
stop all audits; a reader may see a spurious "pointer is behind" during a commit;
`readScreenRegistry` alone may return an edit that never became authoritative;
after an edit the report is unreadable until the next audit.

## 11. LearnSession

SCAN, EVOLVE and the read-only analyses are requests with their routes' catch
blocks; every save succeeds, fails, or fails and is committed. A SCAN replaces
Design DNA, reference and session one after the other and undoes what it wrote when
one fails (`Undoing`). An EVOLVE reads reference, DNA and evidence, asks the agent
and rechecks the evidence before it puts its directions up for decision. An approval
takes a claim with a lease of 30 s, rereads, commits session and draft. Two SCANs of
one reference, with an EVOLVE and an analysis reading it, are the least with every
reader and writer of one artifact; two approvers compete for one direction. `torn`,
`lost` and `evicted` are histories of what the code cannot repair, by which the
properties except it.

Limits: `commitReferenceScan` may roll a failed head forward and throw, and the scan
route then saves ANALYZING with an error over the result it had committed; two SCANs
of one reference interleave, and either may write back a reference it loaded
before the agent ran, losing likes and notes; a process that dies leaves ANALYZING
for ever; so does an analysis whose reference loses its Design DNA, because the SCAN
that wrote it is rolled back meanwhile: `saveReadonlyLearnSession` reads every
reference's DNA again (`readonly-learn-store.ts:27`) and refuses the result and then
the error, which the route's catch swallows (`analysis/route.ts:50`), and
`OutcomesHold` excepts it (`Abandoned`); an EVOLVE may rest on the DNA of a SCAN that is
rolled back afterwards, or on a Genome approved between recheck and commit; an approver whose lease expired may
approve a second time, and then "Multiple SAFE_EXECUTION drafts are ambiguous" for
good.

## 12. GovernedRelease

A capture inspects the screens of its scope one by one and refuses to end on another
worktree than it began with; an audit looks at renders of Mangekyo rounds; both save
a report, under the registry revision they started from, whose findings are the new
observations and every earlier one not rechecked. A user reads a finding and
documents it as debt. The gate reads the report, then the decisions, catalog and
worktree, and answers; the answer is recorded in a session under the revision read
*afterwards*, and authenticated when a report shows it. `EditSource` changes the
worktree at any time. `open` is the history the first property compares with.

Two screens, two rules of one category and two source contents are the least with a
finding elsewhere, two findings of one screen and category, and a stale render; two saves
are one report and its replacement. The catalog's bound is 6 instead of 32 so that
the second save meets it. The approved Genome is a constant: only a draft can be
approved, and a report needs an approved one.

Limits: `capture-governance.ts:61-65` decides whether an earlier finding is still seen by
comparing screen, scope and category with the list onto which it pushes the findings it
resolves. Of two findings of one category on one screen that a capture no longer
sees, it resolves the first; the other stays open with evidence that is not the
report's, so the save is refused, and no capture ever resolves the pair.
`docs/verification/v0.1-acceptance.md:26` asks for a recapture after the
decision, but a finding observed again is a new one, and the gate accepts debt on
captures made before the decision; a decision covers later observations of the same
rule on the same screen; two audits of one round leave two open findings that cannot
be documented ("ambiguous"); an observation that matches no rule makes the save of a
capture fail; functional verification passes only for pages without interactive
controls; a release evaluated on one revision and recorded under the next is shown as
UNAVAILABLE. Not modelled: edits of the registry and its verification status, draft
decisions, repeated findings; a screen has one required state; one retained release
session is followed at a time.

## 13. What disagrees with the code's own documents

The two violation runs are the entries of `findings`:

- `mutation_replay`: "the old approval is permanently spent"
  (`mutation-executor.ts:1476`), but an execution already waiting for the claim
  applies it after the human has recorded the recovery (`:1504`).
- `journal_rollback`: "Committed history is never repaired or silently discarded"
  (`workspace-store.ts:1888`), but a recovery that stalls over a commit followed by
  a save of the earlier record deletes the committed event and checkpoint (`:1931`).

Two more sentences of `PHASE-3-MANGEKYO-REVIEW.md` say more than the code does, and
the property that comes nearest excepts the difference:

- `:59-60`, durable Stop "cannot lose to a concurrent PASS": it can lose to a PASS of a
  later version (section 4, `StopExcludesSameVersion`);
- `:61-62`, "Replaced workers abort before mutation or persistence": not between the
  renewal and the save (section 5, `ReplacedWorkersRefused`).

The "Limits" of the sections above are what else the models reach and no property
claims.

## 14. Proofs

Each theorem holds for every value of the constants: any number of processes,
sessions, paths or screens, and any bound on rounds, failures, deaths and edits. It
rests on the named assumptions of its module, which say that the values that stand
for "absent", "free" or "dead" are no ordinary ones, that bounds are numbers and that
functions have their domains. Further hypotheses are given below. Each strengthening
was first an invariant of the module's run. No proof uses `Spec` for more than the
initial condition and `[][Next]_vars`.

| module | theorems about | hypothesis |
|---|---|---|
| `MangekyoLoopProofs` | `TypeOK`, `ActiveUntilTerminal`, `MutationAuthorized`, `OneMutationPerRound`, `StopExcludesSameVersion`, `StopHaltsMutation`, `GateStaysDecidable` | the last one: no fault yet |
| `JournalAndLeaseProofs` (WorkerLease) | `OwnershipImplemented`, `ReplacedWorkersRefused`, `LiveLeaseKept` | `Punctual`, `~ Suspensions`, `~ LateRelease` |
| `JournalAndLeaseProofs` (SessionJournal) | `DraftHasApproval`, `Recoverable`, `HistoryKept` | `~ Rollback`, `NoTornRollback` |
| `MutationTransactionProofs` | `OneMutator`, `ClaimTellsTruth`, `NothingLeftBehind`, `ForeignBytesKept` | `~ Suspensions` |
| `SafeExecutionProofs` | `TypeOK`, `AppliedOnce`, `VerificationUndisturbed`, `Operable` | - |
| `GenomeApprovalProofs` | `OneOwner`, `ApprovedIsBacked`, `NeverWedged`, `NeverReplayed` | `Prompt` |
| `AuditGenerationsProofs` | `Readable`, `AcceptedPair`, `OneTruth` | - |
| `LearnSessionProofs` | `OutcomesHold`, `OneApproval`, `EvidenceInForce`, `DecisionKept` | - |
| `GovernedReleaseProofs` | `NothingForgotten`, `SoundReport`, `FreshRelease`, `HonestRelease`, `AuthenticRelease` | - |

### MangekyoLoop

First type correctness: the record lemmas (`Set*`, `*Type`) say that each session a
worker writes is in `Sessions`, and `ChoiceFits` that a worker carries a decision or
an outcome where it uses one. Then:

- `DurableSessionValid`: every step leaves the session or writes a valid one
  (`SessionStep`), hence `Valid(session)` always.
- `EndedInvariant` (after a terminal record the worker only closes and releases)
  gives `ActiveUntilTerminal`.
- `AuthorityInvariant` (what a worker about to edit or mutate holds) with validity
  gives the action property `MutationAuthorized`.
- `SingleMutation`: the strengthening says that a round whose status is not
  settled has not been mutated, and that a worker before its mutation works on
  such a round; recovery goes from every mutation-capable status to FAILED.
- `VersionInvariant`, `ClaimInvariant` (claim files of one version are disjoint
  and kept while their writer relies on them) and `PassInvariant` give
  `StopExcludesSameVersion`.
- `HaltInv` (a worker in front of its mutation passed its authorization while no Stop
  stood, so one acknowledged since was confirmed over the version it works on) gives
  `StopsHalt`.
- Three invariants keep an open gate decidable. `GateInv`: until a fault, a gate claim of
  the session's current version has its handler at the decision checkpoint, which
  moves the version on or, refused, gives the claim back, as the gate is still open.
  `EndingInv`: a terminal claim of the current version means a DECIDING session.
  `StampInv`: a Stop is younger than the version it claims, and no gate younger than its
  session. So at an open gate an unclaimed version can be decided
  (`RejectionAccepted`), and a claimed one belongs to a Stop, whose record the store
  accepts (`StopAccepted`) unless two Stops crossed. Hence `DecidableUntilFault`, for any
  `MaxFaults`, and `GateDecidable` for none. After a fault the property is false
  (section 4): the hypothesis cannot be dropped.

### WorkerLease

Two workers are never both between creating and removing the lock (`Locked`), since a
lock whose record has run out belongs to nobody who still claims: that is where
`Punctual` (a claim takes less than a lease, with the tick a renewal is ahead, and so
does a release after the last heartbeat) and `Timely` come in, the deadlines of claims
and releases; nothing bounds the time of a worker between claims or before its save.
`Granting` says that from the moment a claim finds the lease claimable until it is
granted nobody else owns the loop, `Lasting` that an owner's lease is in its file, and
that it saves over the version it was granted unless a save came late. A worker that
releases on time still owns the loop (`ReleasersOwn`), so the lease it removes is its
own. A claim that is granted leaves one owner (`OneOwner`), and a worker whose lease ran
out is at work without being one. The refinement is by cases: the release of the lock
after a first claim, or after a renewal over a lease that has run out, is `Acquire`;
expiry, release, death and giving up are `Lose`; renewals in time stutter.

### MutationTransaction

`OneMutator` alone is not inductive: it must be known that nobody removes the
claim an executor works under. `ClaimInv` says whose claim can be there and what it
tells about its executor (`ClaimNames`), that who writes files owns it (`Owned`), and
that nobody is between comparing and removing a claim whose executor has looked at
its targets for the second time (`Undisturbed`); the human's part is `ReviewsEnded`:
past the confirmation the executor has stopped. `Provenance` follows bytes: an
executor's stand in a file, or among the originals of another that may restore them,
only if it may still write or has reported trouble. `Looked` is what a compared file
is worth between look and write. `~ Suspensions` is needed: section 6 has the
counterexample to exclusion without it.

### SessionJournal

The difficulty is that a recovery acts on a listing that ages while others write,
without a claim. `JournalInv` is the conjunction of

- `FilesInv`: the checkpoints of a session have one content per version and one version
  per content, all committed versions are there, at most one candidate follows;
  `BodyInv`: a body is the committed content, the candidate's whose event is written,
  or an approval; `ApprovalInv`: an approved source is final, no draft without one;
- `ShapesInv`, `ItemsInv`, `JobsInv`: what a request carries at each step, and how far
  it is with the files of each session it writes (`Before`, `Made`, `Told`,
  `Embodied`, `Undone`); `Exclusive`, `ClaimInv`: it has its sessions to itself, and
  holds just the claims that belong to its step;
- `SeenInv`, the central part: a listed head was committed and, while the version is
  the same, still is; a listed candidate is the next version and is on the disk or was
  removed for good (`Gone`: no checkpoint has its content again, no body shows it).
  `ChosenInv`: a candidate a recovery works on and that is not committed belongs to no
  writer still at work, and one it drops is shown by no body; `PageInv`: a
  page whose index has the draft has an approved source too, or one still to compare.

Each action has its lemma (`ListInv` ... `DieInv`), most of which instantiate one of a
few facts about what a step does to the files of one session: `RemoveDisk`,
`ForgetDisk`, `PublishDisk`, `AddDisk`, `BodyDisk` for the files and the corresponding
`*Seen`, `*Item` lemmas for those who watch. The two hypotheses enter at one point
each. `~ Rollback`: a content that is saved is new (`SavableItem`), so that a body equal
to the listed head does prove that nothing was committed. `NoTornRollback` (one server,
or no failing write, or no death): while an approval is being undone, its body still
stands without its journal (`Torn`), and only its own server's death may end that
(`DieTorn`), which takes the recoveries that listed it along.

`HistoryKept` follows by cases. A step removes no committed checkpoint
(`CommittedKept`) and moves at most one head, to the next version (`HeadsFollow`);
with `FilesInv` before and after, the committed content of an old version is the same
(`VersionKept`) and the new one is appended (`HistoryStep`).

### SafeExecution

`Owns` ties a request's place to the session's claim, `Place(r)` says what the
record it carries (`cur`) and the one it may put back (`start`) have to do with the
durable one at each step, `Recorded` that what was applied is on record as approved
in *each* of these copies: that is what makes `AppliedOnce` survive a rollback of
the record. `Alone` (whoever is at work finds every other direction idle) gives
`VerificationUndisturbed`; `Rests` is `Operable` extended to the sessions under a
claim. The lemmas about the records an operation makes (`Acceptable`, histories) are
shared by all checkpoints.

### GenomeApproval

The central part is `WholeTransaction`: as long as all three parts of a staged
transaction are there, the catalog is the one from before or the one after, and
until the user edits, head and Genome decide whether it can be completed or has
been. `PendingIsWhole` says that the pointer names only such a transaction (`torn`
excepted), `Progress` what the lock's owner has established at each step, and
`Backed` and `Reads` that the catalog, also as read earlier, contains what the Genome
claims. `Prompt` is needed for `OneOwner` (section 9), and everything else needs
`OneOwner`.

### AuditGenerations

`Shape` says that the activated generations come first and at most one other
follows; `History` that their registries have growing revisions; `Outside` and
`Resolved` how the live documents, pointer and invalidation fit them; `Knows(p)` what
a writer has established at each step, and `Apart` that operation numbers identify.
`Gathers(r)` is about the reader without a lock: its invalidation was current when it
was read, so that what it takes afterwards is no older than its start, and an
intervening audit makes its comparison fail. The refinement `TruthIsOne` is proved
step by step: `Activate` is the abstract `Audit`, an edit's step that makes the live
documents count (the registry's write, or the invalidation) is `Edit`, and every
other step leaves `Truth` alone.

### LearnSession

`Spoken` says that a request which ended without a result says so, or is an analysis;
`Bereft` adds that an analysis at work found the Design DNA of its reference
(`Grounded`), so that one which could not even save its error is excused by a SCAN that
failed on the same reference (`Excused`). `Follows` and `Founded` relate a session on disk to its request's place and memory;
`Read` and `Holds` say what an approver knows, the latter while no lease has run out
under its holder (`evicted`), which is the exception `OneApproval` and `DecisionKept`
state themselves; `Paired` is the correspondence of drafts and approvals. `Restorable`
says, per step of a SCAN's commit and of its undoing, that what it kept suffices to
restore the reference, which needs that nobody else commits it (`Alone`, unless
`torn`).

### GovernedRelease

`Sound(r)` is what the save that accepted a report checked, in a form that can be
taken along into the gate (`Evaluating`) and the session; `Current` equates the open
findings of the report with the history `open`; `Established` is what a capture or
audit has seen while its work lasts, `Dated` and `Recorded` order evidence and
checkpoints by revision. The lemmas are about merging observations into findings and
about `Open`.

### Only model-checked

- Liveness (`LoopSettles`, `InterruptedMutationEnds`, `Settles`): fairness and
  ENABLED are beyond the prover.
- What the hypotheses exclude: callers that save back earlier records (`Rollback`), the
  torn rollback of an approval among several servers, suspended processes
  (`Suspensions`), claims that outlast a lease (`Punctual`, `Prompt`) and leases released
  after they ran out (`LateRelease`). Sections
  5 to 9 say what TLC finds there.

## 15. Not modelled

| part | why |
|---|---|
| Render engine, `packages/render-engine` | child processes, ports and a browser; the models take its outcomes. A hazard stays open: the port reserved for a development server is closed before the server binds it (`render-session.ts:8`), so another server may answer the readiness probe; a second `stop` returns while the first still runs; a detached server survives the studio |
| Mangekyo proposal policy, visual analysis, prompts and schemas of the agents | one answer is validated, no state; the models let an agent answer, answer badly or fail |
| Stop criteria and autonomy policy | pure functions of one round; MangekyoLoop chooses among their outcomes |
| Agent runtime | wrapper of an external SDK |
| Project adapters (detection, GitHub import, locator) | subprocesses and file-system detection without a protocol of their own |
| Templates, reports, user interface | text and read-only projections |
| Activity projections, project metadata, images, likes and notes | presentation data beside the journal |

Inputs the handlers look up before acting (references, the safe execution session,
the workspace) are taken to be found. The content of proposals, renders, findings and
genome evidence is abstracted to what the stores' relations distinguish. Signatures
and digests are taken to be authentic.
