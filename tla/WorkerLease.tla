----------------------------- MODULE WorkerLease -----------------------------
(***************************************************************************)
(* The durable worker lease of one Mangekyo loop: how server processes     *)
(* claim it through a lock file, renew it around every checkpoint and      *)
(* heartbeat, take it over when it has expired, release it, and die.       *)
(* Every file operation another process can be interleaved with is a step. *)
(*                                                                         *)
(* Time is a clock shared by the processes of one machine.  A claim, which *)
(* is a few file operations, takes at most Stall: Tick waits for it.       *)
(* Between two claims a worker may stop for any time, also between the     *)
(* renewal before a checkpoint and its save: it is then replaced without   *)
(* knowing it.  Suspensions adds claimants interrupted in the removal of   *)
(* an orphaned lock, LateRelease workers that close without having renewed *)
(* within Beat.                                                            *)
(***************************************************************************)
EXTENDS Naturals, FiniteSets

CONSTANTS
  Workers,        \* each takes the lease at most once, under its own workerId
  LeaseDuration,  \* leaseDurationMs
  Beat,           \* heartbeatIntervalMs
  Stall,          \* how long a claim may be under way
  Suspensions,    \* whether a claimant may stop before it removes an orphaned lock
  LateRelease,    \* whether a lease that was not renewed in time is released
  MaxTime,        \* bound on the clock
  MaxStamp,       \* bound on the session versions written
  NoLease         \* a file that is absent

ASSUME LeaseAssumption ==
  /\ LeaseDuration \in Nat \ {0} /\ Beat \in Nat \ {0} /\ 2 * Beat <= LeaseDuration
  /\ Stall \in Nat /\ MaxTime \in Nat /\ MaxStamp \in Nat
  /\ Suspensions \in BOOLEAN /\ LateRelease \in BOOLEAN

(* A lease file; it is not whole between its creation and its first write. *)
Lease == [by: Workers, version: Nat, acquired: Nat, whole: BOOLEAN]

ASSUME FileAssumption == NoLease \notin Lease

Live(record, at) == record.acquired + LeaseDuration > at

Locking == {"LOCK", "WRITE_LOCK", "ORPHAN", "REMOVE_ORPHAN", "RELOCK"}
Claiming == {"READ", "CREATE", "WRITE_LEASE", "REPLACE", "RENAME", "UNLOCK",
             "REMOVE_LOCK", "UNDO", "REMOVE_UNDONE"}
Working == Locking \cup Claiming \cup {"WORK", "SAVE", "RELEASE", "REMOVE_LEASE"}
Tasks == {"CLAIM", "RENEW", "PERSIST", "ADVANCE"}

VARIABLES
  clock,
  version, ended, stamp, \* the session: updatedAt, terminal; last stamp given
  overdue,               \* observed: a save was made under a lease that had run out
  lock, lease,           \* worker-lease.lock and worker-lease.claim
  pc, task,              \* where each worker is, and for which operation
  want, known,           \* the lease it claims, the record it read
  held,                  \* its owner's currentLease
  draft                  \* the version of the checkpoint it persists

session == <<version, ended, stamp, overdue>>
local   == <<task, want, known, held, draft>>
leaseVars == <<clock, session, lock, lease, pc, local>>

LeaseInit ==
  /\ clock = 0 /\ version = 0 /\ ended = FALSE /\ stamp = 0 /\ overdue = FALSE
  /\ lock = NoLease /\ lease = NoLease
  /\ pc = [w \in Workers |-> "START"]
  /\ task = [w \in Workers |-> "CLAIM"]
  /\ want = [w \in Workers |-> NoLease] /\ known = want /\ held = want
  /\ draft = [w \in Workers |-> 0]

Turn(w, label) == pc' = [pc EXCEPT ![w] = label]
Step(w, from, to) == pc[w] = from /\ Turn(w, to)

-----------------------------------------------------------------------------
(* What a worker asks claimMangekyoWorkerLease for.                        *)

Ask(w, kind, v, at) ==
  /\ task' = [task EXCEPT ![w] = kind]
  /\ want' = [want EXCEPT ![w] = [by |-> w, version |-> v, acquired |-> at,
                                     whole |-> TRUE]]
  /\ Turn(w, "LOCK")

(* nextLease: renewals are strictly later than the lease they renew.  A    *)
(* tick is long against the millisecond they may be ahead of the clock, so *)
(* that an operation waits for the clock to catch up (Ready).              *)
NextAcquired(w) ==
  IF clock > held[w].acquired THEN clock ELSE held[w].acquired + 1

Ready(w) == pc[w] = "WORK" /\ held[w].acquired <= clock

(* scheduleMangekyoLoop, decideMangekyoGate: for the version just read.    *)
Start(w) ==
  /\ pc[w] = "START" /\ ~ended
  /\ Ask(w, "CLAIM", version, clock)
  /\ UNCHANGED <<clock, session, lock, lease, known, held, draft>>

(* The heartbeat, and assertOwnership before a mutation.                   *)
Renew(w) ==
  /\ Ready(w)
  /\ Ask(w, "RENEW", held[w].version, NextAcquired(w))
  /\ UNCHANGED <<clock, session, lock, lease, known, held, draft>>

(* persist and commitTerminalTransition renew, then save.                  *)
Persist(w) ==
  /\ Ready(w) /\ stamp < MaxStamp
  /\ stamp' = stamp + 1 /\ draft' = [draft EXCEPT ![w] = stamp + 1]
  /\ Ask(w, "PERSIST", held[w].version, NextAcquired(w))
  /\ UNCHANGED <<clock, version, ended, overdue, lock, lease, known, held>>

(* The save looks at no lease.  A checkpoint that does not end the session *)
(* advances the lease to it.                                               *)
Save(w) ==
  /\ pc[w] = "SAVE"
  /\ version' = draft[w] /\ overdue' = (overdue \/ ~ Live(held[w], clock))
  /\ \/ /\ ended' = TRUE /\ Turn(w, "WORK") /\ UNCHANGED <<task, want>>
     \/ /\ ended' = FALSE /\ Ask(w, "ADVANCE", draft[w], NextAcquired(w))
  /\ UNCHANGED <<clock, stamp, lock, lease, known, held, draft>>

-----------------------------------------------------------------------------
(* claimMangekyoWorkerLease: the lock file                                 *)

allButPc == <<clock, session, lock, lease, local>>

(* The record is written into the file its writer created, which may have  *)
(* been removed and replaced since.                                        *)
Written(file, w) ==
  IF file # NoLease /\ file.by = w THEN want[w] ELSE file

(* Exclusive creation.                                                     *)
CreateLock(w) ==
  /\ pc[w] \in {"LOCK", "RELOCK"} /\ lock = NoLease
  /\ lock' = [want[w] EXCEPT !.whole = FALSE] /\ Turn(w, "WRITE_LOCK")
  /\ UNCHANGED <<clock, session, lease, local>>

WriteLock(w) ==
  /\ Step(w, "WRITE_LOCK", "READ")
  /\ lock' = Written(lock, w)
  /\ UNCHANGED <<clock, session, lease, local>>

LockTaken(w) ==
  /\ lock # NoLease
  /\ Step(w, "LOCK", "ORPHAN") \/ Step(w, "RELOCK", "FAILED")
  /\ UNCHANGED allButPc

(* A lock whose own record has expired was left by a dead claimant.        *)
Orphaned(w) ==
  lock # NoLease /\ lock.whole /\ ~ Live(lock, want[w].acquired)

FindOrphan(w) ==
  /\ Step(w, "ORPHAN", IF Orphaned(w) THEN "REMOVE_ORPHAN" ELSE "FAILED")
  /\ UNCHANGED allButPc

(* removeExactClaimFile: the comparison with the orphan found, and its      *)
(* removal, which a suspended process does later.                          *)
RemoveOrphan(w) ==
  LET exact == lock # NoLease /\ (Suspensions \/ Orphaned(w))
  IN  /\ Step(w, "REMOVE_ORPHAN", IF exact THEN "RELOCK" ELSE "FAILED")
      /\ lock' = IF exact THEN NoLease ELSE lock
      /\ UNCHANGED <<clock, session, lease, local>>

-----------------------------------------------------------------------------
(* ... the lease file, under the lock                                      *)

Current(w) == ~ended /\ version = want[w].version

Renewable(w) ==
  /\ lease.by = w /\ Live(lease, want[w].acquired)
  /\ want[w].acquired > lease.acquired
  /\ want[w].version >= lease.version
  /\ Current(w)

(* MUTANT: a live lease of another worker is no obstacle. *)
ClaimableAlways(w) ==
  /\ Current(w)
  /\ lease # NoLease =>
       /\ lease.whole
       /\ lease.by # w \/ Renewable(w)

(* No lease, an expired one of another worker, or the worker's own.        *)
Claimable(w) ==
  /\ Current(w)
  /\ lease # NoLease =>
       /\ lease.whole
       /\ \/ lease.by # w /\ ~ Live(lease, want[w].acquired)
          \/ Renewable(w)

ReadLease(w) ==
  /\ Step(w, "READ", IF ~ Claimable(w) THEN "UNDO"
                     ELSE IF lease = NoLease THEN "CREATE" ELSE "REPLACE")
  /\ known' = [known EXCEPT ![w] = lease]
  /\ UNCHANGED <<clock, session, lock, lease, task, want, held, draft>>

CreateLease(w) ==
  /\ Step(w, "CREATE", IF lease = NoLease THEN "WRITE_LEASE" ELSE "UNDO")
  /\ lease' = IF lease = NoLease THEN [want[w] EXCEPT !.whole = FALSE] ELSE lease
  /\ UNCHANGED <<clock, session, lock, local>>

WriteLease(w) ==
  /\ Step(w, "WRITE_LEASE", "UNLOCK")
  /\ lease' = Written(lease, w)
  /\ UNCHANGED <<clock, session, lock, local>>

(* replaceWorkerLease: compare with the record read, then rename over it.  *)
CompareLease(w) ==
  /\ Step(w, "REPLACE", IF lease = known[w] THEN "RENAME" ELSE "UNDO")
  /\ UNCHANGED allButPc

RenameLease(w) ==
  /\ Step(w, "RENAME", "UNLOCK")
  /\ lease' = want[w]
  /\ UNCHANGED <<clock, session, lock, local>>

-----------------------------------------------------------------------------
(* ... and the release of the exact lock, whatever the outcome.  A lock    *)
(* that is not the claimant's own fails the whole claim.                   *)

OwnLock(w) ==
  /\ \/ Step(w, "UNLOCK", IF lock = want[w] THEN "REMOVE_LOCK" ELSE "FAILED")
     \/ Step(w, "UNDO", IF lock = want[w] THEN "REMOVE_UNDONE" ELSE "FAILED")
  /\ UNCHANGED allButPc

ReleaseLock(w) ==
  /\ \/ /\ lock # NoLease
        /\ Step(w, "REMOVE_LOCK", IF task[w] = "PERSIST" THEN "SAVE" ELSE "WORK")
        /\ held' = [held EXCEPT ![w] = want[w]]
     \/ /\ lock = NoLease /\ Step(w, "REMOVE_LOCK", "FAILED") /\ UNCHANGED held
     \/ Step(w, "REMOVE_UNDONE", "FAILED") /\ UNCHANGED held
  /\ lock' = NoLease
  /\ UNCHANGED <<clock, session, lease, task, want, known, draft>>

-----------------------------------------------------------------------------
(* close, and releaseMangekyoWorkerLease, which takes no lock and compares *)
(* the file with the lease held, whether or not that has run out.          *)

Close(w) ==
  /\ \/ /\ Step(w, "WORK", "RELEASE")
        /\ LateRelease \/ clock <= held[w].acquired + Beat
     \/ Step(w, "WORK", "DONE")
  /\ UNCHANGED allButPc

CompareReleased(w) ==
  /\ Step(w, "RELEASE", IF lease = held[w] /\ version >= held[w].version
                        THEN "REMOVE_LEASE" ELSE "FAILED")
  /\ UNCHANGED allButPc

RemoveLease(w) ==
  /\ Step(w, "REMOVE_LEASE", IF lease = NoLease THEN "FAILED" ELSE "DONE")
  /\ lease' = NoLease
  /\ UNCHANGED <<clock, session, lock, local>>

(* A failed owner refuses everything, but the engine it serves runs on     *)
(* until it next asks the owner for something.                             *)
EngineAborts(w) ==
  /\ Step(w, "FAILED", "DONE")
  /\ UNCHANGED allButPc

Crash(w) ==
  /\ pc[w] \in Working \cup {"FAILED"} /\ Turn(w, "DEAD")
  /\ UNCHANGED allButPc

-----------------------------------------------------------------------------
Prompt(w, at) ==
  /\ pc[w] \in Locking \cup Claiming => at <= want[w].acquired + Stall
  /\ pc[w] \in {"RELEASE", "REMOVE_LEASE"} /\ ~ LateRelease =>
       at <= held[w].acquired + Beat + Stall

Tick ==
  /\ clock < MaxTime /\ clock' = clock + 1
  /\ \A w \in Workers : Prompt(w, clock')
  /\ UNCHANGED <<session, lock, lease, pc, local>>

Claim(w) ==
  \/ CreateLock(w) \/ WriteLock(w) \/ LockTaken(w) \/ FindOrphan(w) \/ RemoveOrphan(w)
  \/ ReadLease(w) \/ CreateLease(w) \/ WriteLease(w) \/ CompareLease(w) \/ RenameLease(w)
  \/ OwnLock(w) \/ ReleaseLock(w)

Worker(w) ==
  \/ Start(w) \/ Renew(w) \/ Persist(w) \/ Save(w) \/ Claim(w)
  \/ Close(w) \/ CompareReleased(w) \/ RemoveLease(w) \/ EngineAborts(w)

LeaseNext == Tick \/ \E w \in Workers : Worker(w) \/ Crash(w)

LeaseSpec == LeaseInit /\ [][LeaseNext]_leaseVars

-----------------------------------------------------------------------------
LeaseTypeOK ==
  /\ clock \in Nat /\ version \in Nat /\ ended \in BOOLEAN /\ stamp \in Nat
  /\ overdue \in BOOLEAN
  /\ lock \in Lease \cup {NoLease} /\ lease \in Lease \cup {NoLease}
  /\ pc \in [Workers -> Working \cup {"START", "FAILED", "DONE", "DEAD"}]
  /\ task \in [Workers -> Tasks]
  /\ want \in [Workers -> Lease \cup {NoLease}]
  /\ known \in [Workers -> Lease \cup {NoLease}]
  /\ held \in [Workers -> Lease \cup {NoLease}]
  /\ draft \in [Workers -> Nat]

(* A worker whose engine may still work, under a lease that has not run    *)
(* out by the clock.                                                       *)
Owns(w) ==
  /\ held[w] # NoLease /\ pc[w] \in Working \cup {"FAILED"}
  /\ Live(held[w], clock)

(* The lease is never owned twice, and never passes from one worker to the *)
(* next without having been given up or lost.                              *)
Ownership == INSTANCE WorkerOwnership WITH owners <- {w \in Workers : Owns(w)}
OwnershipImplemented == Ownership!Spec

(* A worker that was replaced while it stopped is refused: who succeeds    *)
(* with a claim or renewal (before a mutation, before a save) is the only  *)
(* owner and the one the lease file names, and a checkpoint is saved by    *)
(* that worker over the version its lease was granted for.  The exception  *)
(* is the save itself, which looks at no lease: one made after the lease   *)
(* renewed for it has run out is not refused, and then replaces a version  *)
(* its writer never saw.                                                   *)
ReplacedWorkersRefused ==
  [][\A w \in Workers :
       /\ pc[w] = "REMOVE_LOCK" /\ pc'[w] \in {"WORK", "SAVE"} =>
            lease.by = w /\ {x \in Workers : Owns(x)}' = {w}
       /\ pc[w] = "SAVE" /\ pc'[w] \in {"WORK", "LOCK"} /\ ~ overdue' =>
            lease # NoLease /\ lease.by = w /\ version = held[w].version]_leaseVars

(* The lease file of a worker that owns the loop is changed only by that   *)
(* worker, whoever else claims, gives up or dies meanwhile.                *)
LiveLeaseKept ==
  [][lease # NoLease /\ Owns(lease.by) /\ lease' # lease =>
       IF lease' = NoLease THEN pc[lease.by] = "REMOVE_LEASE"
                           ELSE lease'.by = lease.by]_leaseVars

===============================================================================
