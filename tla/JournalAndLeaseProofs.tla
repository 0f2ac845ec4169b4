------------------------ MODULE JournalAndLeaseProofs ------------------------
(***************************************************************************)
(* Proofs about the two file protocols among processes that share a        *)
(* project.                                                                *)
(*                                                                         *)
(* WorkerLease, for any number of workers, deaths and checkpoints and for  *)
(* any durations that suit a prompt claim: the file protocol implements    *)
(* WorkerOwnership, a replaced worker is refused, and a live lease is      *)
(* changed only by its owner.                                              *)
(*                                                                         *)
(* SessionJournal, for any number of servers, requests, versions, failures *)
(* and deaths: the journal implements CommittedSessions, every state can   *)
(* be recovered, and there is no draft without its approval.               *)
(***************************************************************************)
EXTENDS SessionJournal, WorkerLease, FiniteSetTheorems, TLAPS

-----------------------------------------------------------------------------
(* WorkerLease: prompt claims.                                             *)

(* A claim takes less than a lease, also with what a renewal is ahead of   *)
(* the clock, and so does a release after the last heartbeat.              *)
Punctual == Stall + 2 < LeaseDuration /\ Beat + Stall < LeaseDuration

-----------------------------------------------------------------------------
(* The inductive invariant.                                                *)

Asking == Locking \cup Claiming
(* Between the creation of the lock and its removal.                       *)
Critical == {"WRITE_LOCK", "READ", "CREATE", "WRITE_LEASE", "REPLACE", "RENAME", "UNLOCK",
             "REMOVE_LOCK", "UNDO", "REMOVE_UNDONE"}
(* After the lease has been found claimable, and after it is written.      *)
Granted == {"CREATE", "WRITE_LEASE", "REPLACE", "RENAME", "UNLOCK", "REMOVE_LOCK"}
Naming == {"UNLOCK", "REMOVE_LOCK"}
Holding == {"WORK", "SAVE", "RELEASE", "REMOVE_LEASE"}

(* The leases a worker asks for and holds are its own; only a worker that  *)
(* has none claims, and only one that has one renews.                      *)
Terms(w) ==
  /\ pc[w] \in Asking => want[w] \in Lease /\ want[w].by = w /\ want[w].whole
  /\ held[w] # NoLease => held[w].by = w
  /\ pc[w] = "START" => held[w] = NoLease
  /\ pc[w] \in Asking => (task[w] = "CLAIM" <=> held[w] = NoLease)
  /\ pc[w] \in Holding => held[w] # NoLease
  /\ pc[w] = "SAVE" => want[w] = held[w]
  /\ pc[w] = "SAVE" => task[w] = "PERSIST"

(* A claim is prompt, and a lease is asked for the present or for the      *)
(* instant after the one it renews.                                        *)
Timely(w) ==
  /\ pc[w] \in Asking =>
       /\ clock <= want[w].acquired + Stall
       /\ want[w].acquired <= clock + 2
       /\ task[w] \in {"RENEW", "PERSIST"} => want[w].acquired <= clock + 1
       /\ \/ want[w].acquired <= clock
          \/ task[w] # "CLAIM" /\ want[w].acquired = held[w].acquired + 1
  /\ pc[w] = "SAVE" => held[w].acquired <= clock + 1
  /\ pc[w] \in {"RELEASE", "REMOVE_LEASE"} => clock <= held[w].acquired + Beat + Stall

(* The lock is the claimant's own until it removes it.                     *)
Locked(w) ==
  pc[w] \in Critical =>
    /\ lock # NoLease /\ lock.by = w /\ lock.acquired = want[w].acquired
    /\ pc[w] # "WRITE_LOCK" => lock = want[w]

(* While a claimant that was not refused writes, nobody else has the       *)
(* lease, and unless a save came late, it claims the present version.      *)
Granting(w) ==
  pc[w] \in Granted =>
    /\ overdue \/ Current(w)
    /\ \A x \in Workers \ {w} : ~ Owns(x)
    /\ pc[w] \in {"CREATE", "WRITE_LEASE"} => ~ Owns(w)
    /\ pc[w] = "WRITE_LEASE" => lease = [want[w] EXCEPT !.whole = FALSE]
    /\ pc[w] \in Naming => lease = want[w]

(* The lease file names the owner, also while it renews, and the owner     *)
(* saves over the version it has claimed.                                  *)
Lasting(w) ==
  /\ Owns(w) => lease = IF pc[w] \in Naming THEN want[w] ELSE held[w]
  /\ pc[w] = "SAVE" /\ Owns(w) => overdue \/ version = held[w].version

Knows(w) == Terms(w) /\ Timely(w) /\ Locked(w) /\ Granting(w) /\ Lasting(w)

LeaseInv == LeaseTypeOK /\ \A w \in Workers : Knows(w)

-----------------------------------------------------------------------------
(* What follows from the invariant in a state.                             *)

(* Two claimants are never both past the creation of the lock.             *)
LEMMA OneHolder ==
  ASSUME LeaseInv, NEW w \in Workers, NEW x \in Workers,
         pc[w] \in Critical, pc[x] \in Critical
  PROVE  w = x
BY DEF LeaseInv, Knows, Locked

(* Only one worker owns the loop.                                          *)
LEMMA OneOwner ==
  ASSUME LeaseInv, NEW w \in Workers, NEW x \in Workers, Owns(w), Owns(x)
  PROVE  w = x
<1>1. ASSUME NEW v \in Workers, Owns(v) PROVE lease.by = v
  <2>1. Lasting(v) /\ Terms(v) /\ held[v] # NoLease
    BY <1>1 DEF LeaseInv, Knows, Owns
  <2>2. CASE pc[v] \in Naming
    BY <1>1, <2>1, <2>2 DEF Lasting, Terms, Naming, Asking, Claiming
  <2>3. CASE pc[v] \notin Naming
    BY <1>1, <2>1, <2>3 DEF Lasting, Terms
  <2> QED BY <2>2, <2>3
<1> QED BY <1>1

(* A worker that releases its lease owns the loop.                         *)
LEMMA ReleasersOwn ==
  ASSUME Punctual, LeaseInv, NEW w \in Workers, pc[w] \in {"RELEASE", "REMOVE_LEASE"}
  PROVE  Owns(w)
<1>1. clock \in Nat /\ held[w] \in Lease
  BY DEF LeaseInv, LeaseTypeOK, Knows, Terms, Holding
<1>2. held[w].acquired \in Nat /\ held[w] # NoLease
  BY <1>1, FileAssumption DEF Lease
<1>3. clock <= held[w].acquired + Beat + Stall
  BY DEF LeaseInv, Knows, Timely
<1> QED BY <1>1, <1>2, <1>3, LeaseAssumption DEF Owns, Live, Punctual, Working

(* A lock that looks orphaned belongs to nobody who still claims.          *)
LEMMA OrphansAreDead ==
  ASSUME Punctual, LeaseInv, NEW w \in Workers, NEW x \in Workers,
         pc[w] \in Asking, Orphaned(w)
  PROVE  pc[x] \notin Critical
<1>1. SUFFICES ASSUME pc[x] \in Critical PROVE FALSE
  OBVIOUS
<1>2. Locked(x) /\ Timely(x) /\ Timely(w) /\ Terms(w) /\ Terms(x)
  BY DEF LeaseInv, Knows
<1>3. pc[x] \in Asking
  BY <1>1 DEF Critical, Asking, Claiming, Locking
<1>4. want[w] \in Lease /\ want[x] \in Lease
  BY <1>2, <1>3 DEF Terms
<1>5. clock \in Nat /\ want[w].acquired \in Nat /\ want[x].acquired \in Nat
  BY <1>4 DEF Lease, LeaseInv, LeaseTypeOK
<1>6. lock.acquired = want[x].acquired
  BY <1>1, <1>2 DEF Locked
<1>7. want[x].acquired + LeaseDuration <= want[w].acquired
  BY <1>5, <1>6, LeaseAssumption DEF Orphaned, Live
<1>8. clock <= want[x].acquired + Stall /\ want[w].acquired <= clock + 2
  BY <1>2, <1>3 DEF Timely
<1> QED BY <1>5, <1>7, <1>8, LeaseAssumption DEF Punctual

(* A lease found claimable is not another owner's.                         *)
LEMMA ClaimableIsFree ==
  ASSUME LeaseInv, NEW w \in Workers, pc[w] = "READ", Claimable(w),
         NEW x \in Workers \ {w}
  PROVE  ~ Owns(x)
<1>1. SUFFICES ASSUME Owns(x) PROVE FALSE
  OBVIOUS
<1>2. pc[x] \notin Critical
  BY OneHolder DEF Critical
<1>3. lease = held[x] /\ held[x] # NoLease /\ held[x].by = x
  BY <1>1, <1>2 DEF LeaseInv, Knows, Lasting, Terms, Owns, Naming, Critical
<1>4. held[x] \in Lease /\ clock \in Nat
  BY <1>3 DEF LeaseInv, LeaseTypeOK
<1>5. want[w] \in Lease /\ Terms(w) /\ Timely(w) /\ pc[w] \in Asking
  BY DEF LeaseInv, Knows, Terms, Asking, Claiming
<1>6. ~ Live(lease, want[w].acquired)
  BY <1>3 DEF Claimable, Renewable
<1>7. want[w].acquired > clock
  BY <1>1, <1>3, <1>4, <1>5, <1>6, LeaseAssumption DEF Owns, Live, Lease
<1>8. held[w] # NoLease /\ want[w].acquired = held[w].acquired + 1
  BY <1>4, <1>5, <1>7 DEF Terms, Timely, Lease
<1>9. held[w] \in Lease
  BY <1>8 DEF LeaseInv, LeaseTypeOK
<1>10. Owns(w)
  BY <1>4, <1>5, <1>7, <1>8, <1>9, LeaseAssumption
     DEF Owns, Live, Lease, Working, Asking
<1> QED BY <1>1, <1>10, OneOwner

-----------------------------------------------------------------------------
(* Steps.                                                                  *)

(* A file that is created before it is written.                            *)
LEMMA LeaseCreated ==
  ASSUME NEW r \in Lease
  PROVE  /\ [r EXCEPT !.whole = FALSE] \in Lease
         /\ [r EXCEPT !.whole = FALSE].by = r.by
         /\ [r EXCEPT !.whole = FALSE].acquired = r.acquired
BY DEF Lease

Labels == Working \cup {"START", "FAILED", "DONE", "DEAD"}

(* Every variable keeps its type.                                          *)
LEMMA TypeStep ==
  ASSUME LeaseInv, [LeaseNext]_leaseVars
  PROVE  LeaseTypeOK'
<1>1. LeaseTypeOK /\ \A w \in Workers : Terms(w)
  BY DEF LeaseInv, Knows
<1>0. pc \in [Workers -> Labels]
  BY <1>1 DEF LeaseTypeOK, Labels
<1>2. ASSUME NEW w \in Workers, Worker(w) \/ Crash(w) PROVE LeaseTypeOK'
  <2>1. ASSUME NEW label \in Labels, Turn(w, label) PROVE pc' \in [Workers -> Labels]
    BY <1>0, <2>1 DEF Turn
  <2>2. ASSUME NEW kind \in Tasks, NEW v \in Nat, NEW at \in Nat, Ask(w, kind, v, at)
        PROVE  /\ pc' \in [Workers -> Labels]
               /\ task' \in [Workers -> Tasks]
               /\ want' \in [Workers -> Lease \cup {NoLease}]
    <3>1. [by |-> w, version |-> v, acquired |-> at, whole |-> TRUE] \in Lease
      BY DEF Lease
    <3>2. "LOCK" \in Labels
      BY DEF Labels, Working, Locking
    <3>3. Turn(w, "LOCK")
      BY <2>2 DEF Ask
    <3>4. pc' \in [Workers -> Labels]
      BY <2>1, <3>2, <3>3
    <3> QED BY <1>1, <2>2, <3>1, <3>4 DEF LeaseTypeOK, Ask
  <2>3. CASE Start(w)
    BY <1>1, <2>2, <2>3 DEF Labels, LeaseTypeOK, Start, Tasks, session
  <2>4. CASE Renew(w) \/ Persist(w)
    <3>1. held[w] \in Lease
      BY <1>1, <2>4 DEF Renew, Persist, Ready, Terms, Holding, LeaseTypeOK
    <3>2. held[w].version \in Nat /\ NextAcquired(w) \in Nat
      BY <1>1, <3>1 DEF NextAcquired, Lease, LeaseTypeOK
    <3> QED BY <1>1, <2>2, <2>4, <3>2 DEF Labels, LeaseTypeOK, Renew, Persist, Tasks, session
  <2>5. CASE Save(w)
    <3>1. held[w] \in Lease
      BY <1>1, <2>5 DEF Save, Terms, Holding, LeaseTypeOK
    <3>2. draft[w] \in Nat /\ NextAcquired(w) \in Nat
      BY <1>1, <3>1 DEF NextAcquired, Lease, LeaseTypeOK
    <3> QED BY <1>1, <2>1, <2>2, <2>5, <3>2 DEF Labels, LeaseTypeOK, Save, Tasks, Working
  <2>6. CASE Claim(w)
    <3>1. pc' \in [Workers -> Labels]
      BY <1>0, <2>6
         DEF Labels, Claim, Step, Turn, CreateLock, WriteLock, LockTaken, FindOrphan,
             RemoveOrphan, ReadLease, CreateLease, WriteLease, CompareLease,
             RenameLease, OwnLock, ReleaseLock, Working, Locking, Claiming
    <3>2. pc[w] \in Asking => [want[w] EXCEPT !.whole = FALSE] \in Lease
      BY <1>1, LeaseCreated DEF Terms
    <3>3. pc[w] \in Asking => want[w] \in Lease
      BY <1>1 DEF Terms
    <3>4. pc[w] \in Asking
      BY <2>6
         DEF Claim, Step, CreateLock, WriteLock, LockTaken, FindOrphan, RemoveOrphan,
             ReadLease, CreateLease, WriteLease, CompareLease, RenameLease, OwnLock,
             ReleaseLock, Asking, Locking, Claiming
    <3>5. lock' \in Lease \cup {NoLease} /\ lease' \in Lease \cup {NoLease}
      BY <1>1, <2>6, <3>2, <3>3, <3>4
         DEF LeaseTypeOK, Claim, allButPc, CreateLock, WriteLock, LockTaken, FindOrphan,
             RemoveOrphan, ReadLease, CreateLease, WriteLease, CompareLease,
             RenameLease, OwnLock, ReleaseLock, Written
    <3>6. /\ held' \in [Workers -> Lease \cup {NoLease}]
          /\ known' \in [Workers -> Lease \cup {NoLease}]
          /\ UNCHANGED <<clock, session, task, want, draft>>
      BY <1>1, <2>6, <3>3, <3>4
         DEF LeaseTypeOK, Claim, allButPc, local, CreateLock, WriteLock, LockTaken, FindOrphan,
             RemoveOrphan, ReadLease, CreateLease, WriteLease, CompareLease,
             RenameLease, OwnLock, ReleaseLock
    <3> QED BY <1>1, <3>1, <3>5, <3>6 DEF Labels, LeaseTypeOK, session
  <2>7. CASE Close(w) \/ CompareReleased(w) \/ RemoveLease(w) \/ EngineAborts(w) \/ Crash(w)
    <3>1. pc' \in [Workers -> Labels]
      BY <1>0, <2>7
         DEF Labels, Step, Turn, Close, CompareReleased, RemoveLease, EngineAborts,
             Crash, Working
    <3> QED BY <1>1, <2>7, <3>1
               DEF Labels, LeaseTypeOK, allButPc, session, local, Close, CompareReleased,
                   RemoveLease, EngineAborts, Crash
  <2> QED BY <1>2, <2>3, <2>4, <2>5, <2>6, <2>7 DEF Worker
<1>3. CASE Tick
  BY <1>1, <1>3 DEF LeaseTypeOK, Tick, session, local
<1>4. CASE UNCHANGED leaseVars
  BY <1>1, <1>4 DEF LeaseTypeOK, leaseVars, session, local
<1> QED BY <1>2, <1>3, <1>4 DEF LeaseNext

(* A worker that does nothing.                                             *)
Still(x) == pc'[x] = pc[x] /\ task'[x] = task[x] /\ want'[x] = want[x] /\ held'[x] = held[x]

(* A step is one worker's, at one time.                                    *)
LEMMA OneWorker ==
  ASSUME LeaseTypeOK, NEW w \in Workers, Worker(w) \/ Crash(w)
  PROVE  clock' = clock /\ \A x \in Workers \ {w} : Still(x)
<1>1. CASE Start(w) \/ Renew(w) \/ Persist(w) \/ Save(w)
  BY <1>1 DEF LeaseTypeOK, Start, Renew, Persist, Save, Ask, Turn, Still
<1>2. CASE Claim(w)
  BY <1>2
     DEF LeaseTypeOK, Claim, allButPc, local, Step, Turn, CreateLock, WriteLock, LockTaken,
         FindOrphan, RemoveOrphan, ReadLease, CreateLease, WriteLease, CompareLease,
         RenameLease, OwnLock, ReleaseLock, Still
<1>3. CASE Close(w) \/ CompareReleased(w) \/ RemoveLease(w) \/ EngineAborts(w) \/ Crash(w)
  BY <1>3
     DEF LeaseTypeOK, Step, Turn, Close, CompareReleased, RemoveLease, EngineAborts, Crash,
         allButPc, local, Still
<1> QED BY <1>1, <1>2, <1>3 DEF Worker

(* Only a claimant that gives back its lock becomes an owner.              *)
LEMMA OwnersBefore ==
  ASSUME LeaseInv, NEW w \in Workers, Worker(w) \/ Crash(w)
  PROVE  /\ \A x \in Workers \ {w} : Owns(x)' <=> Owns(x)
         /\ Owns(w)' => Owns(w) \/ (ReleaseLock(w) /\ pc[w] = "REMOVE_LOCK")
<1>1. clock' = clock /\ \A x \in Workers \ {w} : Still(x)
  BY OneWorker DEF LeaseInv
<1>2. \A x \in Workers \ {w} : Owns(x)' <=> Owns(x)
  BY <1>1 DEF Still, Owns, Live
<1>3. ASSUME Owns(w)', ~ Owns(w)
      PROVE  ReleaseLock(w) /\ pc[w] = "REMOVE_LOCK"
  <2>1. ASSUME held' = held, pc[w] \in Working \cup {"FAILED"} PROVE FALSE
    BY <1>1, <1>3, <2>1 DEF Owns, Live
  <2>2. pc[w] = "START" => held[w] = NoLease
    BY DEF LeaseInv, Knows, Terms
  <2>3. pc[w] \in Working \cup {"FAILED", "START"}
    BY DEF Worker, Claim, Step, Start, Renew, Persist, Save, Ready, CreateLock,
           WriteLock, LockTaken, FindOrphan, RemoveOrphan, ReadLease, CreateLease,
           WriteLease, CompareLease, RenameLease, OwnLock, ReleaseLock, Close,
           CompareReleased, RemoveLease, EngineAborts, Crash, Working, Locking, Claiming
  <2>4. held' # held
    BY <1>3, <2>1, <2>2, <2>3 DEF Owns
  <2> QED BY <2>4
       DEF Worker, Claim, allButPc, local, Step, Start, Renew, Persist, Save, CreateLock,
           WriteLock, LockTaken, FindOrphan, RemoveOrphan, ReadLease, CreateLease,
           WriteLease, CompareLease, RenameLease, OwnLock, ReleaseLock, Close,
           CompareReleased, RemoveLease, EngineAborts, Crash
<1> QED BY <1>2, <1>3

(* Nobody else touches the lock of a claimant.                             *)
LEMMA LockKept ==
  ASSUME Punctual, ~ Suspensions, LeaseInv, NEW w \in Workers, Worker(w) \/ Crash(w),
         NEW x \in Workers \ {w}, pc[x] \in Critical
  PROVE  lock' = lock
<1>1. pc[w] \notin Critical
  BY OneHolder
<1>2. lock # NoLease
  BY DEF LeaseInv, Knows, Locked
<1>3. CASE RemoveOrphan(w)
  <2>1. pc[w] \in Asking
    BY <1>3 DEF RemoveOrphan, Step, Asking, Locking
  <2> QED BY <1>3, <2>1, OrphansAreDead DEF RemoveOrphan
<1>4. CASE ~ RemoveOrphan(w)
  BY <1>1, <1>2, <1>4
     DEF Worker, Claim, allButPc, Step, Start, Renew, Persist, Save, CreateLock, WriteLock,
         LockTaken, FindOrphan, ReadLease, CreateLease, WriteLease, CompareLease,
         RenameLease, OwnLock, ReleaseLock, Close, CompareReleased, RemoveLease,
         EngineAborts, Crash, Critical
<1> QED BY <1>3, <1>4

(* Nobody else touches the lease of an owner, or of a claimant it has been *)
(* granted to.                                                             *)
LEMMA LeaseKept ==
  ASSUME Punctual, LeaseInv, NEW w \in Workers, Worker(w) \/ Crash(w),
         NEW x \in Workers \ {w}, Owns(x) \/ pc[x] \in Granted
  PROVE  lease' = lease
<1>1. CASE CreateLease(w) \/ WriteLease(w) \/ RenameLease(w)
  <2>1. pc[w] \in Granted /\ pc[w] \in Critical
    BY <1>1 DEF CreateLease, WriteLease, RenameLease, Step, Granted, Critical
  <2>2. pc[x] \notin Granted
    BY <2>1, OneHolder DEF Granted, Critical
  <2> QED BY <2>1, <2>2 DEF LeaseInv, Knows, Granting
<1>2. CASE RemoveLease(w)
  <2>1. Owns(w)
    BY <1>2, ReleasersOwn DEF RemoveLease, Step
  <2>2. pc[x] \in Granted
    BY <2>1, OneOwner
  <2> QED BY <2>1, <2>2 DEF LeaseInv, Knows, Granting
<1>3. CASE ~ (CreateLease(w) \/ WriteLease(w) \/ RenameLease(w) \/ RemoveLease(w))
  BY <1>3
     DEF Worker, Claim, allButPc, Start, Renew, Persist, Save, CreateLock, WriteLock,
         LockTaken, FindOrphan, RemoveOrphan, ReadLease, CompareLease, OwnLock,
         ReleaseLock, Close, CompareReleased, EngineAborts, Crash
<1> QED BY <1>1, <1>2, <1>3

(* A checkpoint saved in time is saved when nobody else has a claim.       *)
LEMMA SavedAlone ==
  ASSUME LeaseInv, NEW w \in Workers, Save(w), ~ overdue', NEW x \in Workers \ {w}
  PROVE  pc[x] \notin Granted /\ ~ Owns(x)
<1>1. pc[w] = "SAVE" /\ Live(held[w], clock)
  BY DEF Save
<1>2. Owns(w)
  BY <1>1 DEF Owns, Working, LeaseInv, Knows, Terms, Holding
<1> QED BY <1>2, OneOwner DEF LeaseInv, Knows, Granting

(* What a worker knows is not disturbed by another's step.                 *)
LEMMA OthersKnow ==
  ASSUME Punctual, ~ Suspensions, LeaseInv, NEW w \in Workers, Worker(w) \/ Crash(w),
         NEW x \in Workers \ {w}
  PROVE  Knows(x)'
<1>1. clock' = clock /\ Still(x) /\ Knows(x)
  BY OneWorker DEF LeaseInv
<1>2. Terms(x)' /\ Timely(x)'
  BY <1>1 DEF Knows, Still, Terms, Timely
<1>3. Locked(x)'
  BY <1>1, LockKept DEF Knows, Still, Locked
<1>4. /\ pc[x] \in Granted => overdue' \/ Current(x)'
      /\ pc[x] = "SAVE" /\ Owns(x) => overdue' \/ version' = held[x].version
  <2>1. CASE Save(w)
    BY <2>1, SavedAlone
  <2>2. CASE ~ Save(w)
    <3>1. version' = version /\ ended' = ended /\ overdue' = overdue
      BY <2>2
         DEF Worker, Claim, allButPc, session, Start, Renew, Persist, CreateLock,
             WriteLock, LockTaken, FindOrphan, RemoveOrphan, ReadLease, CreateLease,
             WriteLease, CompareLease, RenameLease, OwnLock, ReleaseLock, Close,
             CompareReleased, RemoveLease, EngineAborts, Crash
    <3> QED BY <1>1, <3>1 DEF Knows, Still, Granting, Lasting, Current
  <2> QED BY <2>1, <2>2
<1>5. ASSUME pc[x] \in Granted, NEW y \in Workers \ {x}
      PROVE  ~ Owns(y)'
  <2>1. ~ Owns(y)
    BY <1>1, <1>5 DEF Knows, Granting
  <2>2. CASE y # w
    BY <2>1, <2>2, OwnersBefore
  <2>3. CASE y = w
    <3>1. pc[w] # "REMOVE_LOCK"
      BY <1>5, OneHolder DEF Granted, Critical
    <3> QED BY <2>1, <2>3, <3>1, OwnersBefore
  <2> QED BY <2>2, <2>3
<1>6. Granting(x)'
  <2>1. Owns(x)' <=> Owns(x)
    BY OwnersBefore
  <2> QED BY <1>1, <1>4, <1>5, <2>1, LeaseKept DEF Knows, Still, Granting, Granted, Naming
<1>7. Lasting(x)'
  <2>1. Owns(x)' <=> Owns(x)
    BY OwnersBefore
  <2> QED BY <1>1, <1>4, <2>1, LeaseKept DEF Knows, Still, Lasting
<1> QED BY <1>2, <1>3, <1>6, <1>7 DEF Knows

-----------------------------------------------------------------------------
(* What a worker knows after its own step.                                 *)

(* A worker goes to its next step at the same time.                        *)
LEMMA Went ==
  ASSUME LeaseInv, NEW w \in Workers, Worker(w) \/ Crash(w), NEW next, Turn(w, next)
  PROVE  clock' = clock /\ pc'[w] = next
BY OneWorker DEF LeaseInv, LeaseTypeOK, Turn

(* What it asks for.                                                       *)
LEMMA Asked ==
  ASSUME LeaseTypeOK, NEW w \in Workers, NEW kind, NEW v \in Nat, NEW at \in Nat,
         Ask(w, kind, v, at)
  PROVE  /\ pc'[w] = "LOCK" /\ task'[w] = kind
         /\ want'[w] \in Lease /\ want'[w].by = w /\ want'[w].whole
         /\ want'[w].acquired = at
<1>1. [by |-> w, version |-> v, acquired |-> at, whole |-> TRUE] \in Lease
  BY DEF Lease
<1> QED BY <1>1 DEF Ask, Turn, LeaseTypeOK

(* A worker that is done, has failed or died.                              *)
LEMMA StoppedKnows ==
  ASSUME Punctual, LeaseInv, NEW w \in Workers, Worker(w) \/ Crash(w),
         pc'[w] \in {"FAILED", "DONE", "DEAD"}, held' = held, lease' = lease,
         Owns(w) => pc[w] \notin Naming
  PROVE  Knows(w)'
<1>1. clock' = clock /\ Knows(w)
  BY OneWorker DEF LeaseInv
<1>2. Terms(w)' /\ Timely(w)' /\ Locked(w)' /\ Granting(w)'
  BY <1>1
     DEF Knows, Terms, Timely, Locked, Granting, Asking, Locking, Claiming, Holding,
         Critical, Granted
<1>3. Lasting(w)'
  <2>1. Owns(w)' => Owns(w)
    <3>1. pc[w] = "REMOVE_LOCK" /\ Owns(w)' => Owns(w)
      BY <1>1 DEF Owns, Working, Claiming
    <3> QED BY <3>1, OwnersBefore
  <2> QED BY <1>1, <2>1 DEF Knows, Lasting, Naming
<1> QED BY <1>2, <1>3 DEF Knows

(* It asks for the lease: a first one, or the next.                        *)
LEMMA AskKnows ==
  ASSUME Punctual, LeaseInv, NEW w \in Workers,
         Start(w) \/ Renew(w) \/ Persist(w) \/ Save(w)
  PROVE  Knows(w)'
<1>1. clock' = clock /\ clock \in Nat /\ version \in Nat /\ Knows(w)
  BY OneWorker DEF LeaseInv, LeaseTypeOK, Worker
<1>2. held' = held
  BY DEF Start, Renew, Persist, Save
<1>3. CASE Start(w)
  <2>1. /\ pc'[w] = "LOCK" /\ task'[w] = "CLAIM" /\ want'[w] \in Lease
        /\ want'[w].by = w /\ want'[w].whole /\ want'[w].acquired = clock
        /\ held[w] = NoLease
    BY <1>1, <1>3, Asked DEF Start, LeaseInv, Knows, Terms
  <2> QED BY <1>1, <1>2, <2>1, LeaseAssumption
             DEF Knows, Terms, Timely, Locked, Granting, Lasting, Asking, Locking,
                 Holding, Critical, Granted, Owns
<1>4. ASSUME NEW kind \in Tasks, kind # "CLAIM", NEW v \in Nat,
             Ask(w, kind, v, NextAcquired(w)), held[w] # NoLease, lease' = lease,
             pc[w] \in {"WORK", "SAVE"}, held[w].acquired <= clock + 1,
             kind \in {"RENEW", "PERSIST"} => held[w].acquired <= clock
      PROVE  Knows(w)'
  <2>1. held[w] \in Lease /\ held[w].acquired \in Nat
    BY <1>4 DEF LeaseInv, LeaseTypeOK, Lease
  <2>2. /\ clock <= NextAcquired(w) /\ NextAcquired(w) <= clock + 2
        /\ kind \in {"RENEW", "PERSIST"} => NextAcquired(w) <= clock + 1
        /\ NextAcquired(w) <= clock \/ NextAcquired(w) = held[w].acquired + 1
        /\ NextAcquired(w) \in Nat
    BY <1>1, <1>4, <2>1 DEF NextAcquired
  <2>3. /\ pc'[w] = "LOCK" /\ task'[w] = kind /\ want'[w] \in Lease
        /\ want'[w].by = w /\ want'[w].whole /\ want'[w].acquired = NextAcquired(w)
    BY <1>4, <2>2, Asked DEF LeaseInv
  <2>4. Owns(w)' => lease' = held'[w]
    BY <1>1, <1>2, <1>4 DEF Knows, Lasting, Naming, Owns, Working
  <2>5. Terms(w)'
    BY <1>1, <1>2, <1>4, <2>3 DEF Knows, Terms, Holding
  <2>6. Timely(w)'
    BY <1>1, <1>2, <1>4, <2>1, <2>2, <2>3, LeaseAssumption DEF Timely
  <2>7. Locked(w)' /\ Granting(w)' /\ Lasting(w)'
    BY <2>3, <2>4 DEF Locked, Granting, Lasting, Critical, Granted, Naming
  <2> QED BY <2>5, <2>6, <2>7 DEF Knows
<1>5. pc[w] \in Holding => held[w] \in Lease /\ held[w] # NoLease
  BY DEF LeaseInv, LeaseTypeOK, Knows, Terms
<1>6. CASE Renew(w) \/ Persist(w)
  <2>1. pc[w] = "WORK" /\ held[w].acquired <= clock
    BY <1>6 DEF Renew, Persist, Ready
  <2>2. held[w].version \in Nat /\ held[w].acquired \in Nat
    BY <1>5, <2>1 DEF Holding, Lease
  <2>3. PICK kind \in {"RENEW", "PERSIST"} : Ask(w, kind, held[w].version, NextAcquired(w))
    BY <1>6 DEF Renew, Persist
  <2>4. kind \in Tasks /\ kind # "CLAIM"
    BY <2>3 DEF Tasks
  <2> QED BY <1>1, <1>4, <1>5, <1>6, <2>1, <2>2, <2>3, <2>4 DEF Renew, Persist, Holding
<1>7. CASE Save(w)
  <2>1. pc[w] = "SAVE" /\ lease' = lease /\ held[w].acquired <= clock + 1
    BY <1>1, <1>7 DEF Save, Knows, Timely
  <2>2. held[w].acquired \in Nat /\ draft[w] \in Nat
    BY <1>5, <2>1 DEF Holding, Lease, LeaseInv, LeaseTypeOK
  <2>4. CASE Ask(w, "ADVANCE", draft[w], NextAcquired(w))
    BY <1>4, <1>5, <2>1, <2>2, <2>4 DEF Holding, Tasks
  <2>5. CASE Turn(w, "WORK") /\ UNCHANGED <<task, want>>
    <3>1. pc'[w] = "WORK"
      BY <1>7, <2>5, Went DEF Worker
    <3>2. Owns(w)' => lease = held[w]
      BY <1>1, <1>2, <2>1 DEF Knows, Lasting, Naming, Owns, Working
    <3> QED BY <1>1, <1>2, <1>5, <2>1, <2>5, <3>1, <3>2
               DEF Knows, Terms, Timely, Locked, Granting, Lasting, Asking, Locking,
                   Claiming, Holding, Critical, Granted, Naming
  <2> QED BY <1>7, <2>4, <2>5 DEF Save
<1> QED BY <1>3, <1>6, <1>7

(* A claimant goes on to the next step, with its terms and its lease.      *)
LEMMA ClaimantGoes ==
  ASSUME LeaseInv, NEW w \in Workers, Claim(w), ~ ReleaseLock(w), pc[w] \in Asking,
         pc'[w] \in Asking
  PROVE  /\ task'[w] = task[w] /\ want'[w] = want[w] /\ held'[w] = held[w]
         /\ version' = version /\ ended' = ended /\ overdue' = overdue
         /\ Terms(w)' /\ Timely(w)'
<1>1. task' = task /\ want' = want /\ held' = held /\ session' = session /\ clock' = clock
  BY DEF Claim, allButPc, session, local, CreateLock, WriteLock, LockTaken, FindOrphan,
         RemoveOrphan, ReadLease, CreateLease, WriteLease, CompareLease, RenameLease,
         OwnLock
<1>2. Terms(w) /\ Timely(w)
  BY DEF LeaseInv, Knows
<1>3. /\ pc'[w] \notin Holding
      /\ pc'[w] \notin {"START", "SAVE", "WORK", "RELEASE", "REMOVE_LEASE"}
  BY DEF Asking, Locking, Claiming, Holding
<1> QED BY <1>1, <1>2, <1>3 DEF Terms, Timely, session

(* It takes the lock, or finds it taken.                                   *)
LEMMA LockKnows ==
  ASSUME Punctual, LeaseInv, NEW w \in Workers,
         CreateLock(w) \/ WriteLock(w) \/ LockTaken(w) \/ FindOrphan(w) \/ RemoveOrphan(w)
  PROVE  Knows(w)'
<1>1. Claim(w) /\ Worker(w) /\ ~ ReleaseLock(w) /\ pc[w] \in Locking
  BY DEF Claim, Worker, CreateLock, WriteLock, LockTaken, FindOrphan, RemoveOrphan,
         Step, ReleaseLock, Locking
<1>2. Knows(w) /\ pc[w] \in Asking /\ lease' = lease /\ held' = held
  BY <1>1
     DEF LeaseInv, CreateLock, WriteLock, LockTaken, FindOrphan, RemoveOrphan, allButPc,
         local, Asking
<1>3. Owns(w)' => Owns(w) /\ lease = held[w]
  BY <1>1, <1>2, OwnersBefore DEF Knows, Lasting, Naming, Locking
<1>4. CASE pc'[w] = "FAILED"
  BY <1>1, <1>2, <1>4, StoppedKnows DEF Naming, Locking
<1>5. CASE pc'[w] \in Locking \cup {"READ"}
  <2>1. /\ want'[w] = want[w] /\ held'[w] = held[w]
        /\ Terms(w)' /\ Timely(w)'
    BY <1>1, <1>2, <1>5, ClaimantGoes DEF Asking, Claiming
  <2>2. want[w] \in Lease /\ want[w].by = w
    BY <1>2 DEF Knows, Terms
  <2>3. Locked(w)'
    <3>1. CASE CreateLock(w)
      <4>1. pc'[w] = "WRITE_LOCK"
        BY <1>1, <3>1, Went DEF CreateLock
      <4> QED BY <2>1, <2>2, <3>1, <4>1, LeaseCreated, FileAssumption DEF CreateLock, Locked
    <3>2. CASE WriteLock(w)
      <4>1. pc[w] = "WRITE_LOCK"
        BY <3>2 DEF WriteLock, Step
      <4>2. lock # NoLease /\ lock.by = w
        BY <1>2, <4>1 DEF Knows, Locked, Critical
      <4>3. lock' = want[w]
        BY <3>2, <4>2 DEF WriteLock, Written
      <4> QED BY <2>1, <2>2, <4>3, FileAssumption DEF Locked
    <3>3. CASE LockTaken(w) \/ FindOrphan(w) \/ RemoveOrphan(w)
      <4>1. pc'[w] \in {"ORPHAN", "REMOVE_ORPHAN", "RELOCK", "FAILED"}
        BY <1>1, <3>3, Went DEF LockTaken, FindOrphan, RemoveOrphan, Step
      <4> QED BY <4>1 DEF Locked, Critical
    <3> QED BY <3>1, <3>2, <3>3
  <2>4. Granting(w)' /\ Lasting(w)'
    BY <1>2, <1>3, <1>5, <2>1 DEF Granting, Lasting, Granted, Naming, Locking
  <2> QED BY <2>1, <2>3, <2>4 DEF Knows
<1>6. pc'[w] \in Locking \cup {"READ", "FAILED"}
  BY <1>1, Went
     DEF CreateLock, WriteLock, LockTaken, FindOrphan, RemoveOrphan, Step, Locking
<1> QED BY <1>4, <1>5, <1>6

(* Under the lock it reads the lease, and creates or replaces it.          *)
LEMMA LeaseKnows ==
  ASSUME Punctual, LeaseInv, NEW w \in Workers,
         \/ ReadLease(w) \/ CreateLease(w) \/ WriteLease(w) \/ CompareLease(w)
         \/ RenameLease(w) \/ OwnLock(w)
  PROVE  Knows(w)'
<1>1. /\ Claim(w) /\ Worker(w) /\ ~ ReleaseLock(w) /\ lock' = lock /\ held' = held
      /\ pc[w] \in Critical /\ pc[w] \notin {"WRITE_LOCK", "REMOVE_LOCK"}
  BY DEF Claim, Worker, ReadLease, CreateLease, WriteLease, CompareLease, RenameLease,
         OwnLock, Step, ReleaseLock, Critical, allButPc, local
<1>2. /\ Knows(w) /\ pc[w] \in Asking /\ lock = want[w]
      /\ want[w] \in Lease /\ want[w].by = w /\ want[w].whole
  BY <1>1 DEF LeaseInv, Knows, Terms, Locked, Critical, Asking, Locking, Claiming
<1>3. pc'[w] \in Critical /\ pc'[w] \notin {"WRITE_LOCK", "READ"}
  <2>1. OwnLock(w) => lock = want[w]
    BY <1>2
  <2> QED BY <1>1, <2>1, Went
             DEF ReadLease, CreateLease, WriteLease, CompareLease, RenameLease, OwnLock,
                 Step, Critical
<1>4. /\ task'[w] = task[w] /\ want'[w] = want[w] /\ held'[w] = held[w]
      /\ version' = version /\ ended' = ended /\ overdue' = overdue
      /\ Terms(w)' /\ Timely(w)'
  BY <1>1, <1>2, <1>3, ClaimantGoes DEF Critical, Asking, Locking, Claiming
<1>5. Locked(w)'
  BY <1>1, <1>2, <1>4, FileAssumption DEF Locked
<1>6. \A x \in Workers \ {w} : Owns(x)' <=> Owns(x)
  BY <1>1, OwnersBefore
<1>7. Owns(w)' => Owns(w)
  BY <1>1, OwnersBefore
<1>8. CASE ReadLease(w)
  <2>1. pc[w] = "READ" /\ lease' = lease
    BY <1>8 DEF ReadLease, Step
  <2>2. Owns(w) => lease = held[w] /\ lease # NoLease
    BY <1>2, <2>1 DEF Knows, Lasting, Naming, Owns
  <2>3. /\ pc'[w] \in {"UNDO", "CREATE", "REPLACE"} /\ (pc'[w] # "UNDO" => Claimable(w))
        /\ (pc'[w] = "CREATE" => lease = NoLease)
    BY <1>1, <1>8, Went DEF ReadLease, Step
  <2>4. Granting(w)'
    <3>1. pc'[w] # "UNDO" => Current(w)'
      BY <1>4, <2>3 DEF Claimable, Current
    <3>2. pc'[w] # "UNDO" => \A x \in Workers \ {w} : ~ Owns(x)'
      BY <1>6, <2>1, <2>3, ClaimableIsFree
    <3>3. pc'[w] = "CREATE" => ~ Owns(w)'
      BY <1>7, <2>2, <2>3
    <3> QED BY <2>3, <3>1, <3>2, <3>3 DEF Granting, Granted, Naming
  <2>5. Lasting(w)'
    BY <1>4, <1>7, <2>1, <2>2, <2>3 DEF Lasting, Naming
  <2> QED BY <1>4, <1>5, <2>4, <2>5 DEF Knows
<1>9. CASE CreateLease(w)
  <2>1. pc[w] = "CREATE" /\ pc[w] \in Granted /\ ~ Owns(w) /\ ~ Owns(w)'
    BY <1>2, <1>7, <1>9 DEF CreateLease, Step, Knows, Granting, Granted
  <2>2. CASE lease = NoLease
    <3>1. pc'[w] = "WRITE_LEASE" /\ lease' = [want[w] EXCEPT !.whole = FALSE]
      BY <1>1, <1>9, <2>2, Went DEF CreateLease, Step
    <3> QED BY <1>2, <1>4, <1>5, <1>6, <2>1, <3>1
               DEF Knows, Granting, Lasting, Naming, Granted, Current
  <2>3. CASE lease # NoLease
    <3>1. pc'[w] = "UNDO" /\ lease' = lease
      BY <1>1, <1>9, <2>3, Went DEF CreateLease, Step
    <3> QED BY <1>4, <1>5, <2>1, <3>1 DEF Knows, Granting, Lasting, Granted
  <2> QED BY <2>2, <2>3
<1>10. CASE WriteLease(w)
  <2>1. pc[w] = "WRITE_LEASE" /\ pc[w] \in Granted /\ pc'[w] = "UNLOCK"
    BY <1>1, <1>10, Went DEF WriteLease, Step, Granted
  <2>2. ~ Owns(w)' /\ lease = [want[w] EXCEPT !.whole = FALSE]
    BY <1>2, <1>7, <2>1 DEF Knows, Granting
  <2>3. lease' = want[w]
    BY <1>2, <1>10, <2>2, LeaseCreated, FileAssumption DEF WriteLease, Written
  <2> QED BY <1>2, <1>4, <1>5, <1>6, <2>1, <2>2, <2>3
             DEF Knows, Granting, Lasting, Naming, Granted, Current
<1>11. CASE CompareLease(w)
  <2>1. /\ pc[w] = "REPLACE" /\ pc[w] \in Granted /\ lease' = lease
        /\ pc'[w] \in {"RENAME", "UNDO"}
    BY <1>1, <1>11, Went DEF CompareLease, Step, Granted, allButPc
  <2> QED BY <1>2, <1>4, <1>5, <1>6, <1>7, <2>1
             DEF Knows, Granting, Lasting, Naming, Granted, Current
<1>12. CASE RenameLease(w)
  <2>1. pc[w] = "RENAME" /\ pc[w] \in Granted /\ pc'[w] = "UNLOCK" /\ lease' = want[w]
    BY <1>1, <1>12, Went DEF RenameLease, Step, Granted
  <2> QED BY <1>2, <1>4, <1>5, <1>6, <1>7, <2>1
             DEF Knows, Granting, Lasting, Naming, Granted, Current
<1>13. CASE OwnLock(w)
  <2>1. lease' = lease /\ \/ pc[w] = "UNLOCK" /\ pc'[w] = "REMOVE_LOCK"
                          \/ pc[w] = "UNDO" /\ pc'[w] = "REMOVE_UNDONE"
    BY <1>1, <1>2, <1>13, Went DEF OwnLock, Step, allButPc
  <2> QED BY <1>2, <1>4, <1>5, <1>6, <1>7, <2>1
             DEF Knows, Granting, Lasting, Naming, Granted, Current
<1> QED BY <1>8, <1>9, <1>10, <1>11, <1>12, <1>13

(* It gives the lock back.                                                 *)
LEMMA ReleaseKnows ==
  ASSUME Punctual, LeaseInv, NEW w \in Workers, ReleaseLock(w)
  PROVE  Knows(w)'
<1>1. Worker(w) /\ Claim(w) /\ Knows(w) /\ clock' = clock /\ clock \in Nat
  BY OneWorker DEF LeaseInv, LeaseTypeOK, Worker, Claim
<1>2. UNCHANGED <<version, ended, overdue, lease, task, want>>
  BY DEF ReleaseLock, session
<1>3. CASE pc[w] = "REMOVE_UNDONE"
  BY <1>1, <1>2, <1>3, StoppedKnows, Went DEF ReleaseLock, Step, Naming
<1>4. CASE pc[w] = "REMOVE_LOCK"
  <2>1. /\ want[w] \in Lease /\ want[w].by = w /\ lock # NoLease
        /\ lease = want[w] /\ (overdue \/ Current(w))
        /\ \A x \in Workers \ {w} : ~ Owns(x)
        /\ clock <= want[w].acquired + Stall /\ want[w].acquired <= clock + 2
        /\ task[w] \in {"RENEW", "PERSIST"} => want[w].acquired <= clock + 1
    BY <1>1, <1>4
       DEF Knows, Terms, Timely, Locked, Granting, Asking, Claiming, Critical,
           Granted, Naming
  <2>2. /\ held' = [held EXCEPT ![w] = want[w]]
        /\ Step(w, "REMOVE_LOCK", IF task[w] = "PERSIST" THEN "SAVE" ELSE "WORK")
    BY <1>4, <2>1 DEF ReleaseLock, Step
  <2>3. held'[w] = want[w] /\ held'[w] # NoLease /\ want[w].acquired \in Nat
    BY <2>1, <2>2, FileAssumption DEF LeaseInv, LeaseTypeOK, Lease
  <2>4. pc'[w] = IF task[w] = "PERSIST" THEN "SAVE" ELSE "WORK"
    BY <1>1, <2>2, Went DEF Step
  <2> QED BY <1>1, <1>2, <2>1, <2>3, <2>4, FileAssumption
             DEF Knows, Terms, Timely, Locked, Granting, Lasting, Asking, Locking,
                 Claiming, Holding, Critical, Granted, Naming, Current
<1> QED BY <1>3, <1>4 DEF ReleaseLock, Step

(* It closes, releases its lease, gives up or dies.                        *)
LEMMA CloseKnows ==
  ASSUME Punctual, ~ LateRelease, LeaseInv, NEW w \in Workers,
         Close(w) \/ CompareReleased(w) \/ RemoveLease(w) \/ EngineAborts(w) \/ Crash(w)
  PROVE  Knows(w)'
<1>1. Worker(w) \/ Crash(w)
  BY DEF Worker
<1>2. Knows(w) /\ clock' = clock /\ clock \in Nat /\ held' = held
  BY <1>1, OneWorker
     DEF LeaseInv, LeaseTypeOK, Close, CompareReleased, RemoveLease, EngineAborts, Crash,
         allButPc, local
<1>3. CASE RemoveLease(w)
  <2>1. Owns(w)
    BY <1>3, ReleasersOwn DEF RemoveLease, Step
  <2>2. lease # NoLease
    BY <1>2, <1>3, <2>1 DEF RemoveLease, Step, Knows, Lasting, Naming, Owns
  <2>3. pc'[w] = "DONE"
    BY <1>1, <1>3, <2>2, Went DEF RemoveLease, Step
  <2> QED BY <1>2, <2>3
             DEF Knows, Terms, Timely, Locked, Granting, Lasting, Asking, Locking,
                 Claiming, Holding, Critical, Granted, Naming, Owns, Working
<1>4. CASE Crash(w)
  <2>1. pc'[w] = "DEAD"
    BY <1>1, <1>4, Went DEF Crash
  <2> QED BY <1>2, <2>1
             DEF Knows, Terms, Timely, Locked, Granting, Lasting, Asking, Locking,
                 Claiming, Holding, Critical, Granted, Naming, Owns, Working
<1>5. CASE Close(w) \/ CompareReleased(w) \/ EngineAborts(w)
  <2>1. lease' = lease /\ version' = version /\ pc[w] \in {"WORK", "RELEASE", "FAILED"}
    BY <1>5 DEF Close, CompareReleased, EngineAborts, allButPc, session, Step
  <2>2. CASE pc'[w] \in {"FAILED", "DONE"}
    BY <1>1, <1>2, <2>1, <2>2, StoppedKnows DEF Naming
  <2>3. CASE pc[w] = "WORK" /\ pc'[w] = "RELEASE"
    <3>1. held[w] \in Lease /\ held[w] # NoLease
      BY <1>2, <2>3 DEF LeaseInv, LeaseTypeOK, Knows, Terms, Holding
    <3>2. clock <= held[w].acquired + Beat + Stall
      <4>1. clock <= held[w].acquired + Beat /\ held[w].acquired \in Nat
        BY <1>1, <1>5, <2>3, <3>1, Went
           DEF Close, CompareReleased, EngineAborts, Step, Lease
      <4> QED BY <1>2, <4>1, LeaseAssumption
    <3>3. Owns(w)' => Owns(w)
      BY <1>2, <2>3 DEF Owns, Live, Working
    <3> QED BY <1>2, <2>1, <2>3, <3>1, <3>2, <3>3
               DEF Knows, Terms, Timely, Locked, Granting, Lasting, Asking, Locking,
                   Claiming, Holding, Critical, Granted, Naming
  <2>4. CASE pc[w] = "RELEASE" /\ pc'[w] = "REMOVE_LEASE"
    <3>1. Owns(w)
      BY <2>4, ReleasersOwn
    <3> QED BY <1>2, <2>1, <2>4, <3>1
               DEF Knows, Terms, Timely, Locked, Granting, Lasting, Asking, Locking,
                   Claiming, Holding, Critical, Granted, Naming
  <2>5. \/ pc'[w] \in {"FAILED", "DONE"}
        \/ pc[w] = "WORK" /\ pc'[w] = "RELEASE"
        \/ pc[w] = "RELEASE" /\ pc'[w] = "REMOVE_LEASE"
    BY <1>1, <1>5, Went DEF Close, CompareReleased, EngineAborts, Step
  <2> QED BY <2>2, <2>3, <2>4, <2>5
<1> QED BY <1>3, <1>4, <1>5

-----------------------------------------------------------------------------
(* The invariant.                                                          *)

(* Time passes only as far as each worker's terms allow.                   *)
LEMMA TickKnows ==
  ASSUME ~ LateRelease, LeaseInv, Tick, NEW w \in Workers
  PROVE  Knows(w)' /\ (Owns(w)' => Owns(w))
<1>1. /\ clock' = clock + 1 /\ clock \in Nat /\ Knows(w) /\ Prompt(w, clock')
      /\ UNCHANGED <<version, ended, overdue, lock, lease, pc, task, want, held>>
  BY DEF Tick, session, local, LeaseInv, LeaseTypeOK
<1>2. \A x \in Workers : Owns(x)' => Owns(x)
  <2>1. ASSUME NEW x \in Workers, held[x] # NoLease PROVE held[x].acquired \in Nat
    BY <2>1 DEF LeaseInv, LeaseTypeOK, Lease
  <2> QED BY <1>1, <2>1, LeaseAssumption DEF Owns, Live
<1>3. Terms(w)' /\ Locked(w)' /\ Lasting(w)'
  BY <1>1, <1>2 DEF Knows, Terms, Locked, Lasting
<1>4. Granting(w)'
  BY <1>1, <1>2 DEF Knows, Granting, Current
<1>5. Timely(w)'
  <2>1. CASE pc[w] \in Asking
    <3>1. want[w].acquired \in Nat
      BY <1>1, <2>1 DEF Knows, Terms, Lease
    <3>2. Timely(w) /\ clock' <= want[w].acquired + Stall
      BY <1>1, <2>1 DEF Knows, Prompt, Asking
    <3>3. pc[w] \notin {"SAVE", "WORK", "RELEASE", "REMOVE_LEASE"}
      BY <2>1 DEF Asking, Locking, Claiming
    <3> QED BY <1>1, <2>1, <3>1, <3>2, <3>3 DEF Timely
  <2>2. CASE pc[w] \in Holding
    <3>1. held[w].acquired \in Nat
      BY <1>1, <2>2 DEF LeaseInv, LeaseTypeOK, Knows, Terms, Lease
    <3>2. pc[w] \notin Asking
      BY <2>2 DEF Asking, Locking, Claiming, Holding
    <3> QED BY <1>1, <2>2, <3>1, <3>2 DEF Timely, Knows, Terms, Prompt, Holding
  <2>3. CASE pc[w] \notin Asking \cup Holding
    BY <1>1, <2>3 DEF Timely, Holding
  <2> QED BY <2>1, <2>2, <2>3
<1> QED BY <1>2, <1>3, <1>4, <1>5 DEF Knows

(* Types, and what each worker knows of its lock and lease at each step.   *)
THEOREM LeaseInvariant ==
  ASSUME Punctual, ~ Suspensions, ~ LateRelease
  PROVE  LeaseSpec => []LeaseInv
<1>1. LeaseInit => LeaseInv
  <2> SUFFICES ASSUME LeaseInit PROVE LeaseInv
    OBVIOUS
  <2>1. LeaseTypeOK
    BY DEF LeaseInit, LeaseTypeOK, Tasks
  <2>2. ASSUME NEW w \in Workers PROVE Knows(w)
    BY DEF LeaseInit, Knows, Terms, Timely, Locked, Granting, Lasting, Asking, Locking,
           Claiming, Holding, Critical, Granted, Owns
  <2> QED BY <2>1, <2>2 DEF LeaseInv
<1>2. LeaseInv /\ [LeaseNext]_leaseVars => LeaseInv'
  <2> SUFFICES ASSUME LeaseInv, [LeaseNext]_leaseVars PROVE LeaseInv'
    OBVIOUS
  <2>1. LeaseTypeOK'
    BY TypeStep
  <2>2. ASSUME NEW w \in Workers, Worker(w) \/ Crash(w) PROVE \A x \in Workers : Knows(x)'
    <3>1. Knows(w)'
      BY <2>2, AskKnows, LockKnows, LeaseKnows, ReleaseKnows, CloseKnows
         DEF Worker, Claim
    <3> QED BY <2>2, <3>1, OthersKnow
  <2>3. CASE Tick
    BY <2>1, <2>3, TickKnows DEF LeaseInv
  <2>4. CASE UNCHANGED leaseVars
    BY <2>1, <2>4
       DEF LeaseInv, leaseVars, session, local, Knows, Terms, Timely, Locked, Granting,
           Lasting, Current, Owns
  <2> QED BY <2>1, <2>2, <2>3, <2>4 DEF LeaseInv, LeaseNext
<1> QED BY <1>1, <1>2, PTL DEF LeaseSpec

(* The files, and what the workers keep in memory, have their types.       *)
THEOREM TypeCorrect ==
  ASSUME Punctual, ~ Suspensions, ~ LateRelease
  PROVE  LeaseSpec => []LeaseTypeOK
<1>1. LeaseInv => LeaseTypeOK
  BY DEF LeaseInv
<1> QED BY <1>1, LeaseInvariant, PTL

-----------------------------------------------------------------------------
(* What the lease is for.                                                  *)

owners == {w \in Workers : Owns(w)}

(* A worker becomes the owner when nobody is, and ceases to be one alone.  *)
LEMMA OwnersStep ==
  ASSUME ~ LateRelease, LeaseInv, [LeaseNext]_leaseVars
  PROVE  [Ownership!Next]_owners
<1>1. ASSUME NEW w \in Workers, \A x \in Workers \ {w} : Owns(x)' <=> Owns(x),
             Owns(w)' => Owns(w)
      PROVE  [Ownership!Next]_owners
  <2>1. CASE Owns(w) /\ ~ Owns(w)'
    <3>1. w \in owners /\ owners' = owners \ {w}
      BY <1>1, <2>1 DEF owners
    <3> QED BY <3>1 DEF Ownership!Next, Ownership!Lose, owners
  <2>2. CASE Owns(w)' <=> Owns(w)
    <3>1. owners' = owners
      BY <1>1, <2>2 DEF owners
    <3> QED BY <3>1
  <2> QED BY <1>1, <2>1, <2>2
<1>2. ASSUME NEW w \in Workers, Worker(w) \/ Crash(w) PROVE [Ownership!Next]_owners
  <2>1. CASE Owns(w)' => Owns(w)
    BY <1>1, <1>2, <2>1, OwnersBefore
  <2>2. CASE Owns(w)' /\ ~ Owns(w)
    <3>1. pc[w] = "REMOVE_LOCK"
      BY <1>2, <2>2, OwnersBefore
    <3>2. \A x \in Workers : ~ Owns(x)
      BY <2>2, <3>1 DEF LeaseInv, Knows, Granting, Granted
    <3>3. \A x \in Workers \ {w} : ~ Owns(x)'
      BY <1>2, <3>2, OwnersBefore
    <3>4. owners = {} /\ owners' = {w}
      BY <2>2, <3>2, <3>3 DEF owners
    <3> QED BY <3>4 DEF Ownership!Next, Ownership!Acquire, owners
  <2> QED BY <2>1, <2>2
<1>3. CASE Tick
  <2>1. \A x \in Workers : Owns(x)' => Owns(x)
    BY <1>3, TickKnows
  <2>2. CASE \E w \in Workers : Owns(w) /\ ~ Owns(w)'
    <3>1. PICK w \in Workers : Owns(w) /\ ~ Owns(w)'
      BY <2>2
    <3> QED BY <1>1, <2>1, <3>1, OneOwner
  <2>3. CASE ~ \E w \in Workers : Owns(w) /\ ~ Owns(w)'
    <3>1. owners' = owners
      BY <2>1, <2>3 DEF owners
    <3> QED BY <3>1
  <2> QED BY <2>2, <2>3
<1>4. CASE UNCHANGED leaseVars
  <2>1. owners' = owners
    BY <1>4 DEF owners, Owns, Live, leaseVars, session, local
  <2> QED BY <2>1
<1> QED BY <1>2, <1>3, <1>4 DEF LeaseNext

(* The lock and lease files implement single ownership: the lease is never *)
(* owned twice, and a new owner comes only after the last one gave it up   *)
(* or lost it.                                                             *)
THEOREM LeaseIsExclusive ==
  ASSUME Punctual, ~ Suspensions, ~ LateRelease
  PROVE  LeaseSpec => OwnershipImplemented
<1>1. LeaseInit => Ownership!Init
  BY DEF LeaseInit, Ownership!Init, Owns
<1>2. LeaseInv /\ [LeaseNext]_leaseVars => [Ownership!Next]_owners
  BY OwnersStep
<1> QED BY <1>1, <1>2, LeaseInvariant, PTL
           DEF LeaseSpec, OwnershipImplemented, Ownership!Spec, owners

(* A worker that was replaced while it stopped is refused when it next     *)
(* renews its lease, and unless a save came late, who saves a checkpoint   *)
(* is named by the lease file, for the version that stands.                *)
THEOREM OnlyTheOwnerSaves ==
  ASSUME Punctual, ~ Suspensions, ~ LateRelease
  PROVE  LeaseSpec => ReplacedWorkersRefused
<1>. DEFINE Refused ==
              \A w \in Workers :
                /\ pc[w] = "REMOVE_LOCK" /\ pc'[w] \in {"WORK", "SAVE"} =>
                     lease.by = w /\ {x \in Workers : Owns(x)}' = {w}
                /\ pc[w] = "SAVE" /\ pc'[w] \in {"WORK", "LOCK"} /\ ~ overdue' =>
                     lease # NoLease /\ lease.by = w /\ version = held[w].version
<1>1. LeaseInv /\ [LeaseNext]_leaseVars => Refused
  <2> SUFFICES ASSUME LeaseInv, [LeaseNext]_leaseVars PROVE Refused
    OBVIOUS
  <2> SUFFICES ASSUME NEW w \in Workers
               PROVE  /\ pc[w] = "REMOVE_LOCK" /\ pc'[w] \in {"WORK", "SAVE"} =>
                           lease.by = w /\ {x \in Workers : Owns(x)}' = {w}
                      /\ pc[w] = "SAVE" /\ pc'[w] \in {"WORK", "LOCK"} /\ ~ overdue' =>
                           lease # NoLease /\ lease.by = w /\ version = held[w].version
    OBVIOUS
  <2>1. ASSUME pc'[w] # pc[w] PROVE Worker(w) \/ Crash(w)
    <3>1. PICK x \in Workers : Worker(x) \/ Crash(x)
      BY <2>1 DEF LeaseNext, Tick, leaseVars
    <3> QED BY <2>1, <3>1, OneWorker DEF LeaseInv, Still
  <2>2. ASSUME pc[w] = "REMOVE_LOCK", pc'[w] \in {"WORK", "SAVE"}
        PROVE  lease.by = w /\ {x \in Workers : Owns(x)}' = {w}
    <3>1. ReleaseLock(w)
      <4>1. Worker(w) \/ Crash(w)
        BY <2>1, <2>2
      <4>2. ~ Crash(w)
        BY <2>2, Went DEF Crash
      <4> QED BY <2>2, <4>1, <4>2
              DEF Worker, Claim, Step, Start, Renew, Persist, Save, Ready, CreateLock,
                  WriteLock, LockTaken, FindOrphan, RemoveOrphan, ReadLease, CreateLease,
                  WriteLease, CompareLease, RenameLease, OwnLock, Close, CompareReleased,
                  RemoveLease, EngineAborts
    <3>2. /\ want[w] \in Lease /\ want[w].by = w /\ lease = want[w] /\ lock # NoLease
          /\ clock <= want[w].acquired + Stall /\ \A x \in Workers \ {w} : ~ Owns(x)
      BY <2>2 DEF LeaseInv, Knows, Terms, Timely, Locked, Granting, Asking, Claiming, Critical,
             Granted, Naming
    <3>3. held'[w] = want[w] /\ clock' = clock /\ clock \in Nat
      BY <2>2, <3>1, <3>2 DEF ReleaseLock, Step, LeaseInv, LeaseTypeOK
    <3>4. Owns(w)'
      BY <2>2, <3>2, <3>3, LeaseAssumption, FileAssumption
         DEF Owns, Live, Lease, Working, Punctual
    <3>5. \A x \in Workers \ {w} : ~ Owns(x)'
      BY <2>2, <3>1, <3>2, OwnersBefore DEF Worker, Claim
    <3> QED BY <3>2, <3>4, <3>5
  <2>3. ASSUME pc[w] = "SAVE", pc'[w] \in {"WORK", "LOCK"}, ~ overdue'
        PROVE  lease # NoLease /\ lease.by = w /\ version = held[w].version
    <3>1. Save(w)
      <4>1. Worker(w) \/ Crash(w)
        BY <2>1, <2>3
      <4>2. ~ Crash(w)
        BY <2>3, Went DEF Crash
      <4> QED BY <2>3, <4>1, <4>2
              DEF Worker, Claim, Step, Start, Renew, Persist, Ready, CreateLock,
                  WriteLock, LockTaken, FindOrphan, RemoveOrphan, ReadLease, CreateLease,
                  WriteLease, CompareLease, RenameLease, OwnLock, ReleaseLock, Close,
                  CompareReleased, RemoveLease, EngineAborts
    <3>2. ~ overdue /\ Live(held[w], clock)
      BY <2>3, <3>1 DEF Save
    <3>3. Owns(w) /\ held[w] # NoLease /\ held[w].by = w
      BY <2>3, <3>2 DEF Owns, Working, LeaseInv, Knows, Terms, Holding
    <3> QED BY <2>3, <3>2, <3>3 DEF LeaseInv, Knows, Lasting, Naming
  <2> QED BY <2>2, <2>3
<1> QED BY <1>1, LeaseInvariant, PTL DEF LeaseSpec, ReplacedWorkersRefused

(* The lease file of an owner is changed only by that owner.               *)
THEOREM OwnersKeepTheirLease ==
  ASSUME Punctual, ~ Suspensions, ~ LateRelease
  PROVE  LeaseSpec => LiveLeaseKept
<1>. DEFINE Kept == lease # NoLease /\ Owns(lease.by) /\ lease' # lease =>
                      IF lease' = NoLease THEN pc[lease.by] = "REMOVE_LEASE"
                                          ELSE lease'.by = lease.by
<1>1. LeaseInv /\ [LeaseNext]_leaseVars => Kept
  <2> SUFFICES ASSUME LeaseInv, [LeaseNext]_leaseVars, lease # NoLease, Owns(lease.by), lease' # lease
               PROVE  IF lease' = NoLease THEN pc[lease.by] = "REMOVE_LEASE"
                                          ELSE lease'.by = lease.by
    OBVIOUS
  <2>1. PICK w \in Workers : Worker(w) \/ Crash(w)
    BY DEF LeaseNext, Tick, leaseVars
  <2>2. lease.by = w
    <3>1. lease.by \in Workers
      BY DEF LeaseInv, LeaseTypeOK, Lease
    <3> QED BY <2>1, <3>1, LeaseKept
  <2>3. \/ CreateLease(w) \/ WriteLease(w) \/ RenameLease(w) \/ RemoveLease(w)
    BY <2>1
       DEF Worker, Claim, allButPc, Start, Renew, Persist, Save, CreateLock, WriteLock,
           LockTaken, FindOrphan, RemoveOrphan, ReadLease, CompareLease, OwnLock,
           ReleaseLock, Close, CompareReleased, EngineAborts, Crash
  <2>4. CASE RemoveLease(w)
    BY <2>2, <2>4 DEF RemoveLease, Step
  <2>5. CASE ~ RemoveLease(w)
    <3>1. pc[w] \in Asking
      BY <2>3, <2>5 DEF CreateLease, WriteLease, RenameLease, Step, Asking, Claiming
    <3>2. want[w] \in Lease /\ want[w].by = w
      BY <3>1 DEF LeaseInv, Knows, Terms
    <3> QED BY <2>2, <2>3, <2>5, <3>2, FileAssumption
               DEF CreateLease, WriteLease, RenameLease, Written
  <2> QED BY <2>4, <2>5
<1> QED BY <1>1, LeaseInvariant, PTL DEF LeaseSpec, LiveLeaseKept

-----------------------------------------------------------------------------
(* SessionJournal: the inductive invariant.                                *)

\* The types.  A request carries two records at most.
Phases == {"idle", "list", "check", "compare", "dropEvent", "dropCheckpoint", "publish",
           "publishHead", "publishEnd", "records", "index", "show", "claim", "checkpoint",
           "event", "body", "head", "undoJournal", "undoBodies", "release"}
Goals == {"load", "save", "approve", "confirm"}
JobItem == [s : Sessions, c : Contents, v : 0..MaxVersion]
JobSeqs == {j \in Seq(JobItem) : Len(j) <= 2}
Listing == [ckpt : [Sessions -> SUBSET Files], event : [Sessions -> SUBSET Files],
            head : [Sessions -> Heads]]
Request == [pc : Phases, goal : Goals, job : JobSeqs, at : 1..2,
            orig : Contents \cup {None}, seen : Listing, todo : SUBSET Sessions,
            s : Sessions \cup {None}]

\* The files and the requests have their types.
JournalTypes ==
  /\ body \in [Sessions -> Contents \cup {None}]
  /\ head \in [Sessions -> Heads]
  /\ ckpt \in [Sessions -> SUBSET Files]
  /\ event \in [Sessions -> SUBSET Files]
  /\ claim \in [Sessions -> Requests \cup {None, Dead}]
  /\ req \in [Requests -> Request]
  /\ deaths \in 0..MaxDeaths /\ failures \in 0..MaxFailures

\* The candidate checkpoints of s: those beyond its head.
Cand(s) == {f \in ckpt[s] : f.v > head[s].v}
\* Some checkpoint of s has the content d.
Holds(s, d) == \E f \in ckpt[s] : f.c = d

\* Checkpoints have one content per version, one version per content, every
\* committed version and at most the next one; the head names one of them.
FilesInv ==
  \A s \in Sessions :
    /\ \A f, g \in ckpt[s] : f.v = g.v \/ f.c = g.c => f = g
    /\ \A f \in ckpt[s] : f.v <= head[s].v + 1
    /\ \A v \in 1..head[s].v : \E f \in ckpt[s] : f.v = v
    /\ head[s].v > 0 => \E f \in ckpt[s] : f.v = head[s].v /\ f.c = head[s].c

\* A body is the head's content, a candidate's that has its event, or an approval.
BodyInv ==
  \A s \in Sessions :
    \/ body[s] = head[s].c
    \/ \E f \in Cand(s) : f.c = body[s] /\ Named(event[s], f) # {}
    \/ s = Source /\ body[s] \in Approved

\* The source is an approval, committed or with its event written.
ApprovalStands ==
  /\ head[Source].v > 0
  /\ \E f \in ckpt[Source] :
       /\ f.c \in Approved /\ body[Source] = f.c
       /\ f.v <= head[Source].v \/ Named(event[Source], f) # {}

\* An approved source is final, and there is no draft without one.
ApprovalInv ==
  /\ head[Source].c \in Approved => body[Source] = head[Source].c /\ Cand(Source) = {}
  /\ \A f \in ckpt[Source] : f.c \in Approved => f.v >= head[Source].v
  /\ body[Draft] # None => ApprovalStands

\* The phases of a request: with a listing, recovering, serving a page, writing.
Listed == {"check", "compare", "dropEvent", "dropCheckpoint", "publish", "publishHead",
           "publishEnd"}
Recovering == {"list"} \cup Listed
Paging == {"records", "index", "show"}
Busy == {"checkpoint", "event", "body", "head", "undoJournal", "undoBodies"}
Undoing == {"undoJournal", "undoBodies"}
Dropping == {"dropEvent", "dropCheckpoint"}
Chosen == {"compare", "dropEvent", "dropCheckpoint", "publish", "publishHead"}
Publishing == {"publishHead", "publishEnd"}

\* The records a request writes, by their index.
Items(x) == 1..Len(x.job)

\* How far the request x is with the files of its item i.
Before(x, i) ==
  \/ x.pc \in Recovering \cup {"claim"}
  \/ x.pc = "checkpoint" /\ i >= x.at
  \/ x.pc = "event" /\ i > x.at
Made(x, i) ==
  \/ x.pc = "checkpoint" /\ i < x.at
  \/ x.pc = "event" /\ i <= x.at
  \/ x.pc = "body"
  \/ x.pc = "head" /\ i <= x.at
Told(x, i) ==
  \/ x.pc \in {"checkpoint", "event"} /\ i < x.at
  \/ x.pc \in {"body", "head"}
Embodied(x, i) == (x.pc = "body" /\ i < x.at) \/ x.pc = "head"

\* The content of m is new to its session, and no listing has seen it.
Fresh(m) ==
  /\ ~Holds(m.s, m.c) /\ body[m.s] # m.c
  /\ \A q \in Requests : \A f \in req[q].seen.ckpt[m.s] : f.c # m.c
\* The content of m is the committed one: the save repeats it.
AtHead(m) == head[m.s].v > 0 /\ head[m.s].c = m.c /\ body[m.s] = m.c

\* The checkpoint or event that r writes for m.
File(r, m) == [v |-> m.v, c |-> m.c, by |-> r]

\* What a failing request r may have left of m: its own checkpoint, and no body
\* but the committed one or the approval it is about to restore.
Undone(r, x, m) ==
  /\ Cand(m.s) \subseteq {File(r, m)}
  /\ body[m.s] = m.c =>
       \/ m.c = head[m.s].c
       \/ x.pc = "undoBodies" /\ Len(x.job) = 2 /\ m.s = Source

\* The checkpoint of m is the candidate, with event and body as far as x is.
InPlace(r, x, i, m) ==
  /\ File(r, m) \in ckpt[m.s] /\ m.v = head[m.s].v + 1
  /\ Told(x, i) => Named(event[m.s], File(r, m)) # {}
  /\ body[m.s] = m.c <=> Embodied(x, i)

\* A repeated save leaves no candidate.
Kept(m) == AtHead(m) /\ m.v = head[m.s].v /\ Cand(m.s) = {}

\* The files of item i of the request x of r, at each step of x.
ItemInv(r, x, i) ==
  LET m == x.job[i]
  IN  /\ Before(x, i) => Fresh(m) \/ AtHead(m)
      /\ Before(x, i) /\ x.pc \notin Recovering => Cand(m.s) = {}
      /\ Made(x, i) => Kept(m) \/ InPlace(r, x, i, m)
      /\ x.pc \in Undoing => Undone(r, x, m)

ItemsInv == \A r \in Requests : \A i \in Items(req[r]) : ItemInv(r, req[r], i)

\* What the request carries, whatever the files.
JobShape(x) ==
  LET n == Len(x.job)
  IN  /\ x.pc = "idle" => x = Idle
      /\ x.pc \in Paging => n = 0
      /\ x.pc \in Recovering =>
           \/ x.goal = "save" /\ n = 1
           \/ x.goal = "approve" /\ n = 2
           \/ x.goal \in {"load", "confirm"} /\ n = 0
      /\ x.pc \in Busy \cup {"claim"} =>
           /\ (x.goal = "save" /\ n = 1) \/ (x.goal = "approve" /\ n = 2)
           /\ x.at <= n
      /\ n = 2 => /\ x.job[1].s = Source /\ x.job[2].s = Draft
                  /\ x.job[1].c \in Approved
      /\ n = 1 /\ x.job[1].s = Source => x.job[1].c \notin Approved
      /\ n = 2 /\ x.pc \in Busy \cup {"claim"} => x.orig \notin {None} \cup Approved
      /\ x.pc \in Chosen \cup {"publishEnd"} => x.s \in Sessions
      /\ x.pc = "undoBodies" => MaxFailures > 0

ShapesInv == \A r \in Requests : JobShape(req[r])

\* What the request's job says of the files.
JobFiles(x) ==
  LET n == Len(x.job)
  IN  /\ n = 1 /\ x.job[1].s = Source => body[Source] \notin Approved
      /\ n = 1 /\ x.job[1].s = Draft => head[Draft].v > 0
      /\ n = 2 /\ x.pc \in Busy \cup {"claim"} => x.orig = head[Source].c
      /\ n = 2 /\ x.pc \notin {"head", "release"} => body[Draft] = None

JobsInv == \A r \in Requests : JobFiles(req[r])

\* No two requests write the same session.
Exclusive ==
  \A r, q \in Requests : r # q =>
    \A i \in Items(req[r]), j \in Items(req[q]) : req[r].job[i].s # req[q].job[j].s

\* x writes the session s.
HasItem(x, s) == \E i \in Items(x) : x.job[i].s = s

\* The claims r holds are those of the sessions x writes or publishes.
ClaimOf(r, x) ==
  /\ x.pc = "claim" => \A i \in Items(x) : i < x.at => claim[x.job[i].s] = r
  /\ x.pc \in Busy => \A i \in Items(x) : claim[x.job[i].s] = r
  /\ x.pc \in Publishing => claim[x.s] = r
  /\ \A s \in Sessions : claim[s] = r =>
       \/ x.pc \in Publishing /\ x.s = s
       \/ x.pc \in Busy \cup {"claim", "release"} /\ HasItem(x, s)

ClaimInv == \A r \in Requests : ClaimOf(r, req[r])

\* An approval with the content d is being undone and its body not yet restored.
Torn(s, d) ==
  /\ s = Source
  /\ \E r \in Requests : /\ req[r].pc = "undoBodies" /\ Len(req[r].job) = 2
                         /\ req[r].job[1].c = d

\* The candidates of s in the listing of x.
Ahead(x, s) == {f \in x.seen.ckpt[s] : f.v > x.seen.head[s].v}

\* The candidate f was removed, and no body shows it.
Gone(s, f) == ~Holds(s, f.c) /\ (body[s] = f.c => Torn(s, f.c))

\* What the listing of x says of s: its head was committed and still is, and its
\* candidate is the next version, on the disk or removed for good.
SeenOf(x, s) ==
  LET h == x.seen.head[s]
  IN  /\ h.v <= head[s].v
      /\ h.v = head[s].v => h = head[s]
      /\ h.v > 0 => \E g \in ckpt[s] : g.v = h.v /\ g.c = h.c
      /\ \A f, g \in Ahead(x, s) : f = g
      /\ \A f \in Ahead(x, s) : /\ f.v = h.v + 1 /\ f.c # h.c
                                /\ f \in ckpt[s] \/ Gone(s, f)

SeenInv == \A r \in Requests : req[r].pc \in Listed => \A s \in Sessions : SeenOf(req[r], s)

\* The candidate a recovery is at work on.
Aim(x) == CHOOSE f \in Ahead(x, x.s) : TRUE

\* A recovery works on a candidate nobody is writing, and drops none that a body
\* shows or a head names.
ChosenOf(x) ==
  /\ Aim(x) \in Ahead(x, x.s)
  /\ Aim(x).v > head[x.s].v =>
       \A r \in Requests : req[r].pc \in Busy =>
         \A i \in Items(req[r]) : req[r].job[i].s = x.s => req[r].job[i].c # Aim(x).c
  /\ x.pc \in Dropping /\ Aim(x) \in ckpt[x.s] =>
       Aim(x).v > head[x.s].v /\ body[x.s] # Aim(x).c
  /\ x.pc = "dropEvent" => Named(x.seen.event[x.s], Aim(x)) # {}

ChosenInv == \A r \in Requests : req[r].pc \in Chosen => ChosenOf(req[r])

\* A page that shows a draft shows its approval too.
PageOf(x) ==
  x.pc = "show" /\ x.seen.head[Draft].v > 0 =>
    /\ body[Draft] # None
    /\ x.seen.head[Source].c \in Approved \/ Source \in x.todo

PageInv == \A r \in Requests : PageOf(req[r])

\* The inductive invariant.
JournalInv ==
  /\ JournalTypes
  /\ FilesInv /\ BodyInv /\ ApprovalInv
  /\ ShapesInv /\ ItemsInv /\ JobsInv /\ Exclusive /\ ClaimInv
  /\ SeenInv /\ ChosenInv /\ PageInv

-----------------------------------------------------------------------------
(* What a step of one request leaves: types and shapes, action by action.  *)

\* The requests other than r stay as they are.
OthersKept(r) == \A q \in Requests : q # r => req'[q] = req[q]

\* A step of r alone, to a record with its type and shape.
Moves(r) ==
  /\ OthersKept(r)
  /\ req' \in [Requests -> Request]
  /\ JobShape(req'[r])

\* An idle request has the types and the shape of a request.
LEMMA IdleIsRequest == Idle \in Request /\ JobShape(Idle)
<1>1. Unseen \in Listing
  BY DEF Unseen, Listing, Sessions, NoHead, Heads
<1>2. <<>> \in JobSeqs
  BY DEF JobSeqs
<1>3. Idle \in Request
  BY <1>1, <1>2 DEF Idle, Request, Phases, Goals
<1>4. JobShape(Idle)
  BY DEF JobShape, Idle, Paging, Recovering, Listed, Busy, Chosen
<1> QED
  BY <1>3, <1>4

\* A request that ends is idle, the others go on.
LEMMA EndStep ==
  ASSUME JournalTypes, NEW r \in Requests, End(r)
  PROVE  Moves(r) /\ req'[r] = Idle
BY IdleIsRequest DEF End, JournalTypes, Moves, OthersKept

\* Another phase, the rest alike.
PhaseOf(r, ph) ==
  LET x == req[r]
      y == req'[r]
  IN  /\ y.pc = ph /\ y.goal = x.goal /\ y.job = x.job /\ y.at = x.at /\ y.orig = x.orig
      /\ y.seen = x.seen /\ y.todo = x.todo /\ y.s = x.s

\* Goto changes the phase of one request and nothing else.
LEMMA GotoStep ==
  ASSUME JournalTypes, NEW r \in Requests, NEW ph \in Phases, Goto(r, ph)
  PROVE  /\ OthersKept(r) /\ req' \in [Requests -> Request] /\ PhaseOf(r, ph)
BY DEF Goto, JournalTypes, OthersKept, PhaseOf, Request

\* BeginLoad starts a recovery that carries no record.
LEMMA BeginLoadShape ==
  ASSUME JournalTypes, ShapesInv, NEW r \in Requests, BeginLoad(r)
  PROVE  Moves(r) /\ PhaseOf(r, "list")
<1>1. OthersKept(r) /\ req' \in [Requests -> Request] /\ PhaseOf(r, "list")
  BY GotoStep DEF BeginLoad, Phases
<1>2. req[r].pc = "idle" /\ JobShape(req[r])
  BY DEF BeginLoad, At, ShapesInv
<1>3. JobShape(req'[r])
  BY <1>1, <1>2 DEF JobShape, PhaseOf, Idle, Recovering, Listed, Busy, Paging, Chosen
<1> QED
  BY <1>1, <1>3 DEF Moves

\* The items of a sequence have its type.
LEMMA SeqItem ==
  ASSUME NEW T, NEW q \in Seq(T), NEW i \in 1..Len(q)
  PROVE  q[i] \in T
OBVIOUS

\* The length of a sequence is a number.
LEMMA SeqLen ==
  ASSUME NEW T, NEW q \in Seq(T)
  PROVE  Len(q) \in Nat
OBVIOUS

\* A job has two items at most.
LEMMA JobType ==
  ASSUME NEW x \in Request
  PROVE  x.job \in Seq(JobItem) /\ Len(x.job) \in 0..2
<1>1. x.job \in JobSeqs
  BY DEF Request
<1>2. x.job \in Seq(JobItem) /\ Len(x.job) <= 2
  BY <1>1 DEF JobSeqs
<1>3. Len(x.job) \in Nat
  BY <1>2, SeqLen
<1>4. \A n \in Nat : n <= 2 => n \in 0..2
  OBVIOUS
<1>5. Len(x.job) <= 2
  BY <1>2
<1>6. Len(x.job) \in 0..2
  BY <1>3, <1>4, <1>5
<1> QED
  BY <1>2, <1>6

\* An item of a job names a session, a content and a version.
LEMMA ItemType ==
  ASSUME NEW x \in Request, NEW i \in 1..Len(x.job)
  PROVE  /\ x.job[i] \in JobItem /\ i \in 1..2
         /\ x.job[i].s \in Sessions /\ x.job[i].c \in Contents
         /\ x.job[i].v \in 0..MaxVersion
<1>1. x.job \in Seq(JobItem) /\ Len(x.job) \in 0..2
  BY JobType
<1>2. x.job[i] \in JobItem
  BY <1>1, SeqItem
<1> QED
  BY <1>1, <1>2 DEF JobItem

\* A step that only replaces the record of r.
LEMMA PutStep ==
  ASSUME JournalTypes, NEW r \in Requests, NEW y \in Request, req' = [req EXCEPT ![r] = y]
  PROVE  req' \in [Requests -> Request] /\ OthersKept(r) /\ req'[r] = y
BY DEF JournalTypes, OthersKept

\* The same request but for its phase, its s and what it has seen or to do.
SameJob(x, y) ==
  /\ y.goal = x.goal /\ y.job = x.job /\ y.at = x.at /\ y.orig = x.orig

\* Another phase of the same request has the same job.
LEMMA PhaseSameJob ==
  ASSUME NEW r \in Requests, NEW ph, PhaseOf(r, ph)
  PROVE  SameJob(req[r], req'[r])
BY DEF PhaseOf, SameJob

\* The shape of a request survives from one phase of its recovery to another.
LEMMA RecoveringShape ==
  ASSUME NEW x \in Request, NEW y \in Request, SameJob(x, y), JobShape(x),
         x.pc \in Recovering, y.pc \in Recovering,
         y.pc \in Chosen \cup {"publishEnd"} => y.s \in Sessions
  PROVE  JobShape(y)
<1>1. y.pc \notin {"idle"} \cup Paging \cup Busy \cup {"claim"} /\ y.pc # "undoBodies"
  BY DEF Recovering, Listed, Paging, Busy
<1> QED
  BY <1>1 DEF JobShape, SameJob

\* Recovering phases that keep the session they are about.
LEMMA ChosenShape ==
  ASSUME JournalTypes, ShapesInv, NEW r \in Requests, NEW ph \in Recovering,
         req[r].pc \in Chosen \cup {"publishEnd"}, Goto(r, ph)
  PROVE  Moves(r) /\ PhaseOf(r, ph)
<1>1. ph \in Phases
  BY DEF Recovering, Listed, Phases
<1>2. OthersKept(r) /\ req' \in [Requests -> Request] /\ PhaseOf(r, ph)
  BY <1>1, GotoStep
<1>3. req[r] \in Request /\ req'[r] \in Request
  BY <1>2 DEF JournalTypes
<1>4. JobShape(req[r])
  BY DEF ShapesInv
<1>5. req[r].s \in Sessions /\ req'[r].s = req[r].s /\ req'[r].pc = ph
  BY <1>2, <1>4 DEF JobShape, PhaseOf
<1>6. SameJob(req[r], req'[r])
  BY <1>2, PhaseSameJob
<1>7. req[r].pc \in Recovering
  BY DEF Chosen, Recovering, Listed
<1>8. JobShape(req'[r])
  BY <1>3, <1>4, <1>5, <1>6, <1>7, RecoveringShape
<1> QED
  BY <1>2, <1>8 DEF Moves

\* List ends, or goes on with what it has listed of authenticated files.
LEMMA ListShape ==
  ASSUME JournalTypes, ShapesInv, NEW r \in Requests, List(r)
  PROVE  /\ Moves(r)
         /\ \/ req'[r] = Idle
            \/ /\ Authenticated /\ SameJob(req[r], req'[r]) /\ req'[r].pc = "check"
               /\ req'[r].seen = [ckpt |-> ckpt, event |-> event, head |-> head]
<1>1. CASE ~Authenticated
  BY <1>1, EndStep DEF List
<1>2. CASE Authenticated
  <2> DEFINE todo == {s \in Sessions :
                           \/ ~Contiguous(ckpt[s])
                           \/ \E f \in ckpt[s] : f.v > head[s].v}
             seen == [ckpt |-> ckpt, event |-> event, head |-> head]
  <2>1. seen \in Listing /\ todo \in SUBSET Sessions
    BY DEF JournalTypes, Listing
  <2>2. req' = [req EXCEPT ![r].pc = "check", ![r].seen = seen, ![r].todo = todo]
    BY <1>2 DEF List
  <2> DEFINE y == [req[r] EXCEPT !.pc = "check", !.seen = seen, !.todo = todo]
  <2>3. req' \in [Requests -> Request] /\ OthersKept(r)
    <3> HIDE DEF todo, seen
    <3>1. "check" \in Phases
      BY DEF Phases
    <3>2. req' = [req EXCEPT ![r] = y]
      BY <2>2 DEF JournalTypes
    <3>3. req[r] \in Request
      BY DEF JournalTypes
    <3>4. y \in Request
      BY <2>1, <3>1, <3>3 DEF Request
    <3> QED
      BY <3>2, <3>4, PutStep
  <2>4. SameJob(req[r], req'[r]) /\ req'[r].pc = "check" /\ req'[r].seen = seen
    <3> HIDE DEF todo, seen
    <3> QED
      BY <2>1, <2>2 DEF JournalTypes, Request, SameJob
  <2>5. JobShape(req'[r])
    <3>1. req[r] \in Request /\ req'[r] \in Request /\ JobShape(req[r])
      BY <2>3 DEF JournalTypes, ShapesInv
    <3>2. req[r].pc = "list"
      BY DEF List, At
    <3> QED
      BY <3>1, <3>2, <2>4, RecoveringShape DEF Recovering, Listed, Chosen
  <2> QED
    BY <1>2, <2>3, <2>4, <2>5 DEF Moves
<1> QED
  BY <1>1, <1>2

\* Check ends, or chooses a session whose one candidate it has listed.
LEMMA CheckShape ==
  ASSUME JournalTypes, ShapesInv, NEW r \in Requests, Check(r)
  PROVE  /\ Moves(r) /\ claim' \in [Sessions -> Requests \cup {None, Dead}]
         /\ \/ /\ req'[r] = Idle
               /\ \A s \in Sessions : \/ claim'[s] = claim[s]
                                      \/ claim[s] \notin Requests /\ claim'[s] = None
            \/ \E s \in Sessions :
                 /\ claim[s] \notin Requests /\ claim' = [claim EXCEPT ![s] = None]
                 /\ Cardinality(Future(r, s)) = 1
                 /\ req'[r].pc = "compare" /\ req'[r].s = s /\ SameJob(req[r], req'[r])
                 /\ req'[r].seen = req[r].seen
<1>1. req[r] \in Request /\ JobShape(req[r]) /\ req[r].pc = "check"
  BY DEF JournalTypes, ShapesInv, Check, At
<1>2. PICK s \in req[r].todo :
         \/ End(r) /\ UNCHANGED claim
         \/ /\ claim[s] \notin Requests
            /\ claim' = [claim EXCEPT ![s] = None]
            /\ IF Cardinality(Future(r, s)) = 1
               THEN req' = [req EXCEPT ![r].pc = "compare", ![r].s = s]
               ELSE End(r)
  BY DEF Check
<1>3. s \in Sessions
  BY <1>1 DEF Request
<1>4. CASE End(r) /\ UNCHANGED claim
  BY <1>4, EndStep DEF JournalTypes
<1>5. CASE /\ claim[s] \notin Requests
           /\ claim' = [claim EXCEPT ![s] = None]
           /\ End(r)
  BY <1>3, <1>5, EndStep DEF JournalTypes
<1>6. CASE /\ claim[s] \notin Requests
           /\ claim' = [claim EXCEPT ![s] = None]
           /\ Cardinality(Future(r, s)) = 1
           /\ req' = [req EXCEPT ![r].pc = "compare", ![r].s = s]
  <2>1. req' \in [Requests -> Request] /\ OthersKept(r)
    <3>1. "compare" \in Phases
      BY DEF Phases
    <3> DEFINE y == [req[r] EXCEPT !.pc = "compare", !.s = s]
    <3>2. req' = [req EXCEPT ![r] = y]
      BY <1>6 DEF JournalTypes
    <3>4. y \in Request
      BY <1>1, <1>3, <3>1 DEF Request
    <3> QED
      BY <3>2, <3>4, PutStep
  <2>2. /\ SameJob(req[r], req'[r]) /\ req'[r].pc = "compare" /\ req'[r].s = s
        /\ req'[r].seen = req[r].seen
    BY <1>6 DEF JournalTypes, Request, SameJob
  <2>3. JobShape(req'[r])
    BY <1>1, <1>3, <2>1, <2>2, RecoveringShape DEF Recovering, Listed
  <2>4. claim' \in [Sessions -> Requests \cup {None, Dead}]
    BY <1>3, <1>6 DEF JournalTypes
  <2> QED
    BY <1>3, <1>6, <2>1, <2>2, <2>3, <2>4 DEF Moves
<1> QED
  BY <1>2, <1>4, <1>5, <1>6

\* Compare ends, or decides to publish or to drop the candidate.
LEMMA CompareShape ==
  ASSUME JournalTypes, ShapesInv, NEW r \in Requests, Compare(r)
  PROVE  /\ Moves(r)
         /\ \/ req'[r] = Idle
            \/ \E ph \in {"publish", "dropEvent", "dropCheckpoint"} :
                   Goto(r, ph) /\ PhaseOf(r, ph)
<1>1. req[r].pc \in Chosen
  BY DEF Compare, At, Chosen
<1>2. \/ End(r)
      \/ \E ph \in {"publish", "dropEvent", "dropCheckpoint"} : Goto(r, ph)
  BY DEF Compare
<1> QED
  BY <1>1, <1>2, EndStep, ChosenShape DEF Recovering, Listed

\* DropEvent ends or goes on with the checkpoint.
LEMMA DropEventShape ==
  ASSUME JournalTypes, ShapesInv, NEW r \in Requests, DropEvent(r)
  PROVE  Moves(r) /\ (req'[r] = Idle \/ PhaseOf(r, "dropCheckpoint"))
<1>1. req[r].pc \in Chosen
  BY DEF DropEvent, At, Chosen
<1>2. End(r) \/ Goto(r, "dropCheckpoint")
  BY DEF DropEvent
<1> QED
  BY <1>1, <1>2, EndStep, ChosenShape DEF Recovering, Listed

\* A recovery done with one session turns to the next.
LEMMA NextSessionShape ==
  ASSUME JournalTypes, ShapesInv, NEW r \in Requests, NextSession(r),
         req[r].pc \in Recovering
  PROVE  /\ Moves(r) /\ SameJob(req[r], req'[r]) /\ req'[r].pc = "check"
         /\ req'[r].seen = req[r].seen
<1>0. "check" \in Phases
  BY DEF Phases
<1>1. req' \in [Requests -> Request] /\ OthersKept(r)
  <2> DEFINE y == [req[r] EXCEPT !.todo = @ \ {req[r].s}, !.s = None, !.pc = "check"]
  <2>1. req[r] \in Request
    BY DEF JournalTypes
  <2>2. y \in Request
    BY <1>0, <2>1 DEF Request
  <2>3. req' = [req EXCEPT ![r] = y]
    BY DEF NextSession, JournalTypes
  <2> QED
    BY <2>2, <2>3, PutStep
<1>2. /\ SameJob(req[r], req'[r]) /\ req'[r].pc = "check"
      /\ req'[r].seen = req[r].seen
  BY DEF JournalTypes, Request, SameJob, NextSession
<1>3. req[r] \in Request /\ req'[r] \in Request /\ JobShape(req[r])
  BY <1>1 DEF JournalTypes, ShapesInv
<1>4. JobShape(req'[r])
  BY <1>2, <1>3, RecoveringShape DEF Recovering, Listed, Chosen
<1> QED
  BY <1>1, <1>2, <1>4 DEF Moves

\* DropCheckpoint ends or turns to the next session.
LEMMA DropCheckpointShape ==
  ASSUME JournalTypes, ShapesInv, NEW r \in Requests, DropCheckpoint(r)
  PROVE  /\ Moves(r)
         /\ \/ req'[r] = Idle
            \/ /\ SameJob(req[r], req'[r]) /\ req'[r].pc = "check"
               /\ req'[r].seen = req[r].seen
<1>1. req[r].pc \in Recovering
  BY DEF DropCheckpoint, At, Recovering, Listed
<1>2. End(r) \/ NextSession(r)
  BY DEF DropCheckpoint
<1> QED
  BY <1>1, <1>2, EndStep, NextSessionShape

\* PublishClaim ends, or goes on with the claim of its session.
LEMMA PublishClaimShape ==
  ASSUME JournalTypes, ShapesInv, NEW r \in Requests, PublishClaim(r)
  PROVE  /\ Moves(r) /\ req[r].s \in Sessions
         /\ claim' \in [Sessions -> Requests \cup {None, Dead}]
         /\ \/ req'[r] = Idle /\ UNCHANGED claim
            \/ /\ claim[req[r].s] = None /\ claim' = [claim EXCEPT ![req[r].s] = r]
               /\ PhaseOf(r, "publishHead")
<1>1. req[r].pc \in Chosen
  BY DEF PublishClaim, At, Chosen
<1>2. req[r].s \in Sessions
  BY <1>1 DEF ShapesInv, JobShape
<1>3. \/ End(r) /\ UNCHANGED claim
      \/ /\ claim[req[r].s] = None /\ claim' = [claim EXCEPT ![req[r].s] = r]
         /\ Goto(r, "publishHead")
  BY DEF PublishClaim
<1>4. claim' \in [Sessions -> Requests \cup {None, Dead}]
  BY <1>2, <1>3 DEF JournalTypes
<1> QED
  BY <1>1, <1>2, <1>3, <1>4, EndStep, ChosenShape DEF Recovering, Listed

\* PublishHead writes the head of a candidate that still stands, or ends.
LEMMA PublishHeadShape ==
  ASSUME JournalTypes, ShapesInv, NEW r \in Requests, PublishHead(r)
  PROVE  /\ Moves(r) /\ req[r].s \in Sessions
         /\ claim' \in [Sessions -> Requests \cup {None, Dead}]
         /\ \/ /\ req'[r] = Idle /\ claim' = [claim EXCEPT ![req[r].s] = None]
               /\ UNCHANGED head
            \/ /\ UNCHANGED claim /\ PhaseOf(r, "publishEnd")
               /\ StillCandidate(r, req[r].s, Candidate(r))
               /\ head' = [head EXCEPT ![req[r].s] = [v |-> Candidate(r).v,
                      c |-> Candidate(r).c]]
<1>1. req[r].pc \in Chosen
  BY DEF PublishHead, At, Chosen
<1>2. req[r].s \in Sessions
  BY <1>1 DEF ShapesInv, JobShape
<1>3. \/ End(r) /\ claim' = [claim EXCEPT ![req[r].s] = None] /\ UNCHANGED head
      \/ /\ UNCHANGED claim /\ Goto(r, "publishEnd")
         /\ StillCandidate(r, req[r].s, Candidate(r))
         /\ head' = [head EXCEPT ![req[r].s] = [v |-> Candidate(r).v, c |-> Candidate(r).c]]
  BY DEF PublishHead
<1>4. claim' \in [Sessions -> Requests \cup {None, Dead}]
  BY <1>2, <1>3 DEF JournalTypes
<1> QED
  BY <1>1, <1>2, <1>3, <1>4, EndStep, ChosenShape DEF Recovering, Listed

\* PublishEnd gives its claim back and turns to the next session.
LEMMA PublishEndShape ==
  ASSUME JournalTypes, ShapesInv, NEW r \in Requests, PublishEnd(r)
  PROVE  /\ Moves(r) /\ SameJob(req[r], req'[r]) /\ req'[r].pc = "check"
         /\ req'[r].seen = req[r].seen /\ req[r].s \in Sessions
         /\ claim' \in [Sessions -> Requests \cup {None, Dead}]
<1>1. req[r].pc \in Recovering /\ NextSession(r) /\ req[r].pc = "publishEnd"
  BY DEF PublishEnd, At, Recovering, Listed
<1>2. req[r].s \in Sessions
  BY <1>1 DEF ShapesInv, JobShape
<1>3. claim' \in [Sessions -> Requests \cup {None, Dead}]
  BY <1>2 DEF JournalTypes, PublishEnd
<1> QED
  BY <1>1, <1>2, <1>3, NextSessionShape

\* The same records in the same order, their versions aside.
SameItems(x, y) ==
  /\ Len(y.job) = Len(x.job)
  /\ \A i \in 1..Len(x.job) : y.job[i].s = x.job[i].s /\ y.job[i].c = x.job[i].c

\* The shape of a writer survives from one phase of its writing to another.
LEMMA WritingShape ==
  ASSUME NEW x \in Request, NEW y \in Request, JobShape(x), SameItems(x, y),
         y.goal = x.goal, y.orig = x.orig,
         x.pc \in Busy \cup {"claim"},
         \/ y.pc \in Busy \cup {"claim"} /\ y.at <= Len(x.job)
         \/ y.pc = "release",
         y.pc = "undoBodies" => MaxFailures > 0
  PROVE  JobShape(y)
<1>1. y.pc \notin {"idle"} \cup Paging \cup Recovering \cup Chosen \cup {"publishEnd"}
  BY DEF Recovering, Listed, Paging, Busy, Chosen
<1>2. x.pc \in Busy \cup {"claim"} /\ Len(x.job) \in 0..2
  BY JobType
<1>3. /\ (x.goal = "save" /\ Len(x.job) = 1) \/ (x.goal = "approve" /\ Len(x.job) = 2)
  BY <1>2 DEF JobShape
<1>4. Len(x.job) = 2 => /\ x.job[1].s = Source /\ x.job[2].s = Draft
                        /\ x.job[1].c \in Approved
                        /\ x.orig \notin {None} \cup Approved
  BY <1>2 DEF JobShape
<1>5. Len(x.job) = 1 /\ x.job[1].s = Source => x.job[1].c \notin Approved
  BY DEF JobShape
<1>6. Len(x.job) = 2 => /\ y.job[1].s = Source /\ y.job[2].s = Draft
                        /\ y.job[1].c \in Approved
  BY <1>4 DEF SameItems
<1>7. Len(x.job) = 1 /\ y.job[1].s = Source => y.job[1].c \notin Approved
  BY <1>5 DEF SameItems
<1>8. Len(y.job) = Len(x.job)
  BY DEF SameItems
<1>9. y.pc \in Busy \cup {"claim"} =>
           /\ (y.goal = "save" /\ Len(y.job) = 1) \/ (y.goal = "approve" /\ Len(y.job) = 2)
           /\ y.at <= Len(y.job)
  <2>1. y.pc \in Busy \cup {"claim"} => y.at <= Len(x.job)
    BY DEF Busy
  <2> QED
    BY <1>3, <1>8, <2>1
<1>10. Len(y.job) = 2 => /\ y.job[1].s = Source /\ y.job[2].s = Draft
                         /\ y.job[1].c \in Approved
  BY <1>6, <1>8
<1>11. Len(y.job) = 1 /\ y.job[1].s = Source => y.job[1].c \notin Approved
  BY <1>7, <1>8
<1>12. Len(y.job) = 2 => y.orig \notin {None} \cup Approved
  BY <1>4, <1>8
<1> QED
  BY <1>1, <1>9, <1>10, <1>11, <1>12 DEF JobShape

\* Recheck ends, lists a page, or claims; an approval keeps the committed body.
LEMMA RecheckShape ==
  ASSUME JournalTypes, ShapesInv, NEW r \in Requests, Recheck(r)
  PROVE  /\ Moves(r)
         /\ \/ req'[r] = Idle
            \/ /\ req'[r].pc = "records" /\ req'[r].seen = Unseen
               /\ req'[r].job = req[r].job
            \/ /\ Settled /\ req'[r].pc = "claim" /\ req'[r].seen = Unseen
               /\ req'[r].job = req[r].job /\ req'[r].at = 1
               /\ req[r].goal = "approve" => req'[r].orig = head[Source].c
               /\ req'[r].goal = req[r].goal
<1>0. req[r] \in Request /\ JobShape(req[r]) /\ req[r].pc = "check"
  BY DEF JournalTypes, ShapesInv, Recheck, At
<1>1. Unseen \in Listing /\ "claim" \in Phases /\ "records" \in Phases
  BY IdleIsRequest DEF Unseen, Listing, Sessions, NoHead, Heads, Phases
<1>2. CASE Settled /\ req[r].goal = "load"
            /\ req' = [req EXCEPT ![r].pc = "records", ![r].seen = Unseen]
  <2> DEFINE y == [req[r] EXCEPT !.pc = "records", !.seen = Unseen]
  <2>1. y \in Request
    BY <1>0, <1>1 DEF Request
  <2>2. req' = [req EXCEPT ![r] = y]
    BY <1>2 DEF JournalTypes
  <2>3. req' \in [Requests -> Request] /\ OthersKept(r) /\ req'[r] = y
    BY <2>1, <2>2, PutStep
  <2>4. y.pc = "records" /\ y.seen = Unseen /\ y.job = req[r].job
    BY <1>0 DEF Request
  <2>5. Len(req[r].job) = 0
    BY <1>0, <1>2 DEF JobShape, Recovering, Listed
  <2>6. JobShape(y)
    BY <2>4, <2>5 DEF JobShape, Paging, Recovering, Listed, Busy, Chosen
  <2> QED
    BY <2>3, <2>4, <2>6 DEF Moves
<1>3. ASSUME NEW orig \in Contents \cup {None},
             req[r].goal \in {"save", "approve"},
             req[r].goal = "approve" => orig \notin {None} \cup Approved,
             req' = [req EXCEPT ![r].pc = "claim", ![r].at = 1, ![r].orig = orig,
                                ![r].seen = Unseen]
      PROVE  /\ Moves(r) /\ req'[r].pc = "claim" /\ req'[r].seen = Unseen
             /\ req'[r].job = req[r].job /\ req'[r].at = 1 /\ req'[r].orig = orig
             /\ req'[r].goal = req[r].goal
  <2> DEFINE y == [req[r] EXCEPT !.pc = "claim", !.at = 1, !.orig = orig, !.seen = Unseen]
  <2>0. 1 \in 1..2
    OBVIOUS
  <2>1. y \in Request
    BY <1>0, <1>1, <2>0 DEF Request
  <2>2. req' = [req EXCEPT ![r] = y]
    BY <1>3 DEF JournalTypes
  <2>3. req' \in [Requests -> Request] /\ OthersKept(r) /\ req'[r] = y
    BY <2>1, <2>2, PutStep
  <2>4. /\ y.pc = "claim" /\ y.seen = Unseen /\ y.job = req[r].job /\ y.at = 1
        /\ y.orig = orig /\ y.goal = req[r].goal
    BY <1>0 DEF Request
  <2>5. \/ req[r].goal = "save" /\ Len(req[r].job) = 1
        \/ req[r].goal = "approve" /\ Len(req[r].job) = 2
    BY <1>0, <1>3 DEF JobShape, Recovering, Listed
  <2>6. JobShape(y)
    BY <1>0, <1>3, <2>4, <2>5 DEF JobShape, Paging, Recovering, Listed, Busy, Chosen
  <2> QED
    BY <2>3, <2>4, <2>6 DEF Moves
<1>4. CASE Settled /\ req[r].goal = "save"
            /\ req' = [req EXCEPT ![r].pc = "claim", ![r].at = 1, ![r].orig = None,
                                ![r].seen = Unseen]
  BY <1>3, <1>4
<1>5. CASE /\ Settled /\ req[r].goal = "approve"
           /\ body[Source] = head[Source].c /\ body[Source] \notin {None} \cup Approved
           /\ req' = [req EXCEPT ![r].pc = "claim", ![r].at = 1, ![r].orig = body[Source],
                                ![r].seen = Unseen]
  <2>1. body[Source] \in Contents \cup {None}
    BY DEF JournalTypes, Sessions
  <2> QED
    BY <1>3, <1>5, <2>1
<1>6. CASE End(r)
  BY <1>6, EndStep
<1> QED
  BY <1>2, <1>4, <1>5, <1>6 DEF Recheck

\* Records goes on with the index.
LEMMA RecordsShape ==
  ASSUME JournalTypes, ShapesInv, NEW r \in Requests, Records(r)
  PROVE  /\ Moves(r) /\ req'[r].pc = "index" /\ req'[r].seen = req[r].seen
         /\ req'[r].job = req[r].job
<1> DEFINE todo == {s \in Sessions : body[s] # None}
           y == [req[r] EXCEPT !.pc = "index", !.todo = todo]
<1>0. req[r] \in Request /\ JobShape(req[r]) /\ req[r].pc = "records"
  BY DEF JournalTypes, ShapesInv, Records, At
<1>1. req' = [req EXCEPT ![r] = y]
  BY DEF JournalTypes, Records
<1>2. todo \in SUBSET Sessions /\ "index" \in Phases
  BY DEF Phases
<1> HIDE DEF todo
<1>3. y \in Request
  BY <1>0, <1>2 DEF Request
<1>4. req' \in [Requests -> Request] /\ OthersKept(r) /\ req'[r] = y
  BY <1>1, <1>3, PutStep
<1>5. y.pc = "index" /\ y.seen = req[r].seen /\ y.job = req[r].job
  BY <1>0 DEF Request
<1>6. JobShape(y)
  BY <1>0, <1>5 DEF JobShape, Paging, Recovering, Listed, Busy, Chosen
<1> QED
  BY <1>4, <1>5, <1>6 DEF Moves

\* Index ends, or shows the page with the heads and the sessions they list.
LEMMA IndexShape ==
  ASSUME JournalTypes, ShapesInv, NEW r \in Requests, Index(r)
  PROVE  /\ Moves(r)
         /\ \/ req'[r] = Idle
            \/ /\ req'[r].pc = "show" /\ req'[r].job = req[r].job
               /\ req'[r].seen.ckpt = req[r].seen.ckpt /\ req'[r].seen.head = head
               /\ req'[r].todo = {s \in Sessions : Indexed(s)}
<1>0. req[r] \in Request /\ JobShape(req[r]) /\ req[r].pc = "index" /\ "show" \in Phases
  BY DEF JournalTypes, ShapesInv, Index, At, Phases
<1>1. CASE End(r)
  BY <1>1, EndStep
<1>2. CASE /\ req[r].todo = {s \in Sessions : Indexed(s)}
           /\ req' = [req EXCEPT ![r].pc = "show", ![r].seen.head = head]
  <2> DEFINE seen == [req[r].seen EXCEPT !.head = head]
             y == [req[r] EXCEPT !.pc = "show", !.seen = seen]
  <2>1. req' = [req EXCEPT ![r] = y]
    BY <1>2 DEF JournalTypes
  <2>2. seen \in Listing /\ seen.ckpt = req[r].seen.ckpt /\ seen.head = head
    BY <1>0 DEF Request, Listing, JournalTypes
  <2> HIDE DEF seen
  <2>3. y \in Request
    BY <1>0, <2>2 DEF Request
  <2>4. req' \in [Requests -> Request] /\ OthersKept(r) /\ req'[r] = y
    BY <2>1, <2>3, PutStep
  <2>5. y.pc = "show" /\ y.seen = seen /\ y.job = req[r].job /\ y.todo = req[r].todo
    BY <1>0 DEF Request
  <2>6. JobShape(y)
    BY <1>0, <2>5 DEF JobShape, Paging, Recovering, Listed, Busy, Chosen
  <2> QED
    BY <1>2, <2>2, <2>4, <2>5, <2>6 DEF Moves
<1> QED
  BY <1>1, <1>2 DEF Index

\* Show ends, or goes on after a record that matched its head.
LEMMA ShowShape ==
  ASSUME JournalTypes, ShapesInv, NEW r \in Requests, Show(r)
  PROVE  /\ Moves(r)
         /\ \/ req'[r] = Idle
            \/ \E s \in Sessions :
                 /\ Matches(r, s) /\ req'[r].todo = req[r].todo \ {s}
                 /\ req'[r].pc = "show" /\ req'[r].job = req[r].job
                 /\ req'[r].seen = req[r].seen
<1>0. req[r] \in Request /\ JobShape(req[r]) /\ req[r].pc = "show"
  BY DEF JournalTypes, ShapesInv, Show, At
<1>1. CASE End(r)
  BY <1>1, EndStep
<1>2. ASSUME NEW s \in req[r].todo, Matches(r, s),
             req' = [req EXCEPT ![r].todo = @ \ {s}]
      PROVE  /\ Moves(r)
             /\ Matches(r, s) /\ req'[r].todo = req[r].todo \ {s}
             /\ req'[r].pc = "show" /\ req'[r].job = req[r].job
             /\ req'[r].seen = req[r].seen /\ s \in Sessions
  <2> DEFINE y == [req[r] EXCEPT !.todo = req[r].todo \ {s}]
  <2>1. req' = [req EXCEPT ![r] = y]
    BY <1>2 DEF JournalTypes
  <2>2. y \in Request /\ s \in Sessions
    BY <1>0 DEF Request
  <2>3. req' \in [Requests -> Request] /\ OthersKept(r) /\ req'[r] = y
    BY <2>1, <2>2, PutStep
  <2>4. /\ y.pc = "show" /\ y.seen = req[r].seen /\ y.job = req[r].job
        /\ y.todo = req[r].todo \ {s}
    BY <1>0 DEF Request
  <2>5. JobShape(y)
    BY <1>0, <2>4 DEF JobShape, Paging, Recovering, Listed, Busy, Chosen
  <2> QED
    BY <1>2, <2>2, <2>3, <2>4, <2>5 DEF Moves
<1> QED
  BY <1>1, <1>2 DEF Show

\* BeginSave starts with one record, of an open session nobody writes.
LEMMA BeginSaveShape ==
  ASSUME JournalTypes, ShapesInv, NEW r \in Requests, BeginSave(r)
  PROVE  /\ Moves(r)
         /\ \E s \in Sessions : \E c \in Savable(s) :
              /\ Open(s) /\ ~Writing(s) /\ c \in Contents
              /\ req'[r].job = <<[s |-> s, c |-> c, v |-> 0]>>
              /\ req'[r].pc = "list" /\ req'[r].seen = req[r].seen
<1>0. req[r] \in Request /\ JobShape(req[r]) /\ req[r].pc = "idle" /\ "list" \in Phases
  BY DEF JournalTypes, ShapesInv, BeginSave, At, Phases
<1>1. PICK s \in Sessions : \E c \in Savable(s) :
       /\ Open(s) /\ ~Writing(s)
       /\ req' = [req EXCEPT ![r].pc = "list", ![r].goal = "save",
                             ![r].job = <<[s |-> s, c |-> c, v |-> 0]>>]
  BY DEF BeginSave
<1>a. PICK c \in Savable(s) :
       /\ Open(s) /\ ~Writing(s)
       /\ req' = [req EXCEPT ![r].pc = "list", ![r].goal = "save",
                             ![r].job = <<[s |-> s, c |-> c, v |-> 0]>>]
  BY <1>1
<1>2. c \in Contents
  BY <1>a DEF Savable, JournalTypes, Files
<1>3. MaxVersion \in Nat /\ 0 \in 0..MaxVersion
  BY JournalAssumption
<1> DEFINE m == [s |-> s, c |-> c, v |-> 0]
<1>4. m \in JobItem /\ m.s = s /\ m.c = c
  BY <1>2, <1>3 DEF JobItem
<1>5. <<m>> \in JobSeqs /\ Len(<<m>>) = 1 /\ <<m>>[1] = m
  <2> HIDE DEF m
  <2> QED
    BY <1>4 DEF JobSeqs
<1> DEFINE y == [req[r] EXCEPT !.pc = "list", !.goal = "save", !.job = <<m>>]
<1>6. req' = [req EXCEPT ![r] = y]
  BY <1>a DEF JournalTypes
<1> HIDE DEF m
<1>7. "save" \in Goals
  BY DEF Goals
<1>8. y \in Request
  BY <1>0, <1>5, <1>7 DEF Request
<1>9. req' \in [Requests -> Request] /\ OthersKept(r) /\ req'[r] = y
  BY <1>6, <1>8, PutStep
<1>10. y.pc = "list" /\ y.seen = req[r].seen /\ y.job = <<m>> /\ y.goal = "save"
  BY <1>0 DEF Request
<1>11. m.s = Source => m.c \notin Approved
  BY <1>a, <1>4, JournalAssumption DEF Savable, Open
<1>12. JobShape(y)
  BY <1>5, <1>10, <1>11 DEF JobShape, Paging, Recovering, Listed, Busy, Chosen
<1> QED
  BY <1>a, <1>2, <1>9, <1>10, <1>12 DEF Moves, m

\* BeginApprove starts with an approval and a draft nobody has yet.
LEMMA BeginApproveShape ==
  ASSUME JournalTypes, ShapesInv, NEW r \in Requests, BeginApprove(r)
  PROVE  /\ Moves(r) /\ body[Draft] = None /\ ~Writing(Source) /\ ~Writing(Draft)
         /\ \E approval \in Approved \ InUse(Source), made \in Savable(Draft) :
              /\ req'[r].job = Pair(approval, made)
              /\ approval \in Contents /\ made \in Contents
              /\ req'[r].pc = "list" /\ req'[r].seen = req[r].seen
<1>0. req[r] \in Request /\ JobShape(req[r]) /\ req[r].pc = "idle" /\ "list" \in Phases
  BY DEF JournalTypes, ShapesInv, BeginApprove, At, Phases
<1>1. PICK approval \in Approved \ InUse(Source), made \in Savable(Draft) :
       req' = [req EXCEPT ![r].pc = "list", ![r].goal = "approve",
                          ![r].job = Pair(approval, made)]
  BY DEF BeginApprove
<1>2. approval \in Contents /\ made \in Contents
  BY <1>1, JournalAssumption DEF Savable, JournalTypes, Files, Sessions
<1>3. MaxVersion \in Nat /\ 0 \in 0..MaxVersion
  BY JournalAssumption
<1> DEFINE m == [s |-> Source, c |-> approval, v |-> 0]
           d == [s |-> Draft, c |-> made, v |-> 0]
<1>4. m \in JobItem /\ m.s = Source /\ m.c = approval /\ d \in JobItem /\ d.s = Draft
  BY <1>2, <1>3 DEF JobItem, Sessions
<1>5. /\ <<m, d>> \in JobSeqs /\ Len(<<m, d>>) = 2 /\ <<m, d>>[1] = m /\ <<m, d>>[2] = d
      /\ Pair(approval, made) = <<m, d>>
  <2>1. Pair(approval, made) = <<m, d>>
    BY DEF Pair
  <2> HIDE DEF m, d
  <2> QED
    BY <1>4, <2>1 DEF JobSeqs
<1> DEFINE y == [req[r] EXCEPT !.pc = "list", !.goal = "approve",
                               !.job = Pair(approval, made)]
<1>6. req' = [req EXCEPT ![r] = y]
  BY <1>1 DEF JournalTypes
<1> HIDE DEF m, d
<1>7. "approve" \in Goals
  BY DEF Goals
<1>8. y \in Request
  BY <1>0, <1>5, <1>7 DEF Request
<1>9. req' \in [Requests -> Request] /\ OthersKept(r) /\ req'[r] = y
  BY <1>6, <1>8, PutStep
<1>10. /\ y.pc = "list" /\ y.seen = req[r].seen /\ y.job = <<m, d>> /\ y.goal = "approve"
       /\ y.job = Pair(approval, made)
  BY <1>0, <1>5 DEF Request
<1>12. JobShape(y)
  BY <1>1, <1>4, <1>5, <1>10 DEF JobShape, Paging, Recovering, Listed, Busy, Chosen
<1>13. body[Draft] = None /\ ~Writing(Source) /\ ~Writing(Draft)
  BY DEF BeginApprove
<1>14. Moves(r) /\ req'[r].job = Pair(approval, made) /\ req'[r].pc = "list"
       /\ req'[r].seen = req[r].seen
  BY <1>9, <1>10, <1>12 DEF Moves
<1> QED
  BY <1>1, <1>2, <1>13, <1>14

\* An item of a job is its first or its second.
LEMMA AtBound ==
  ASSUME NEW n \in 0..2, NEW a \in 1..n
  PROVE  a \in 1..2 /\ a <= n /\ n \in 1..2
OBVIOUS

\* A sequence of two items at most is a job.
LEMMA SmallSeq ==
  ASSUME NEW q \in Seq(JobItem), NEW n \in 0..2, Len(q) = n
  PROVE  q \in JobSeqs
BY DEF JobSeqs

\* The item a writer is at is one of its job.
LEMMA AtItem ==
  ASSUME JournalTypes, ShapesInv, NEW r \in Requests, req[r].pc \in Busy \cup {"claim"}
  PROVE  /\ req[r] \in Request /\ JobShape(req[r]) /\ Len(req[r].job) \in 1..2
         /\ req[r].at \in 1..Len(req[r].job)
         /\ Item(r) = req[r].job[req[r].at]
         /\ Item(r) \in JobItem /\ Item(r).s \in Sessions /\ Item(r).c \in Contents
         /\ Item(r).v \in 0..MaxVersion
<1>1. req[r] \in Request /\ JobShape(req[r])
  BY DEF JournalTypes, ShapesInv
<1>2. req[r].at \in 1..2 /\ Len(req[r].job) \in 0..2
  BY <1>1, JobType DEF Request
<1>3. req[r].at <= Len(req[r].job)
  BY <1>1 DEF JobShape
<1>4. \A a \in 1..2 : \A n \in 0..2 : a <= n => n \in 1..2 /\ a \in 1..n
  OBVIOUS
<1>5. Len(req[r].job) \in 1..2 /\ req[r].at \in 1..Len(req[r].job)
  BY <1>2, <1>3, <1>4
<1> QED
  BY <1>1, <1>5, ItemType DEF Item

\* A step of r through a phase of its writing, its items alike.
LEMMA WritingStep ==
  ASSUME JournalTypes, ShapesInv, NEW r \in Requests, NEW ph \in Phases, NEW at,
         req[r].pc \in Busy \cup {"claim"},
         at \in 1..Len(req[r].job),
         ph \in Busy \cup {"claim", "release"},
         ph = "undoBodies" => MaxFailures > 0,
         req' = [req EXCEPT ![r] = [req[r] EXCEPT !.pc = ph, !.at = at]]
  PROVE  /\ Moves(r) /\ req'[r].pc = ph /\ req'[r].at = at /\ req'[r].job = req[r].job
         /\ req'[r].goal = req[r].goal /\ req'[r].orig = req[r].orig
         /\ req'[r].seen = req[r].seen
<1> DEFINE y == [req[r] EXCEPT !.pc = ph, !.at = at]
<1>1. req[r] \in Request /\ JobShape(req[r]) /\ Len(req[r].job) \in 1..2
  BY AtItem
<1>2. at \in 1..2 /\ at <= Len(req[r].job)
  <2>1. \A n \in 1..2 : n \in 0..2
    OBVIOUS
  <2> QED
    BY <1>1, <2>1, AtBound
<1>a. at \in 1..2 /\ req[r] \in Request
  BY <1>1, <1>2
<1>3. y \in Request
  BY <1>a DEF Request
<1>4. /\ y.pc = ph /\ y.at = at /\ y.job = req[r].job
      /\ y.goal = req[r].goal /\ y.orig = req[r].orig /\ y.seen = req[r].seen
  BY <1>1 DEF Request
<1>5. req' \in [Requests -> Request] /\ OthersKept(r) /\ req'[r] = y
  BY <1>3, PutStep
<1> HIDE DEF y
<1>6. SameItems(req[r], y)
  BY <1>4 DEF SameItems
<1>7. y.pc = "release" \/ (y.pc \in Busy \cup {"claim"} /\ y.at <= Len(req[r].job))
  BY <1>2, <1>4
<1>8. JobShape(y)
  BY <1>1, <1>3, <1>4, <1>6, <1>7, WritingShape
<1> QED
  BY <1>4, <1>5, <1>8 DEF Moves

\* A writer goes to another phase of its writing.
LEMMA WritingGoto ==
  ASSUME JournalTypes, ShapesInv, NEW r \in Requests, NEW ph,
         req[r].pc \in Busy \cup {"claim"},
         ph \in Busy \cup {"claim", "release"},
         ph = "undoBodies" => MaxFailures > 0,
         Goto(r, ph)
  PROVE  Moves(r) /\ PhaseOf(r, ph)
<1>1. ph \in Phases
  BY DEF Phases, Busy
<1>2. OthersKept(r) /\ req' \in [Requests -> Request] /\ PhaseOf(r, ph)
  BY <1>1, GotoStep
<1>3. /\ req[r] \in Request /\ JobShape(req[r]) /\ req'[r] \in Request
      /\ req[r].at \in 1..Len(req[r].job)
      /\ Len(req[r].job) \in 1..2
  BY <1>2, AtItem
<1>4. SameItems(req[r], req'[r])
  BY <1>2 DEF SameItems, PhaseOf
<1>5. req[r].at <= Len(req[r].job)
  BY <1>3
<1>6. JobShape(req'[r])
  BY <1>2, <1>3, <1>4, <1>5, WritingShape DEF PhaseOf
<1> QED
  BY <1>2, <1>6 DEF Moves

\* A failure is one of those that may still happen.
LEMMA FailureBound ==
  ASSUME JournalTypes, Fails
  PROVE  MaxFailures > 0 /\ failures' \in 0..MaxFailures
BY JournalAssumption DEF JournalTypes, Fails, MayFail

\* y carries on with its next or its first item.
LEMMA AcquireClaimShape ==
  ASSUME JournalTypes, ShapesInv, NEW r \in Requests, AcquireClaim(r)
  PROVE  /\ Moves(r) /\ claim' \in [Sessions -> Requests \cup {None, Dead}]
         /\ req'[r].job = req[r].job /\ req'[r].goal = req[r].goal
         /\ req'[r].orig = req[r].orig /\ req'[r].seen = req[r].seen
         /\ \/ UNCHANGED claim /\ req'[r].pc = "release"
            \/ /\ claim[Item(r).s] = None /\ claim' = [claim EXCEPT ![Item(r).s] = r]
               /\ \/ Last(r) /\ req'[r].pc = "checkpoint" /\ req'[r].at = 1
                  \/ ~Last(r) /\ req'[r].pc = "claim" /\ req'[r].at = req[r].at + 1
<1>1. req[r].pc = "claim" /\ req[r].pc \in Busy \cup {"claim"}
  BY DEF AcquireClaim, At
<1>2. /\ req[r].at \in 1..Len(req[r].job) /\ Len(req[r].job) \in 1..2
      /\ Item(r).s \in Sessions
  BY <1>1, AtItem
<1>3. CASE claim[Item(r).s] = None
  <2>1. claim' = [claim EXCEPT ![Item(r).s] = r]
    BY <1>3 DEF AcquireClaim
  <2>2. claim' \in [Sessions -> Requests \cup {None, Dead}]
    BY <1>2, <2>1 DEF JournalTypes
  <2>3. CASE Last(r)
    <3>1. req' = [req EXCEPT ![r] = [req[r] EXCEPT !.pc = "checkpoint", !.at = 1]]
      BY <1>3, <2>3 DEF AcquireClaim, JournalTypes
    <3>2. 1 \in 1..Len(req[r].job) /\ "checkpoint" \in Phases /\ "checkpoint" \in Busy
      BY <1>2 DEF Phases, Busy
    <3>3. /\ Moves(r) /\ req'[r].pc = "checkpoint" /\ req'[r].at = 1
          /\ req'[r].job = req[r].job /\ req'[r].goal = req[r].goal
          /\ req'[r].orig = req[r].orig /\ req'[r].seen = req[r].seen
      BY <1>1, <3>1, <3>2, WritingStep
    <3> QED
      BY <1>3, <2>1, <2>2, <2>3, <3>3
  <2>4. CASE ~Last(r)
    <3>1. req' = [req EXCEPT ![r] = [req[r] EXCEPT !.at = req[r].at + 1]]
      BY <1>3, <2>4 DEF AcquireClaim, JournalTypes
    <3>2. req' = [req EXCEPT ![r] = [req[r] EXCEPT !.pc = "claim", !.at = req[r].at + 1]]
      BY <1>1, <3>1 DEF JournalTypes, Request
    <3>3. req[r].at + 1 \in 1..Len(req[r].job) /\ "claim" \in Phases
      BY <1>2, <2>4 DEF Phases, Last
    <3>4. /\ Moves(r) /\ req'[r].pc = "claim" /\ req'[r].at = req[r].at + 1
          /\ req'[r].job = req[r].job /\ req'[r].goal = req[r].goal
          /\ req'[r].orig = req[r].orig /\ req'[r].seen = req[r].seen
      BY <1>1, <3>2, <3>3, WritingStep
    <3> QED
      BY <1>3, <2>1, <2>2, <2>4, <3>4
  <2> QED
    BY <2>3, <2>4
<1>4. CASE claim[Item(r).s] # None
  <2>1. Goto(r, "release") /\ UNCHANGED claim
    BY <1>4 DEF AcquireClaim
  <2>2. Moves(r) /\ PhaseOf(r, "release")
    BY <1>1, <2>1, WritingGoto DEF Busy
  <2> QED
    BY <2>1, <2>2 DEF PhaseOf, JournalTypes
<1> QED
  BY <1>3, <1>4

\* The item at hand gets its version, the others keep theirs.
Versioned(x, y, v) ==
  /\ SameItems(x, y) /\ y.job[x.at].v = v
  /\ \A i \in 1..Len(x.job) : i # x.at => y.job[i] = x.job[i]

\* A planned item has its version, and the request goes on with its event.
LEMMA PlanStep ==
  ASSUME JournalTypes, ShapesInv, NEW r \in Requests, NEW v \in 0..MaxVersion,
         req[r].pc = "checkpoint",
         req' = [req EXCEPT ![r].pc = "event", ![r].job[req[r].at].v = v]
  PROVE  /\ Moves(r) /\ req'[r].pc = "event" /\ req'[r].at = req[r].at
         /\ Versioned(req[r], req'[r], v)
         /\ req'[r].goal = req[r].goal /\ req'[r].orig = req[r].orig
         /\ req'[r].seen = req[r].seen
<1> DEFINE x == req[r]
           job == [x.job EXCEPT ![x.at] = [x.job[x.at] EXCEPT !.v = v]]
           y == [x EXCEPT !.pc = "event", !.job = job]
<1>0. x.pc \in Busy \cup {"claim"}
  BY DEF Busy
<1>1. /\ x \in Request /\ JobShape(x) /\ Len(x.job) \in 1..2 /\ x.at \in 1..Len(x.job)
      /\ x.job[x.at] \in JobItem
  BY <1>0, AtItem
<1>2. req' = [req EXCEPT ![r] = y]
  BY DEF JournalTypes
<1>3. x.job \in Seq(JobItem)
  BY <1>1, JobType
<1>4. [x.job[x.at] EXCEPT !.v = v] \in JobItem
  BY <1>1 DEF JobItem
<1>5. /\ job \in Seq(JobItem) /\ Len(job) = Len(x.job)
      /\ job[x.at] = [x.job[x.at] EXCEPT !.v = v]
      /\ \A i \in 1..Len(x.job) : i # x.at => job[i] = x.job[i]
  <2>1. \A q \in Seq(JobItem) : \A i \in 1..Len(q) : \A m \in JobItem :
          LET p == [q EXCEPT ![i] = m]
          IN  /\ p \in Seq(JobItem) /\ Len(p) = Len(q) /\ p[i] = m
              /\ \A k \in 1..Len(q) : k # i => p[k] = q[k]
    OBVIOUS
  <2> QED
    BY <1>1, <1>3, <1>4, <2>1
<1>6. /\ job[x.at].v = v /\ job[x.at].s = x.job[x.at].s /\ job[x.at].c = x.job[x.at].c
  BY <1>1, <1>5 DEF JobItem
<1>7. job \in JobSeqs
  <2>1. \A n \in 1..2 : n \in 0..2
    OBVIOUS
  <2> QED
    BY <1>1, <1>5, <2>1, SmallSeq
<1>8. y \in Request
  <2>1. "event" \in Phases
    BY DEF Phases
  <2> HIDE DEF job
  <2> QED
    BY <1>1, <1>7, <2>1 DEF Request
<1>9. /\ y.pc = "event" /\ y.at = x.at /\ y.job = job /\ y.goal = x.goal
      /\ y.orig = x.orig /\ y.seen = x.seen
  BY <1>1 DEF Request
<1>10. req' \in [Requests -> Request] /\ OthersKept(r) /\ req'[r] = y
  BY <1>2, <1>8, PutStep
<1> HIDE DEF y, job
<1>11. Versioned(x, y, v)
  BY <1>5, <1>6, <1>9 DEF Versioned, SameItems
<1>12. y.pc \in Busy \cup {"claim"} /\ y.at <= Len(x.job)
  BY <1>1, <1>9 DEF Busy
<1>13. JobShape(y)
  BY <1>0, <1>1, <1>8, <1>9, <1>11, <1>12, WritingShape DEF Versioned
<1> QED
  BY <1>9, <1>10, <1>11, <1>13 DEF Moves

\* A plannable version has a place in the history.
LEMMA PlannedBound ==
  ASSUME JournalTypes, NEW s \in Sessions, NEW d, Plannable(PlannedVersion(s, d)),
         d \in Contents
  PROVE  PlannedVersion(s, d) \in 1..MaxVersion
<1>1. head[s] \in Heads
  BY DEF JournalTypes
<1>2. head[s].v \in Nat /\ (head[s].c = d => head[s].v \in 1..MaxVersion)
  BY <1>1, JournalAssumption DEF Heads, NoHead
<1> QED
  BY <1>2, JournalAssumption DEF Plannable, PlannedVersion

\* WriteCheckpoint undoes, or goes on with the version it planned.
LEMMA WriteCheckpointShape ==
  ASSUME JournalTypes, ShapesInv, NEW r \in Requests, WriteCheckpoint(r)
  PROVE  LET s == Item(r).s
             f == [v |-> PlannedVersion(s, Item(r).c), c |-> Item(r).c, by |-> r]
         IN  /\ Moves(r) /\ ckpt' \in [Sessions -> SUBSET Files]
             /\ failures' \in 0..MaxFailures
             /\ req'[r].goal = req[r].goal /\ req'[r].orig = req[r].orig
             /\ req'[r].seen = req[r].seen
             /\ \/ /\ UNCHANGED ckpt /\ req'[r].pc = "undoJournal"
                   /\ req'[r].job = req[r].job /\ req'[r].at = req[r].at
                \/ /\ req'[r].pc = "event" /\ req'[r].at = req[r].at
                   /\ Versioned(req[r], req'[r], f.v)
                   /\ f \in Files
                   /\ \/ head[s].c = f.c /\ UNCHANGED ckpt
                      \/ head[s].c # f.c /\ ckpt' = [ckpt EXCEPT ![s] = @ \cup {f}]
<1> DEFINE s == Item(r).s
           f == [v |-> PlannedVersion(s, Item(r).c), c |-> Item(r).c, by |-> r]
<1>0. req[r].pc = "checkpoint" /\ req[r].pc \in Busy \cup {"claim"}
  BY DEF WriteCheckpoint, At, Busy
<1>1. s \in Sessions /\ Item(r).c \in Contents
  BY <1>0, AtItem
<1>2. failures' \in 0..MaxFailures
  BY FailureBound DEF WriteCheckpoint, JournalTypes
<1>3. CASE Goto(r, "undoJournal") /\ UNCHANGED ckpt
  <2>1. Moves(r) /\ PhaseOf(r, "undoJournal")
    BY <1>0, <1>3, WritingGoto DEF Busy
  <2> QED
    BY <1>2, <1>3, <2>1 DEF PhaseOf, JournalTypes
<1>4. CASE /\ Plannable(f.v)
           /\ req' = [req EXCEPT ![r].pc = "event", ![r].job[req[r].at].v = f.v]
           /\ \/ head[s].c = f.c /\ UNCHANGED ckpt
              \/ head[s].c # f.c /\ ckpt' = [ckpt EXCEPT ![s] = @ \cup {f}]
  <2>1. f.v \in 1..MaxVersion /\ f.v \in 0..MaxVersion
    BY <1>1, <1>4, PlannedBound, JournalAssumption
  <2>2. f \in Files
    BY <1>1, <2>1 DEF Files
  <2>3. ckpt' \in [Sessions -> SUBSET Files]
    <3> HIDE DEF f
    <3> QED
      BY <1>1, <1>4, <2>2 DEF JournalTypes
  <2>4. /\ Moves(r) /\ req'[r].pc = "event" /\ req'[r].at = req[r].at
         /\ Versioned(req[r], req'[r], f.v)
         /\ req'[r].goal = req[r].goal /\ req'[r].orig = req[r].orig
         /\ req'[r].seen = req[r].seen
    BY <1>0, <1>4, <2>1, PlanStep
  <2> QED
    BY <1>2, <1>4, <2>2, <2>3, <2>4
<1>5. \/ Goto(r, "undoJournal") /\ UNCHANGED ckpt
      \/ /\ Plannable(f.v)
         /\ req' = [req EXCEPT ![r].pc = "event", ![r].job[req[r].at].v = f.v]
         /\ \/ head[s].c = f.c /\ UNCHANGED ckpt
            \/ head[s].c # f.c /\ ckpt' = [ckpt EXCEPT ![s] = @ \cup {f}]
  BY DEF WriteCheckpoint
<1> QED
  BY <1>3, <1>4, <1>5

\* The file of the item at hand, once it has a version.
LEMMA AtFile ==
  ASSUME JournalTypes, ShapesInv, NEW r \in Requests, req[r].pc \in Busy, Item(r).v > 0
  PROVE  /\ Item(r).v \in 1..MaxVersion
         /\ [v |-> Item(r).v, c |-> Item(r).c, by |-> r] \in Files
         /\ [v |-> Item(r).v, c |-> Item(r).c] \in Heads
<1>1. Item(r).v \in 0..MaxVersion /\ Item(r).c \in Contents
  BY AtItem
<1>2. Item(r).v \in 1..MaxVersion
  BY <1>1, JournalAssumption
<1> QED
  BY <1>1, <1>2 DEF Files, Heads

\* WriteEvent undoes, or goes on with the next item or the bodies.
LEMMA WriteEventShape ==
  ASSUME JournalTypes, ShapesInv, NEW r \in Requests, WriteEvent(r), Item(r).v > 0
  PROVE  LET s == Item(r).s
             e == [v |-> Item(r).v, c |-> Item(r).c, by |-> r]
         IN  /\ Moves(r) /\ event' \in [Sessions -> SUBSET Files]
             /\ failures' \in 0..MaxFailures /\ req'[r].job = req[r].job
             /\ req'[r].goal = req[r].goal /\ req'[r].orig = req[r].orig
             /\ req'[r].seen = req[r].seen
             /\ \/ /\ UNCHANGED event /\ req'[r].pc = "undoJournal"
                   /\ req'[r].at = req[r].at
                \/ /\ event' = [event EXCEPT ![s] =
                                         IF Named(@, e) = {} THEN @ \cup {e} ELSE @]
                   /\ \/ Last(r) /\ req'[r].pc = "body" /\ req'[r].at = 1
                      \/ /\ ~Last(r) /\ req'[r].pc = "checkpoint"
                         /\ req'[r].at = req[r].at + 1
<1> DEFINE s == Item(r).s
           e == [v |-> Item(r).v, c |-> Item(r).c, by |-> r]
<1>0. req[r].pc = "event" /\ req[r].pc \in Busy \cup {"claim"} /\ req[r].pc \in Busy
  BY DEF WriteEvent, At, Busy
<1>1. /\ req[r].at \in 1..Len(req[r].job) /\ Len(req[r].job) \in 1..2
      /\ Item(r).s \in Sessions /\ e \in Files
  BY <1>0, AtItem, AtFile
<1>2. failures' \in 0..MaxFailures
  BY FailureBound DEF WriteEvent, JournalTypes
<1>3. CASE Goto(r, "undoJournal") /\ UNCHANGED event
  <2>1. Moves(r) /\ PhaseOf(r, "undoJournal")
    BY <1>0, <1>3, WritingGoto DEF Busy
  <2> QED
    BY <1>2, <1>3, <2>1 DEF PhaseOf, JournalTypes
<1>4. CASE /\ event' = [event EXCEPT ![s] = IF Named(@, e) = {} THEN @ \cup {e} ELSE @]
           /\ IF Last(r) THEN req' = [req EXCEPT ![r].pc = "body", ![r].at = 1]
              ELSE req' = [req EXCEPT ![r].pc = "checkpoint", ![r].at = @ + 1]
  <2>1. event' \in [Sessions -> SUBSET Files]
    <3> HIDE DEF e
    <3> QED
      BY <1>1, <1>4 DEF JournalTypes
  <2>2. CASE Last(r)
    <3>1. req' = [req EXCEPT ![r] = [req[r] EXCEPT !.pc = "body", !.at = 1]]
      BY <1>4, <2>2 DEF JournalTypes
    <3>2. 1 \in 1..Len(req[r].job) /\ "body" \in Phases /\ "body" \in Busy
      BY <1>1 DEF Phases, Busy
    <3>3. /\ Moves(r) /\ req'[r].pc = "body" /\ req'[r].at = 1
          /\ req'[r].job = req[r].job /\ req'[r].goal = req[r].goal
          /\ req'[r].orig = req[r].orig /\ req'[r].seen = req[r].seen
      BY <1>0, <3>1, <3>2, WritingStep
    <3> QED
      BY <1>2, <1>4, <2>1, <2>2, <3>3
  <2>3. CASE ~Last(r)
    <3>1. req' = [req EXCEPT ![r] = [req[r] EXCEPT !.pc = "checkpoint",
              !.at = req[r].at + 1]]
      BY <1>4, <2>3 DEF JournalTypes
    <3>2. req[r].at + 1 \in 1..Len(req[r].job) /\ "checkpoint" \in Phases
          /\ "checkpoint" \in Busy
      BY <1>1, <2>3 DEF Phases, Busy, Last
    <3>3. /\ Moves(r) /\ req'[r].pc = "checkpoint" /\ req'[r].at = req[r].at + 1
          /\ req'[r].job = req[r].job /\ req'[r].goal = req[r].goal
          /\ req'[r].orig = req[r].orig /\ req'[r].seen = req[r].seen
      BY <1>0, <3>1, <3>2, WritingStep
    <3> QED
      BY <1>2, <1>4, <2>1, <2>3, <3>3
  <2> QED
    BY <2>2, <2>3
<1> QED
  BY <1>3, <1>4 DEF WriteEvent

\* WriteBody undoes, or goes on with the next body or the heads.
LEMMA WriteBodyShape ==
  ASSUME JournalTypes, ShapesInv, NEW r \in Requests, WriteBody(r)
  PROVE  LET s == Item(r).s
         IN  /\ Moves(r) /\ body' \in [Sessions -> Contents \cup {None}]
             /\ failures' \in 0..MaxFailures /\ req'[r].job = req[r].job
             /\ req'[r].goal = req[r].goal /\ req'[r].orig = req[r].orig
             /\ req'[r].seen = req[r].seen
             /\ \/ /\ UNCHANGED body /\ req'[r].pc = "undoBodies"
                   /\ req'[r].at = req[r].at
                \/ /\ body' = [body EXCEPT ![s] = Item(r).c]
                   /\ \/ Last(r) /\ req'[r].pc = "head" /\ req'[r].at = req[r].at
                      \/ /\ ~Last(r) /\ req'[r].pc = "body"
                         /\ req'[r].at = req[r].at + 1
<1> DEFINE s == Item(r).s
<1>0. req[r].pc = "body" /\ req[r].pc \in Busy \cup {"claim"} /\ req[r].pc \in Busy
  BY DEF WriteBody, At, Busy
<1>1. /\ req[r].at \in 1..Len(req[r].job) /\ Len(req[r].job) \in 1..2
      /\ Item(r).s \in Sessions /\ Item(r).c \in Contents /\ req[r] \in Request
  BY <1>0, AtItem
<1>2. failures' \in 0..MaxFailures
  BY FailureBound DEF WriteBody, JournalTypes
<1>3. CASE Fails /\ Goto(r, "undoBodies") /\ UNCHANGED body
  <2>1. Moves(r) /\ PhaseOf(r, "undoBodies")
    BY <1>0, <1>3, WritingGoto, FailureBound DEF Busy
  <2> QED
    BY <1>2, <1>3, <2>1 DEF PhaseOf, JournalTypes
<1>4. CASE /\ body' = [body EXCEPT ![s] = Item(r).c]
           /\ IF Last(r) THEN Goto(r, "head") ELSE req' = [req EXCEPT ![r].at = @ + 1]
  <2>1. body' \in [Sessions -> Contents \cup {None}]
    BY <1>1, <1>4 DEF JournalTypes
  <2>2. CASE Last(r)
    <3>1. Moves(r) /\ PhaseOf(r, "head")
      BY <1>0, <1>4, <2>2, WritingGoto DEF Busy
    <3> QED
      BY <1>2, <1>4, <2>1, <2>2, <3>1 DEF PhaseOf
  <2>3. CASE ~Last(r)
    <3>1. req' = [req EXCEPT ![r] = [req[r] EXCEPT !.at = req[r].at + 1]]
      BY <1>4, <2>3 DEF JournalTypes
    <3>a. req' = [req EXCEPT ![r] = [req[r] EXCEPT !.pc = "body", !.at = req[r].at + 1]]
      BY <1>0, <1>1, <3>1 DEF Request
    <3>2. req[r].at + 1 \in 1..Len(req[r].job) /\ "body" \in Phases /\ "body" \in Busy
      BY <1>1, <2>3 DEF Phases, Busy, Last
    <3>3. /\ Moves(r) /\ req'[r].pc = "body" /\ req'[r].at = req[r].at + 1
          /\ req'[r].job = req[r].job /\ req'[r].goal = req[r].goal
          /\ req'[r].orig = req[r].orig /\ req'[r].seen = req[r].seen
      BY <1>0, <3>a, <3>2, WritingStep
    <3> QED
      BY <1>2, <1>4, <2>1, <2>3, <3>3
  <2> QED
    BY <2>2, <2>3
<1> QED
  BY <1>3, <1>4 DEF WriteBody

\* WriteHead releases, or goes on with the head of the first item.
LEMMA WriteHeadShape ==
  ASSUME JournalTypes, ShapesInv, NEW r \in Requests, WriteHead(r), Item(r).v > 0
  PROVE  LET published == [head EXCEPT ![Item(r).s] = [v |-> Item(r).v, c |-> Item(r).c]]
         IN  /\ Moves(r) /\ head' \in [Sessions -> Heads]
             /\ failures' \in 0..MaxFailures /\ req'[r].job = req[r].job
             /\ req'[r].orig = req[r].orig
             /\ req'[r].seen = req[r].seen
             /\ \/ head' \in {head, published} /\ req'[r].pc = "release"
                \/ /\ head' = published
                   /\ req'[r].pc = "head" /\ req[r].at # 1 /\ req'[r].at = req[r].at - 1
                   /\ req'[r].goal = req[r].goal
<1> DEFINE m == [v |-> Item(r).v, c |-> Item(r).c]
           published == [head EXCEPT ![Item(r).s] = m]
<1>0. req[r].pc = "head" /\ req[r].pc \in Busy \cup {"claim"} /\ req[r].pc \in Busy
  BY DEF WriteHead, At, Busy
<1>1. /\ req[r].at \in 1..Len(req[r].job) /\ Len(req[r].job) \in 1..2
      /\ Item(r).s \in Sessions /\ m \in Heads /\ req[r] \in Request /\ JobShape(req[r])
  BY <1>0, AtItem, AtFile
<1>2. failures' \in 0..MaxFailures
  BY FailureBound DEF WriteHead, JournalTypes
<1>3. published \in [Sessions -> Heads] /\ head \in [Sessions -> Heads]
  <2> HIDE DEF m
  <2> QED
    BY <1>1 DEF JournalTypes
<1>4. CASE head' \in {head, published} /\ req' = AfterFailedHead(r)
  <2> DEFINE y == [req[r] EXCEPT !.pc = "release", !.goal = "confirm"]
  <2>1. req' = [req EXCEPT ![r] = y]
    BY <1>4 DEF AfterFailedHead, JournalTypes
  <2>2. "release" \in Phases /\ "confirm" \in Goals
    BY DEF Phases, Goals
  <2>3. y \in Request
    BY <1>1, <2>2 DEF Request
  <2>4. req' \in [Requests -> Request] /\ OthersKept(r) /\ req'[r] = y
    BY <2>1, <2>3, PutStep
  <2>5. /\ y.pc = "release" /\ y.job = req[r].job /\ y.orig = req[r].orig
        /\ y.seen = req[r].seen
    BY <1>1 DEF Request
  <2> HIDE DEF y
  <2>6. JobShape(y)
    BY <1>1, <2>5 DEF JobShape, Recovering, Listed, Paging, Busy, Chosen
  <2> QED
    BY <1>2, <1>3, <1>4, <2>4, <2>5, <2>6 DEF Moves
<1>5. CASE head' = published /\ req[r].at = 1 /\ Goto(r, "release")
  <2>1. Moves(r) /\ PhaseOf(r, "release")
    BY <1>0, <1>5, WritingGoto DEF Busy
  <2> QED
    BY <1>2, <1>3, <1>5, <2>1 DEF PhaseOf
<1>6. CASE head' = published /\ req[r].at # 1 /\ req' = [req EXCEPT ![r].at = @ - 1]
  <2>1. req' = [req EXCEPT ![r] = [req[r] EXCEPT !.at = req[r].at - 1]]
    BY <1>6 DEF JournalTypes
  <2>2. req' = [req EXCEPT ![r] = [req[r] EXCEPT !.pc = "head", !.at = req[r].at - 1]]
    BY <1>0, <1>1, <2>1 DEF Request
  <2>3. req[r].at - 1 \in 1..Len(req[r].job) /\ "head" \in Phases /\ "head" \in Busy
    BY <1>1, <1>6 DEF Phases, Busy
  <2>4. /\ Moves(r) /\ req'[r].pc = "head" /\ req'[r].at = req[r].at - 1
        /\ req'[r].job = req[r].job /\ req'[r].goal = req[r].goal
        /\ req'[r].orig = req[r].orig /\ req'[r].seen = req[r].seen
    <3>1. PICK at : at = req[r].at - 1
      OBVIOUS
    <3>2. req' = [req EXCEPT ![r] = [req[r] EXCEPT !.pc = "head", !.at = at]]
      BY <2>2, <3>1
    <3>3. at \in 1..Len(req[r].job)
      BY <2>3, <3>1
    <3>4. /\ Moves(r) /\ req'[r].pc = "head" /\ req'[r].at = at
          /\ req'[r].job = req[r].job /\ req'[r].goal = req[r].goal
          /\ req'[r].orig = req[r].orig /\ req'[r].seen = req[r].seen
      BY <1>0, <2>3, <3>2, <3>3, WritingStep
    <3> QED
      BY <3>1, <3>4
  <2> QED
    BY <1>2, <1>3, <1>6, <2>4
<1>7. \/ head' \in {head, published} /\ req' = AfterFailedHead(r)
      \/ head' = published /\ req[r].at = 1 /\ Goto(r, "release")
      \/ head' = published /\ req[r].at # 1 /\ req' = [req EXCEPT ![r].at = @ - 1]
  BY DEF WriteHead
<1> QED
  BY <1>4, <1>5, <1>6, <1>7

\* A set of items has a last one.
LEMMA LargestOf ==
  ASSUME NEW n \in 0..2, NEW S \in SUBSET (1..n), S # {}
  PROVE  (CHOOSE k \in S : \A j \in S : j <= k) \in S
<1>1. \A j \in S : j = 1 \/ j = 2
  OBVIOUS
<1>2. \E k \in S : \A j \in S : j <= k
  <2>1. CASE 2 \in S
    BY <1>1, <2>1
  <2>2. CASE 2 \notin S
    <3>1. \A j \in S : j = 1
      BY <1>1, <2>2
    <3>2. PICK k \in S : k = 1
      BY <3>1
    <3>3. \A j \in S : j <= k
      BY <3>1, <3>2
    <3> QED
      BY <3>2, <3>3
  <2> QED
    BY <2>1, <2>2
<1> QED
  BY <1>2

\* Undo removes an event, or a checkpoint, or releases with the body restored.
LEMMA UndoShape ==
  ASSUME JournalTypes, ShapesInv, NEW r \in Requests, Undo(r)
  PROVE  /\ Moves(r) /\ req'[r].job = req[r].job /\ req'[r].seen = req[r].seen
         /\ body' \in [Sessions -> Contents \cup {None}]
         /\ ckpt' \in [Sessions -> SUBSET Files] /\ event' \in [Sessions -> SUBSET Files]
         /\ \/ /\ UNCHANGED <<body, ckpt, req>>
               /\ \E i \in 1..Len(req[r].job) :
                    event' = [event EXCEPT ![req[r].job[i].s] = @ \ Created(r, i, event)]
            \/ /\ UNCHANGED <<body, event, req>>
               /\ \E i \in 1..Len(req[r].job) :
                    ckpt' = [ckpt EXCEPT ![req[r].job[i].s] = @ \ Created(r, i, ckpt)]
            \/ /\ req'[r].pc = "release" /\ UNCHANGED <<ckpt, event>>
               /\ IF At(r, "undoBodies") /\ req[r].goal = "approve"
                  THEN body' = [body EXCEPT ![Source] = req[r].orig]
                  ELSE UNCHANGED body
<1> DEFINE left == {i \in 1..Len(req[r].job) :
                      Created(r, i, ckpt) \cup Created(r, i, event) # {}}
           i == CHOOSE n \in left : \A k \in left : k <= n
           s == req[r].job[i].s
<1>0. req[r].pc \in Busy \cup {"claim"}
  BY DEF Undo, Busy
<1>1. /\ req[r] \in Request /\ JobShape(req[r]) /\ Len(req[r].job) \in 1..2
      /\ req \in [Requests -> Request]
  BY <1>0, AtItem DEF JournalTypes
<1>2. left # {} => i \in 1..Len(req[r].job) /\ s \in Sessions
  <2> SUFFICES ASSUME left # {}
               PROVE  i \in 1..Len(req[r].job) /\ s \in Sessions
    OBVIOUS
  <2>1. \A n \in 1..2 : n \in 0..2
    OBVIOUS
  <2>2. left \in SUBSET (1..Len(req[r].job))
    OBVIOUS
  <2> HIDE DEF left
  <2>3. i \in 1..Len(req[r].job)
    BY <1>1, <2>1, <2>2, LargestOf
  <2> QED
    BY <1>1, <2>3, ItemType
<1>3. CASE /\ left # {} /\ event' = [event EXCEPT ![s] = @ \ Created(r, i, event)]
           /\ UNCHANGED <<body, ckpt, req>>
  <2>1. Moves(r) /\ req'[r] = req[r]
    BY <1>1, <1>3 DEF Moves, OthersKept
  <2>2. event' \in [Sessions -> SUBSET Files]
    <3> HIDE DEF i
    <3> QED
      BY <1>2, <1>3 DEF JournalTypes
  <2> HIDE DEF left, i
  <2> QED
    BY <1>2, <1>3, <2>1, <2>2 DEF JournalTypes
<1>4. CASE /\ left # {} /\ ckpt' = [ckpt EXCEPT ![s] = @ \ Created(r, i, ckpt)]
           /\ UNCHANGED <<body, event, req>>
  <2>1. Moves(r) /\ req'[r] = req[r]
    BY <1>1, <1>4 DEF Moves, OthersKept
  <2>2. ckpt' \in [Sessions -> SUBSET Files]
    <3> HIDE DEF i
    <3> QED
      BY <1>2, <1>4 DEF JournalTypes
  <2> HIDE DEF left, i
  <2> QED
    BY <1>2, <1>4, <2>1, <2>2 DEF JournalTypes
<1>5. CASE /\ Goto(r, "release") /\ UNCHANGED <<ckpt, event>>
           /\ IF At(r, "undoBodies") /\ req[r].goal = "approve"
              THEN body' = [body EXCEPT ![Source] = req[r].orig]
              ELSE UNCHANGED body
  <2>1. Moves(r) /\ PhaseOf(r, "release")
    BY <1>0, <1>5, WritingGoto
  <2>2. req[r].orig \in Contents \cup {None}
    BY <1>1 DEF Request
  <2>3. body' \in [Sessions -> Contents \cup {None}]
    BY <1>5, <2>2 DEF JournalTypes
  <2> QED
    BY <1>5, <2>1, <2>3 DEF PhaseOf, JournalTypes
<1> HIDE DEF left, i
<1> QED
  BY <1>3, <1>4, <1>5 DEF Undo, left, i

\* Release gives one claim back, or ends when it has none left.
LEMMA ReleaseShape ==
  ASSUME JournalTypes, ShapesInv, NEW r \in Requests, Release(r)
  PROVE  /\ claim' \in [Sessions -> Requests \cup {None, Dead}] /\ Moves(r)
         /\ \/ /\ UNCHANGED req
               /\ \E s \in Held(r) : claim' = [claim EXCEPT ![s] = None]
            \/ /\ UNCHANGED claim /\ Held(r) = {}
               /\ req'[r].job = <<>> /\ req'[r].seen = Unseen
               /\ req'[r].pc \in {"idle", "list"}
<1>1. CASE UNCHANGED req /\ \E s \in Held(r) : claim' = [claim EXCEPT ![s] = None]
  <2>1. Moves(r)
    BY <1>1 DEF Moves, OthersKept, JournalTypes, ShapesInv
  <2>2. claim' \in [Sessions -> Requests \cup {None, Dead}]
    BY <1>1 DEF JournalTypes, Held
  <2> QED
    BY <1>1, <2>1, <2>2
<1>2. CASE Held(r) = {} /\ UNCHANGED claim /\ End(r)
  <2>1. Moves(r) /\ req'[r] = Idle
    BY <1>2, EndStep
  <2> QED
    BY <1>2, <2>1 DEF Idle, JournalTypes
<1>3. CASE /\ Held(r) = {} /\ UNCHANGED claim
           /\ req' = [req EXCEPT ![r] = [Idle EXCEPT !.pc = "list", !.goal = "confirm"]]
  <2> DEFINE y == [Idle EXCEPT !.pc = "list", !.goal = "confirm"]
  <2>1. "list" \in Phases /\ "confirm" \in Goals /\ Idle \in Request
    BY IdleIsRequest DEF Phases, Goals
  <2>2. y \in Request
    BY <2>1 DEF Request
  <2>3. req' \in [Requests -> Request] /\ OthersKept(r) /\ req'[r] = y
    BY <1>3, <2>2, PutStep
  <2>4. y.pc = "list" /\ y.goal = "confirm" /\ y.job = <<>> /\ y.seen = Unseen
    BY DEF Idle
  <2> HIDE DEF y
  <2>5. JobShape(y)
    BY <2>4 DEF JobShape, Recovering, Listed, Paging, Busy, Chosen
  <2> QED
    BY <1>3, <2>3, <2>4, <2>5 DEF Moves, JournalTypes
<1> QED
  BY <1>1, <1>2, <1>3 DEF Release

\* The requests of a server that dies are idle, the others go on.
LEMMA DieShape ==
  ASSUME JournalTypes, ShapesInv, NEW x \in Servers, Die(x)
  PROVE  /\ req' \in [Requests -> Request] /\ ShapesInv'
         /\ claim' \in [Sessions -> Requests \cup {None, Dead}]
         /\ deaths' \in 0..MaxDeaths
         /\ \A r \in Requests : req'[r] = IF ServerOf[r] = x THEN Idle ELSE req[r]
<1>1. \A r \in Requests : req'[r] = IF ServerOf[r] = x THEN Idle ELSE req[r]
  BY DEF Die
<1>2. req' \in [Requests -> Request]
  BY IdleIsRequest DEF Die, JournalTypes
<1>3. claim' \in [Sessions -> Requests \cup {None, Dead}]
  BY DEF Die, JournalTypes
<1>4. ShapesInv'
  BY <1>1, IdleIsRequest DEF ShapesInv
<1>5. deaths' \in 0..MaxDeaths
  BY JournalAssumption DEF Die, JournalTypes
<1> QED
  BY <1>1, <1>2, <1>3, <1>4, <1>5

\* A step of one request keeps the shapes of all.
LEMMA StepShapes ==
  ASSUME ShapesInv, NEW r \in Requests, Moves(r)
  PROVE  ShapesInv'
BY DEF ShapesInv, Moves, OthersKept

-----------------------------------------------------------------------------
(* Steps on the files of one session, and what recoveries have seen.       *)

\* What the constants are not.
LEMMA NoneFacts ==
  /\ None \notin Contents /\ None \notin Approved /\ None \notin Requests
  /\ Dead \notin Requests /\ None # Dead /\ Source # Draft
  /\ Source \in Sessions /\ Draft \in Sessions /\ Approved \subseteq Contents
BY JournalAssumption DEF Sessions

\* A head is that of no version, or names a version and a content.
LEMMA HeadFacts ==
  ASSUME JournalTypes, NEW s \in Sessions
  PROVE  /\ head[s].v \in Nat /\ head[s].c \in Contents \cup {None}
         /\ head[s].v > 0 <=> head[s].c # None
         /\ head[s].v > 0 => head[s].v \in 1..MaxVersion /\ head[s].c \in Contents
         /\ head[s].v = 0 => head[s] = NoHead
         /\ body[s] \in Contents \cup {None}
<1>1. head[s] \in Heads /\ body[s] \in Contents \cup {None}
  BY DEF JournalTypes
<1>2. CASE head[s] = NoHead
  BY <1>1, <1>2 DEF NoHead
<1>3. CASE head[s] \in [v : 1..MaxVersion, c : Contents]
  BY <1>1, <1>3, NoneFacts, JournalAssumption
<1> QED
  BY <1>1, <1>2, <1>3 DEF Heads

\* A file has a version and a content.
LEMMA FileFacts ==
  ASSUME NEW f \in Files
  PROVE  f.v \in Nat /\ f.v > 0 /\ f.c \in Contents /\ f.c # None
BY NoneFacts, JournalAssumption DEF Files

\* A checkpoint is a file.
LEMMA CkptFacts ==
  ASSUME JournalTypes, NEW s \in Sessions, NEW f \in ckpt[s]
  PROVE  f \in Files /\ f.v \in Nat /\ f.v > 0 /\ f.c \in Contents /\ f.c # None
<1>1. f \in Files
  BY DEF JournalTypes
<1> QED
  BY <1>1, FileFacts

\* The checkpoint with the content of the head is the one the head names.
LEMMA HeadFile ==
  ASSUME JournalTypes, FilesInv, NEW s \in Sessions, NEW f \in ckpt[s], f.c = head[s].c
  PROVE  f.v = head[s].v
<1>1. head[s].v > 0
  BY HeadFacts, CkptFacts
<1>2. PICK g \in ckpt[s] : g.v = head[s].v /\ g.c = head[s].c
  BY <1>1 DEF FilesInv
<1> QED
  BY <1>2 DEF FilesInv

\* There is one candidate at most, of the version after the head.
LEMMA CandVersion ==
  ASSUME JournalTypes, FilesInv, NEW s \in Sessions, NEW f \in Cand(s)
  PROVE  /\ f \in ckpt[s] /\ f.v = head[s].v + 1 /\ f.v > head[s].v
         /\ \A g \in Cand(s) : g = f
<1>1. \A g \in Cand(s) : g \in ckpt[s] /\ g.v > head[s].v /\ g.v <= head[s].v + 1
                         /\ g.v \in Nat
  BY CkptFacts DEF Cand, FilesInv
<1>2. head[s].v \in Nat
  BY HeadFacts
<1>3. \A g \in Cand(s) : g.v = head[s].v + 1
  BY <1>1, <1>2
<1> QED
  BY <1>1, <1>3 DEF FilesInv

\* Somebody undoes an approval whose body is written: no draft is there yet.
LEMMA TornFacts ==
  ASSUME ShapesInv, JobsInv, NEW s, NEW d, Torn(s, d)
  PROVE  s = Source /\ d \in Approved /\ body[Draft] = None
<1>1. PICK r \in Requests : /\ req[r].pc = "undoBodies" /\ Len(req[r].job) = 2
                            /\ req[r].job[1].c = d
  BY DEF Torn
<1>2. JobShape(req[r]) /\ JobFiles(req[r])
  BY DEF ShapesInv, JobsInv
<1> QED
  BY <1>1, <1>2 DEF Torn, JobShape, JobFiles

\* The invariants of the files, whoever wrote them.
DiskInv == FilesInv /\ BodyInv /\ ApprovalInv

\* Candidates of s are removed.

\* Candidates are removed: the committed checkpoints stay.
LEMMA RemoveFiles ==
  ASSUME JournalTypes, FilesInv, NEW s \in Sessions, NEW D,
         \A g \in ckpt[s] : g \in D => g.v > head[s].v,
         ckpt' = [ckpt EXCEPT ![s] = @ \ D], UNCHANGED head
  PROVE  FilesInv'
<1> SUFFICES ASSUME NEW t \in Sessions
             PROVE  /\ \A f, g \in ckpt'[t] : f.v = g.v \/ f.c = g.c => f = g
                    /\ \A f \in ckpt'[t] : f.v <= head'[t].v + 1
                    /\ \A v \in 1..head'[t].v : \E f \in ckpt'[t] : f.v = v
                    /\ head'[t].v > 0 =>
                         \E f \in ckpt'[t] : f.v = head'[t].v /\ f.c = head'[t].c
  BY DEF FilesInv
<1>1. ckpt'[t] \subseteq ckpt[t] /\ head'[t] = head[t]
  BY DEF JournalTypes
<1>2. \A f \in ckpt[t] : f.v <= head[t].v => f \in ckpt'[t]
  <2>1. \A f \in ckpt[t] : f.v \in Nat
    BY CkptFacts
  <2>2. head[t].v \in Nat
    BY HeadFacts
  <2> QED
    BY <2>1, <2>2 DEF JournalTypes
<1>3. head[t].v \in Nat
  BY HeadFacts
<1>4. \A v \in 1..head[t].v : \E f \in ckpt'[t] : f.v = v
  <2> TAKE v \in 1..head[t].v
  <2>1. PICK f \in ckpt[t] : f.v = v
    BY DEF FilesInv
  <2> QED
    BY <1>2, <1>3, <2>1
<1>5. head[t].v > 0 => \E f \in ckpt'[t] : f.v = head[t].v /\ f.c = head[t].c
  BY <1>2, <1>3 DEF FilesInv
<1> QED
  BY <1>1, <1>4, <1>5 DEF FilesInv

\* Candidates are removed that no body shows, but for a torn approval.
LEMMA RemoveDisk ==
  ASSUME JournalTypes, DiskInv, ShapesInv, JobsInv, NEW s \in Sessions, NEW D,
         \A g \in ckpt[s] : g \in D => g.v > head[s].v /\ (body[s] = g.c => Torn(s, g.c)),
         ckpt' = [ckpt EXCEPT ![s] = @ \ D], UNCHANGED <<body, head, event>>
  PROVE  DiskInv'
<1>1. FilesInv'
  BY RemoveFiles DEF DiskInv
<1>2. \A t \in Sessions : ckpt'[t] \subseteq ckpt[t] /\ Cand(t)' \subseteq Cand(t)
  BY DEF JournalTypes, Cand
<1>3. \A t \in Sessions : \A g \in ckpt[t] : g \in ckpt'[t] \/ (t = s /\ g \in D)
  BY DEF JournalTypes
<1>4. BodyInv'
  <2> SUFFICES ASSUME NEW t \in Sessions
               PROVE  \/ body[t] = head[t].c
                      \/ \E f \in Cand(t)' : f.c = body[t] /\ Named(event[t], f) # {}
                      \/ t = Source /\ body[t] \in Approved
    BY DEF BodyInv, Named
  <2>1. CASE \E f \in Cand(t) : f.c = body[t] /\ Named(event[t], f) # {}
    <3>1. PICK f \in Cand(t) : f.c = body[t] /\ Named(event[t], f) # {}
      BY <2>1
    <3>2. CASE f \in ckpt'[t]
      BY <3>1, <3>2 DEF Cand
    <3>3. CASE t = s /\ f \in D
      <4>1. Torn(s, f.c)
        BY <3>1, <3>3 DEF Cand
      <4> QED
        BY <3>1, <3>3, <4>1, TornFacts
    <3> QED
      BY <1>3, <3>2, <3>3 DEF Cand
  <2> QED
    BY <2>1 DEF DiskInv, BodyInv
<1>5. ApprovalInv'
  <2>1. head'[Source].c \in Approved =>
            body'[Source] = head'[Source].c /\ Cand(Source)' = {}
    BY <1>2, NoneFacts DEF DiskInv, ApprovalInv
  <2>2. \A f \in ckpt'[Source] : f.c \in Approved => f.v >= head'[Source].v
    BY <1>2, NoneFacts DEF DiskInv, ApprovalInv
  <2>3. body'[Draft] # None => ApprovalStands'
    <3> HAVE body'[Draft] # None
    <3>1. ApprovalStands
      BY DEF DiskInv, ApprovalInv
    <3>2. PICK f \in ckpt[Source] :
            /\ f.c \in Approved /\ body[Source] = f.c
            /\ f.v <= head[Source].v \/ Named(event[Source], f) # {}
      BY <3>1 DEF ApprovalStands
    <3>3. f \in ckpt'[Source]
      <4> SUFFICES ASSUME s = Source, f \in D
                   PROVE  FALSE
        BY <1>3, NoneFacts
      <4>1. Torn(s, f.c)
        BY <3>2
      <4> QED
        BY <4>1, TornFacts
    <3> QED
      BY <3>1, <3>2, <3>3 DEF ApprovalStands, Named
  <2> QED
    BY <2>1, <2>2, <2>3 DEF ApprovalInv
<1> QED
  BY <1>1, <1>4, <1>5 DEF DiskInv

\* What a recovery has seen still holds after candidates are removed.
LEMMA RemoveSeen ==
  ASSUME JournalTypes, FilesInv, NEW s \in Sessions, NEW D,
         \A g \in ckpt[s] : g \in D => g.v > head[s].v /\ (body[s] = g.c => Torn(s, g.c)),
         ckpt' = [ckpt EXCEPT ![s] = @ \ D], UNCHANGED <<body, head>>,
         \A d \in Contents : \A t \in Sessions : Torn(t, d) => Torn(t, d)',
         NEW x \in Request, NEW t \in Sessions, SeenOf(x, t)
  PROVE  SeenOf(x, t)'
<1> DEFINE h == x.seen.head[t]
<1>1. ckpt'[t] \subseteq ckpt[t] /\ \A g \in ckpt[t] : g \in ckpt'[t] \/ (t = s /\ g \in D)
  BY DEF JournalTypes
<1>2. h.v <= head'[t].v /\ (h.v = head'[t].v => h = head'[t])
  BY DEF SeenOf
<1>3. h.v > 0 => \E g \in ckpt'[t] : g.v = h.v /\ g.c = h.c
  <2> HAVE h.v > 0
  <2>1. PICK g \in ckpt[t] : g.v = h.v /\ g.c = h.c
    BY DEF SeenOf
  <2>2. g.v <= head[t].v
    BY <2>1 DEF SeenOf
  <2>3. g.v \in Nat /\ head[t].v \in Nat
    BY HeadFacts, CkptFacts
  <2>4. g \in ckpt'[t]
    BY <1>1, <2>2, <2>3
  <2> QED
    BY <2>1, <2>4
<1>4. \A f \in Ahead(x, t) : f \in ckpt'[t] \/ Gone(t, f)'
  <2> TAKE f \in Ahead(x, t)
  <2>0. f.c \in Contents
    <3>1. x.seen.ckpt[t] \subseteq Files
      BY DEF Request, Listing
    <3> QED
      BY <3>1, FileFacts DEF Ahead
  <2>1. CASE f \in ckpt[t]
    <3>1. CASE t = s /\ f \in D
      <4>0. CASE f \in ckpt'[t]
        BY <4>0
      <4>1. CASE f \notin ckpt'[t]
        <5>1. ~Holds(t, f.c)'
          BY <1>1, <2>1, <4>1 DEF Holds, FilesInv
        <5>2. body'[t] = f.c => Torn(t, f.c)'
          BY <2>0, <2>1, <3>1
        <5> QED
          BY <5>1, <5>2 DEF Gone
      <4> QED
        BY <4>0, <4>1
    <3> QED
      BY <1>1, <2>1, <3>1
  <2>2. CASE Gone(t, f)
    <3>1. ~Holds(t, f.c)'
      BY <1>1, <2>2 DEF Gone, Holds
    <3>2. body'[t] = f.c => Torn(t, f.c)'
      BY <2>0, <2>2 DEF Gone
    <3> QED
      BY <3>1, <3>2 DEF Gone
  <2> QED
    BY <2>1, <2>2 DEF SeenOf
<1> QED
  BY <1>2, <1>3, <1>4 DEF SeenOf, Ahead

\* Events of s are removed, none that a committed or candidate body needs.

\* Events are removed, none that a committed or candidate body needs.
LEMMA ForgetDisk ==
  ASSUME JournalTypes, DiskInv, ShapesInv, JobsInv, NEW s \in Sessions, NEW D,
         \A e \in D : \A g \in ckpt[s] : g.v = e.v /\ g.c = e.c /\ body[s] = g.c =>
            body[s] = head[s].c \/ Torn(s, g.c),
         event' = [event EXCEPT ![s] = @ \ D], UNCHANGED <<body, head, ckpt>>
  PROVE  DiskInv'
<1>1. FilesInv'
  BY DEF DiskInv, FilesInv
<1>2. ASSUME NEW t \in Sessions, NEW f \in ckpt[t], Named(event[t], f) # {}, f.c = body[t]
      PROVE  Named(event'[t], f) # {} \/ body[t] = head[t].c \/ Torn(t, f.c)
  <2>1. PICK e \in event[t] : e.v = f.v /\ e.c = f.c
    BY <1>2 DEF Named
  <2>2. CASE e \in event'[t]
    BY <2>1, <2>2 DEF Named
  <2>3. CASE e \notin event'[t]
    <3>1. t = s /\ e \in D
      BY <2>3 DEF JournalTypes
    <3> QED
      BY <1>2, <2>1, <3>1
  <2> QED
    BY <2>2, <2>3
<1>3. BodyInv'
  <2> SUFFICES ASSUME NEW t \in Sessions
               PROVE  \/ body[t] = head[t].c
                      \/ \E f \in Cand(t) : f.c = body[t] /\ Named(event'[t], f) # {}
                      \/ t = Source /\ body[t] \in Approved
    BY DEF BodyInv, Named, Cand
  <2>1. CASE \E f \in Cand(t) : f.c = body[t] /\ Named(event[t], f) # {}
    <3>1. PICK f \in Cand(t) : f.c = body[t] /\ Named(event[t], f) # {}
      BY <2>1
    <3>2. Named(event'[t], f) # {} \/ body[t] = head[t].c \/ Torn(t, f.c)
      BY <1>2, <3>1 DEF Cand
    <3>3. CASE Torn(t, f.c)
      BY <3>1, <3>3, TornFacts
    <3> QED
      BY <3>1, <3>2, <3>3
  <2> QED
    BY <2>1 DEF DiskInv, BodyInv
<1>4. ApprovalInv'
  <2>1. body'[Draft] # None => ApprovalStands'
    <3> HAVE body'[Draft] # None
    <3>1. ApprovalStands
      BY DEF DiskInv, ApprovalInv
    <3>2. PICK f \in ckpt[Source] :
            /\ f.c \in Approved /\ body[Source] = f.c
            /\ f.v <= head[Source].v \/ Named(event[Source], f) # {}
      BY <3>1 DEF ApprovalStands
    <3>3. CASE f.v <= head[Source].v
      BY <3>1, <3>2, <3>3 DEF ApprovalStands
    <3>4. CASE Named(event[Source], f) # {}
      <4>1. Named(event'[Source], f) # {} \/ body[Source] = head[Source].c
            \/ Torn(Source, f.c)
        BY <1>2, <3>2, <3>4, NoneFacts
      <4>2. CASE body[Source] = head[Source].c
        <5>1. f.v = head[Source].v /\ head[Source].v \in Nat
          BY <3>2, <4>2, HeadFile, HeadFacts, NoneFacts DEF DiskInv
        <5>2. f.v <= head[Source].v
          BY <5>1
        <5> QED
          BY <3>1, <3>2, <5>2 DEF ApprovalStands
      <4>3. CASE Torn(Source, f.c)
        BY <4>3, TornFacts
      <4>4. CASE Named(event'[Source], f) # {}
        BY <3>1, <3>2, <4>4 DEF ApprovalStands, Named
      <4> QED
        BY <4>1, <4>2, <4>3, <4>4
    <3> QED
      BY <3>2, <3>3, <3>4
  <2> QED
    BY <2>1 DEF DiskInv, ApprovalInv, Cand
<1> QED
  BY <1>1, <1>3, <1>4 DEF DiskInv

\* Neither the heads nor the checkpoints nor the bodies change.
LEMMA SameSeen ==
  ASSUME UNCHANGED <<body, head, ckpt>>, NEW x, NEW t,
         \A d : Torn(t, d) => Torn(t, d)',
         SeenOf(x, t)
  PROVE  SeenOf(x, t)'
BY DEF SeenOf, Gone, Holds, Ahead

\* The files hold their invariants when they stay.
LEMMA SameDisk ==
  ASSUME UNCHANGED <<body, head, ckpt, event>>, DiskInv
  PROVE  DiskInv'
BY DEF DiskInv, FilesInv, BodyInv, ApprovalInv, ApprovalStands, Cand, Named

\* The candidate that the body agrees with becomes the head.

\* The candidate that the body agrees with becomes the head.
LEMMA PublishDisk ==
  ASSUME JournalTypes, DiskInv, NEW s \in Sessions, NEW f \in Cand(s), body[s] = f.c,
         head' = [head EXCEPT ![s] = [v |-> f.v, c |-> f.c]],
         UNCHANGED <<body, ckpt, event>>
  PROVE  DiskInv'
<1>0. /\ f \in ckpt[s] /\ f.v = head[s].v + 1 /\ head[s].v \in Nat /\ f.v \in Nat
      /\ f.c \in Contents
  BY CandVersion, HeadFacts, CkptFacts DEF DiskInv
<1>1. /\ head'[s].v = f.v /\ head'[s].c = f.c
      /\ \A t \in Sessions : t # s => head'[t] = head[t]
  BY DEF JournalTypes
<1>2. \A g \in ckpt[s] : g.v <= f.v /\ g.v \in Nat
  BY <1>0, CkptFacts DEF DiskInv, FilesInv
<1>3. Cand(s)' = {}
  BY <1>1, <1>2 DEF Cand
<1>4. FilesInv'
  <2> SUFFICES ASSUME NEW t \in Sessions
               PROVE  /\ \A g, k \in ckpt[t] : g.v = k.v \/ g.c = k.c => g = k
                      /\ \A g \in ckpt[t] : g.v <= head'[t].v + 1
                      /\ \A v \in 1..head'[t].v : \E g \in ckpt[t] : g.v = v
                      /\ head'[t].v > 0 =>
                           \E g \in ckpt[t] : g.v = head'[t].v /\ g.c = head'[t].c
    BY DEF FilesInv
  <2>1. CASE t = s
    <3>1. \A g \in ckpt[t] : g.v <= head'[t].v + 1
      BY <1>0, <1>1, <1>2, <2>1
    <3>2. \A v \in 1..head'[t].v : \E g \in ckpt[t] : g.v = v
      <4> TAKE v \in 1..head'[t].v
      <4>1. v \in 1..head[s].v \/ v = f.v
        BY <1>0, <1>1, <2>1
      <4> QED
        BY <1>0, <2>1, <4>1 DEF DiskInv, FilesInv
    <3> QED
      BY <1>0, <1>1, <2>1, <3>1, <3>2 DEF DiskInv, FilesInv
  <2>2. CASE t # s
    BY <1>1, <2>2 DEF DiskInv, FilesInv
  <2> QED
    BY <2>1, <2>2
<1>5. BodyInv'
  <2> SUFFICES ASSUME NEW t \in Sessions
               PROVE  \/ body[t] = head'[t].c
                      \/ \E g \in Cand(t)' : g.c = body[t] /\ Named(event[t], g) # {}
                      \/ t = Source /\ body[t] \in Approved
    BY DEF BodyInv, Named
  <2>1. CASE t # s
    <3>1. Cand(t)' = Cand(t)
      BY <1>1, <2>1 DEF Cand
    <3> QED
      BY <1>1, <2>1, <3>1 DEF DiskInv, BodyInv
  <2> QED
    BY <1>1, <2>1
<1>6. ApprovalInv'
  <2>1. CASE s = Source
    <3>1. head[Source].c \notin Approved
      BY <2>1 DEF DiskInv, ApprovalInv
    <3>2. \A g \in ckpt[Source] : g.c \in Approved => g.v >= f.v
      <4> TAKE g \in ckpt[Source]
      <4> HAVE g.c \in Approved
      <4>1. g.v >= head[s].v /\ g.v \in Nat
        BY <2>1, <1>2 DEF DiskInv, ApprovalInv
      <4>2. g.v # head[s].v
        <5> SUFFICES ASSUME g.v = head[s].v
                     PROVE  FALSE
          OBVIOUS
        <5>1. head[s].v > 0
          BY CkptFacts, <2>1
        <5>2. PICK k \in ckpt[s] : k.v = head[s].v /\ k.c = head[s].c
          BY <5>1 DEF DiskInv, FilesInv
        <5>3. k = g
          BY <5>2, <2>1 DEF DiskInv, FilesInv
        <5> QED
          BY <2>1, <3>1, <5>2, <5>3
      <4> QED
        BY <1>0, <4>1, <4>2
    <3>3. body[Draft] # None => ApprovalStands'
      <4> HAVE body[Draft] # None
      <4>1. PICK g \in ckpt[Source] :
            /\ g.c \in Approved /\ body[Source] = g.c
            /\ g.v <= head[Source].v \/ Named(event[Source], g) # {}
        BY DEF DiskInv, ApprovalInv, ApprovalStands
      <4>2. g = f
        BY <1>0, <2>1, <4>1 DEF DiskInv, FilesInv
      <4>3. f.v <= head'[Source].v /\ head'[Source].v > 0
        BY <1>0, <1>1, <2>1
      <4> QED
        BY <4>1, <4>2, <4>3 DEF ApprovalStands
    <3> QED
      BY <1>1, <1>3, <2>1, <3>2, <3>3 DEF ApprovalInv
  <2>2. CASE s # Source
    <3>1. head'[Source] = head[Source] /\ Cand(Source)' = Cand(Source)
      BY <1>1, <2>2, NoneFacts DEF Cand
    <3> QED
      BY <3>1 DEF DiskInv, ApprovalInv, ApprovalStands, Named
  <2> QED
    BY <2>1, <2>2
<1> QED
  BY <1>4, <1>5, <1>6 DEF DiskInv

\* What a recovery has seen still holds after a head is published.
LEMMA PublishSeen ==
  ASSUME JournalTypes, FilesInv, NEW s \in Sessions, NEW f \in Cand(s),
         head' = [head EXCEPT ![s] = [v |-> f.v, c |-> f.c]],
         UNCHANGED <<body, ckpt>>,
         \A t \in Sessions : \A d : Torn(t, d) => Torn(t, d)',
         NEW x \in Request, NEW t \in Sessions, SeenOf(x, t)
  PROVE  SeenOf(x, t)'
<1> DEFINE h == x.seen.head[t]
<1>0. /\ f \in ckpt[s] /\ f.v = head[s].v + 1 /\ head[s].v \in Nat /\ h.v \in Nat
  <2>1. h \in Heads
    BY DEF Request, Listing
  <2>2. h.v \in Nat
    BY <2>1, JournalAssumption DEF Heads, NoHead
  <2> QED
    BY <2>2, CandVersion, HeadFacts
<1>1. /\ head'[s].v = f.v /\ head'[s].c = f.c
      /\ \A u \in Sessions : u # s => head'[u] = head[u]
  BY DEF JournalTypes
<1>2. h.v <= head'[t].v /\ (h.v = head'[t].v => h = head'[t])
  <2>1. CASE t = s
    <3>1. h.v <= head[s].v
      BY <2>1 DEF SeenOf
    <3> QED
      BY <1>0, <1>1, <2>1, <3>1
  <2>2. CASE t # s
    BY <1>1, <2>2 DEF SeenOf
  <2> QED
    BY <2>1, <2>2
<1>3. \A g \in Ahead(x, t) : g \in ckpt'[t] \/ Gone(t, g)'
  BY DEF SeenOf, Gone, Holds
<1> QED
  BY <1>2, <1>3 DEF SeenOf, Ahead

\* A checkpoint with a new content follows the head.

\* A checkpoint with a new content follows the head.
LEMMA AddDisk ==
  ASSUME JournalTypes, DiskInv, NEW s \in Sessions, NEW f \in Files,
         f.v = head[s].v + 1, Cand(s) = {}, ~Holds(s, f.c),
         s = Source => head[Source].c \notin Approved,
         ckpt' = [ckpt EXCEPT ![s] = @ \cup {f}], UNCHANGED <<body, head, event>>
  PROVE  DiskInv'
<1>0. head[s].v \in Nat /\ f.v \in Nat
  BY HeadFacts, FileFacts
<1>1. /\ ckpt'[s] = ckpt[s] \cup {f}
      /\ \A t \in Sessions : t # s => ckpt'[t] = ckpt[t]
      /\ \A t \in Sessions : ckpt[t] \subseteq ckpt'[t] /\ Cand(t) \subseteq Cand(t)'
  BY DEF JournalTypes, Cand
<1>2. \A g \in ckpt[s] : g.v <= head[s].v /\ g.v \in Nat /\ g.c # f.c
  <2> TAKE g \in ckpt[s]
  <2>1. g \notin Cand(s) /\ g.v \in Nat
    BY CkptFacts
  <2> QED
    BY <1>0, <2>1 DEF Cand, Holds
<1>3. FilesInv'
  <2> SUFFICES ASSUME NEW t \in Sessions
               PROVE  /\ \A g, k \in ckpt'[t] : g.v = k.v \/ g.c = k.c => g = k
                      /\ \A g \in ckpt'[t] : g.v <= head[t].v + 1
                      /\ \A v \in 1..head[t].v : \E g \in ckpt'[t] : g.v = v
                      /\ head[t].v > 0 =>
                           \E g \in ckpt'[t] : g.v = head[t].v /\ g.c = head[t].c
    BY DEF FilesInv
  <2>1. CASE t = s
    <3>1. \A g \in ckpt[s] : g.v # f.v /\ g.c # f.c
      BY <1>0, <1>2
    <3>2. \A g, k \in ckpt'[s] : g.v = k.v \/ g.c = k.c => g = k
      BY <1>1, <3>1 DEF DiskInv, FilesInv
    <3>3. \A g \in ckpt'[s] : g.v <= head[s].v + 1
      BY <1>0, <1>1, <1>2
    <3> QED
      BY <1>1, <2>1, <3>2, <3>3 DEF DiskInv, FilesInv
  <2>2. CASE t # s
    BY <1>1, <2>2 DEF DiskInv, FilesInv
  <2> QED
    BY <2>1, <2>2
<1>4. BodyInv'
  BY <1>1 DEF DiskInv, BodyInv, Named
<1>5. ApprovalInv'
  <2>1. CASE s = Source
    <3>1. \A g \in ckpt'[Source] : g.c \in Approved => g.v >= head[Source].v
      BY <1>0, <1>1, <2>1 DEF DiskInv, ApprovalInv
    <3> QED
      BY <1>1, <2>1, <3>1 DEF DiskInv, ApprovalInv, ApprovalStands, Named
  <2>2. CASE s # Source
    <3>1. ckpt'[Source] = ckpt[Source] /\ Cand(Source)' = Cand(Source)
      BY <1>1, <2>2, NoneFacts DEF Cand
    <3> QED
      BY <3>1 DEF DiskInv, ApprovalInv, ApprovalStands, Named
  <2> QED
    BY <2>1, <2>2
<1> QED
  BY <1>3, <1>4, <1>5 DEF DiskInv

\* What a recovery has seen still holds after a checkpoint is added.
LEMMA AddSeen ==
  ASSUME JournalTypes, NEW s \in Sessions, NEW f \in Files,
         ckpt' = [ckpt EXCEPT ![s] = @ \cup {f}], UNCHANGED <<body, head>>,
         \A t \in Sessions : \A d : Torn(t, d) => Torn(t, d)',
         NEW x, NEW t \in Sessions, SeenOf(x, t),
         \A g \in x.seen.ckpt[s] : g.c # f.c
  PROVE  SeenOf(x, t)'
<1>1. /\ ckpt'[s] = ckpt[s] \cup {f}
      /\ t # s => ckpt'[t] = ckpt[t]
      /\ ckpt[t] \subseteq ckpt'[t]
  BY DEF JournalTypes
<1>2. \A g \in Ahead(x, t) : Gone(t, g) => Gone(t, g)'
  BY <1>1 DEF Gone, Holds, Ahead
<1>3. \A g \in Ahead(x, t) : g \in ckpt'[t] \/ Gone(t, g)'
  BY <1>1, <1>2 DEF SeenOf
<1> QED
  BY <1>1, <1>3 DEF SeenOf, Ahead

\* Events are added.
LEMMA TellDisk ==
  ASSUME DiskInv, \A t \in Sessions : event[t] \subseteq event'[t],
         UNCHANGED <<body, head, ckpt>>
  PROVE  DiskInv'
<1>1. \A t \in Sessions : \A f : Named(event[t], f) # {} => Named(event'[t], f) # {}
  BY DEF Named
<1>2. BodyInv'
  BY <1>1 DEF DiskInv, BodyInv, Cand, Named
<1>3. ApprovalInv'
  BY <1>1, NoneFacts DEF DiskInv, ApprovalInv, ApprovalStands, Cand, Named
<1> QED
  BY <1>2, <1>3 DEF DiskInv, FilesInv

\* A body becomes the committed content or the candidate's.

\* A body becomes the committed content or that of the candidate.
LEMMA BodyDisk ==
  ASSUME JournalTypes, DiskInv, NEW s \in Sessions, NEW c \in Contents,
         \/ c = head[s].c
         \/ \E f \in Cand(s) : f.c = c /\ Named(event[s], f) # {},
         body' = [body EXCEPT ![s] = c], UNCHANGED <<head, ckpt, event>>,
         s = Source => head[Source].c \notin Approved /\ body[Draft] = None,
         s = Draft => ApprovalStands
  PROVE  DiskInv'
<1>1. body'[s] = c /\ \A t \in Sessions : t # s => body'[t] = body[t]
  BY DEF JournalTypes
<1>2. BodyInv'
  BY <1>1 DEF DiskInv, BodyInv, Cand, Named
<1>3. ApprovalInv'
  BY <1>1, NoneFacts DEF DiskInv, ApprovalInv, ApprovalStands, Cand, Named
<1> QED
  BY <1>2, <1>3 DEF DiskInv, FilesInv

\* What a recovery has seen still holds after a body is written.
LEMMA BodySeen ==
  ASSUME JournalTypes, NEW s \in Sessions, NEW c,
         Holds(s, c),
         body' = [body EXCEPT ![s] = c], UNCHANGED <<head, ckpt>>,
         NEW x, NEW t \in Sessions, SeenOf(x, t),
         \A d : Torn(t, d) => Torn(t, d)' \/ t = s
  PROVE  SeenOf(x, t)'
<1>1. body'[s] = c /\ (t # s => body'[t] = body[t])
  BY DEF JournalTypes
<1>2. \A g : Gone(t, g) => Gone(t, g)'
  BY <1>1 DEF Gone, Holds
<1>3. \A g \in Ahead(x, t) : g \in ckpt'[t] \/ Gone(t, g)'
  BY <1>2 DEF SeenOf
<1> QED
  BY <1>3 DEF SeenOf, Ahead

-----------------------------------------------------------------------------
(* What the other requests know survives a step of one.                    *)

\* The files of session s stay as they are.
SameAt(s) ==
  body'[s] = body[s] /\ head'[s] = head[s] /\ ckpt'[s] = ckpt[s] /\ event'[s] = event[s]

\* Nobody sees a checkpoint that is neither there nor already seen.
NothingNewSeen ==
  \A q \in Requests : \A s \in Sessions :
    \A f \in req'[q].seen.ckpt[s] : f \in req[q].seen.ckpt[s] \/ f \in ckpt[s]

\* A content nobody has is still new when nobody writes it.
LEMMA FreshKept ==
  ASSUME NEW m, m.s \in Sessions, Fresh(m), NothingNewSeen,
         body'[m.s] # m.c, \A f \in ckpt'[m.s] : f \in ckpt[m.s] \/ f.c # m.c
  PROVE  Fresh(m)'
BY DEF Fresh, Holds, NothingNewSeen

\* What a request has done of an item holds while its session stays as it is.
LEMMA ItemKept ==
  ASSUME NEW q, NEW x, NEW i, ItemInv(q, x, i), NothingNewSeen,
         x.job[i].s \in Sessions, SameAt(x.job[i].s)
  PROVE  ItemInv(q, x, i)'
<1> DEFINE m == x.job[i]
<1>1. Cand(m.s)' = Cand(m.s)
  BY DEF SameAt, Cand
<1>2. Fresh(m) => Fresh(m)'
  BY DEF SameAt, Fresh, Holds, NothingNewSeen
<1>3. AtHead(m) => AtHead(m)'
  BY DEF SameAt, AtHead
<1>4. Kept(m) => Kept(m)'
  BY <1>1, <1>3 DEF SameAt, Kept
<1>5. InPlace(q, x, i, m) => InPlace(q, x, i, m)'
  BY DEF SameAt, InPlace, Named
<1>6. Undone(q, x, m) => Undone(q, x, m)'
  BY <1>1 DEF SameAt, Undone
<1> HIDE DEF m
<1> QED
  BY <1>1, <1>2, <1>3, <1>4, <1>5, <1>6 DEF ItemInv, m, Before, Made

\* What the job of a request says of the files it writes holds while they stay.
LEMMA JobFilesKept ==
  ASSUME NEW x, JobFiles(x),
         body'[Source] = body[Source] \/ ~HasItem(x, Source),
         head'[Source].c = head[Source].c \/ ~HasItem(x, Source)
           \/ x.pc \notin Busy \cup {"claim"},
         head'[Draft].v >= head[Draft].v \/ ~HasItem(x, Draft),
         body'[Draft] = body[Draft] \/ ~HasItem(x, Draft),
         JobShape(x), JournalTypes, head' \in [Sessions -> Heads]
  PROVE  JobFiles(x)'
<1>1. head[Draft].v \in Nat /\ head'[Draft].v \in Nat
  BY NoneFacts, HeadFacts, JournalAssumption DEF Heads, NoHead
<1>2. Len(x.job) = 1 /\ x.job[1].s = Source => HasItem(x, Source)
  BY DEF HasItem, Items
<1>3. Len(x.job) = 1 /\ x.job[1].s = Draft => HasItem(x, Draft)
  BY DEF HasItem, Items
<1>4. Len(x.job) = 2 => HasItem(x, Source) /\ HasItem(x, Draft)
  BY DEF HasItem, Items, JobShape
<1> QED
  BY <1>1, <1>2, <1>3, <1>4 DEF JobFiles

\* Only claims that are nobody's, dead or r's change.
ClaimsKept(r) ==
  \A s \in Sessions : \/ claim'[s] = claim[s]
                      \/ claim[s] \in {r, None, Dead} /\ claim'[s] \in {r, None, Dead}

\* A step of one request takes no claim of another.
LEMMA ClaimKept ==
  ASSUME NEW r \in Requests, NEW q \in Requests, q # r, NEW x \in Request, ClaimOf(q, x),
         JobShape(x), ClaimsKept(r)
  PROVE  ClaimOf(q, x)'
<1>1. q \notin {r, None, Dead}
  BY NoneFacts
<1>2. \A s \in Sessions : claim[s] = q <=> claim'[s] = q
  BY <1>1 DEF ClaimsKept
<1>3. \A i \in Items(x) : x.job[i].s \in Sessions
  BY ItemType DEF Items
<1>4. x.pc \in Publishing => x.s \in Sessions
  BY DEF JobShape, Publishing, Chosen
<1> QED
  BY <1>2, <1>3, <1>4 DEF ClaimOf

\* Who is busy at the end of the step was busy with the same records before, or
\* starts with records that nobody has seen.
BusyKept(r) ==
  req'[r].pc \in Busy =>
    \/ req[r].pc \in Busy /\ SameItems(req[r], req'[r])
    \/ \A i \in Items(req'[r]) : /\ req'[r].job[i].s \in Sessions
                                 /\ Fresh(req'[r].job[i]) \/ AtHead(req'[r].job[i])

\* What a recovery knows of its candidate survives the step of another.
LEMMA ChosenKept ==
  ASSUME JournalTypes, FilesInv, NEW r \in Requests, OthersKept(r), BusyKept(r),
         NEW x \in Request, ChosenOf(x), SeenOf(x, x.s), x.s \in Sessions,
         \E q \in Requests : x.seen.ckpt = req[q].seen.ckpt,
         head' \in [Sessions -> Heads],
         head'[x.s].v >= head[x.s].v,
         x.pc \in Dropping /\ Aim(x) \in ckpt'[x.s] =>
           Aim(x).v > head'[x.s].v /\ body'[x.s] # Aim(x).c
  PROVE  ChosenOf(x)'
<1> DEFINE f == Aim(x)
<1>1. f \in Ahead(x, x.s)
  BY DEF ChosenOf
<1>2. f \in Files /\ f.v \in Nat /\ f.c \in Contents
  <2>1. x.seen.ckpt[x.s] \subseteq Files
    BY DEF Request, Listing
  <2> QED
    BY <1>1, <2>1, FileFacts DEF Ahead
<1>3. /\ head[x.s].v \in Nat /\ head'[x.s].v \in Nat
      /\ x.seen.head[x.s].v \in Nat
  <2>1. x.seen.head[x.s] \in Heads /\ head'[x.s] \in Heads
    BY DEF Request, Listing
  <2> QED
    BY <2>1, HeadFacts, JournalAssumption DEF Heads, NoHead
<1>4. ASSUME f.v > head'[x.s].v, NEW q \in Requests, req'[q].pc \in Busy,
             NEW i \in Items(req'[q]), req'[q].job[i].s = x.s
      PROVE  req'[q].job[i].c # f.c
  <2>1. f.v > head[x.s].v
    BY <1>2, <1>3, <1>4
  <2>2. CASE q # r \/ (req[r].pc \in Busy /\ SameItems(req[r], req'[r]))
    <3>1. /\ req[q].pc \in Busy /\ i \in Items(req[q])
          /\ req[q].job[i].s = x.s /\ req[q].job[i].c = req'[q].job[i].c
      BY <1>4, <2>2 DEF OthersKept, SameItems, Items
    <3> QED
      BY <2>1, <3>1 DEF ChosenOf
  <2>3. CASE q = r /\ Fresh(req'[r].job[i])
    <3>1. f \in x.seen.ckpt[x.s]
      BY <1>1 DEF Ahead
    <3> QED
      BY <1>4, <2>3, <3>1 DEF Fresh
  <2>4. CASE q = r /\ AtHead(req'[r].job[i])
    <3>1. head[x.s].v = x.seen.head[x.s].v
      <4>1. f.v = x.seen.head[x.s].v + 1 /\ x.seen.head[x.s].v <= head[x.s].v
        BY <1>1 DEF SeenOf
      <4> QED
        BY <1>2, <1>3, <2>1, <4>1
    <3>2. f.c # head[x.s].c
      BY <1>1, <3>1 DEF SeenOf
    <3> QED
      BY <1>4, <2>4, <3>2 DEF AtHead
  <2> QED
    BY <1>4, <2>2, <2>3, <2>4 DEF BusyKept
<1> HIDE DEF f
<1>5. /\ Aim(x) \in Ahead(x, x.s)
      /\ x.pc = "dropEvent" => Named(x.seen.event[x.s], Aim(x)) # {}
  BY DEF ChosenOf
<1> QED
  BY <1>4, <1>5 DEF ChosenOf, f, Ahead, Named

\* A page keeps its promise while no draft disappears.
LEMMA PageKept ==
  ASSUME NEW x, PageOf(x), body[Draft] # None => body'[Draft] # None
  PROVE  PageOf(x)'
BY DEF PageOf

\* A request takes no session that another one writes.
LEMMA ExclusiveStep ==
  ASSUME NEW r \in Requests, OthersKept(r), Exclusive,
         \A j \in Items(req'[r]) :
           \/ HasItem(req[r], req'[r].job[j].s)
           \/ \A q \in Requests : ~HasItem(req[q], req'[r].job[j].s)
  PROVE  Exclusive'
<1>1. \A q \in Requests : q # r => req'[q] = req[q]
  BY DEF OthersKept
<1>2. ASSUME NEW q \in Requests, q # r, NEW i \in Items(req[q]), NEW j \in Items(req'[r])
      PROVE  req[q].job[i].s # req'[r].job[j].s
  BY <1>2 DEF Exclusive, HasItem
<1>3. \A p, q \in Requests : p # q =>
        \A i \in Items(req'[p]), j \in Items(req'[q]) : req'[p].job[i].s # req'[q].job[j].s
  <2> TAKE p, q \in Requests
  <2> HAVE p # q
  <2> TAKE i \in Items(req'[p]), j \in Items(req'[q])
  <2>1. CASE p = r
    BY <1>1, <1>2, <2>1
  <2>2. CASE q = r
    BY <1>1, <1>2, <2>2
  <2>3. CASE p # r /\ q # r
    BY <1>1, <2>3 DEF Exclusive
  <2> QED
    BY <2>1, <2>2, <2>3
<1> QED
  BY <1>3 DEF Exclusive, Items

\* The parts of the invariant.
LEMMA InvParts ==
  ASSUME JournalInv
  PROVE  /\ JournalTypes /\ DiskInv /\ FilesInv /\ BodyInv /\ ApprovalInv
         /\ ShapesInv /\ ItemsInv /\ JobsInv /\ Exclusive /\ ClaimInv
         /\ SeenInv /\ ChosenInv /\ PageInv
BY DEF JournalInv, DiskInv

\* The invariant of one request.
LEMMA OwnParts ==
  ASSUME JournalInv, NEW r \in Requests
  PROVE  /\ req[r] \in Request /\ JobShape(req[r]) /\ JobFiles(req[r]) /\ ClaimOf(r, req[r])
         /\ \A i \in Items(req[r]) : ItemInv(r, req[r], i)
         /\ req[r].pc \in Listed => \A s \in Sessions : SeenOf(req[r], s)
         /\ req[r].pc \in Chosen => ChosenOf(req[r])
         /\ PageOf(req[r])
<1>1. /\ JournalTypes /\ ShapesInv /\ ItemsInv /\ JobsInv /\ ClaimInv /\ SeenInv
      /\ ChosenInv
      /\ PageInv
  BY InvParts
<1> QED
  BY <1>1 DEF JournalTypes, ShapesInv, ItemsInv, JobsInv, ClaimInv, SeenInv, ChosenInv,
     PageInv

\* r goes on with an undoing, or does not leave one.
UndoingKept(r) ==
  req[r].pc = "undoBodies" /\ Len(req[r].job) = 2 =>
    req'[r].pc = "undoBodies" /\ req'[r].job = req[r].job

\* A step that leaves no undoing leaves what is torn as torn as it was.
LEMMA TornStep ==
  ASSUME NEW r \in Requests, OthersKept(r), UndoingKept(r)
  PROVE  \A t, d : Torn(t, d) => Torn(t, d)'
<1> TAKE t, d
<1> HAVE Torn(t, d)
<1>1. t = Source
  BY DEF Torn
<1>2. PICK q \in Requests : /\ req[q].pc = "undoBodies" /\ Len(req[q].job) = 2
                            /\ req[q].job[1].c = d
  BY DEF Torn
<1>3. /\ req'[q].pc = "undoBodies" /\ Len(req'[q].job) = 2
      /\ req'[q].job[1].c = d
  <2>1. CASE q = r
    BY <1>2, <2>1 DEF UndoingKept
  <2>2. CASE q # r
    BY <1>2, <2>2 DEF OthersKept
  <2> QED
    BY <2>1, <2>2
<1> QED
  BY <1>1, <1>3 DEF Torn

\* The requests other than r, whatever r does to the files and to its own record.
LEMMA OthersInv ==
  ASSUME JournalInv, NEW r \in Requests, Moves(r), JournalTypes', ClaimsKept(r),
         BusyKept(r),
         \A q \in Requests : q # r =>
           /\ \A i \in Items(req[q]) : ItemInv(q, req[q], i)'
           /\ JobFiles(req[q])'
           /\ req[q].pc \in Listed => \A s \in Sessions : SeenOf(req[q], s)'
           /\ req[q].pc \in Chosen => ChosenOf(req[q])'
           /\ PageOf(req[q])',
         DiskInv',
         \A j \in Items(req'[r]) :
           \/ HasItem(req[r], req'[r].job[j].s)
           \/ \A q \in Requests : ~HasItem(req[q], req'[r].job[j].s),
         NEW y, y = req'[r],
         \A i \in Items(y) : ItemInv(r, y, i)',
         JobFiles(y)', ClaimOf(r, y)',
         y.pc \in Listed => \A s \in Sessions : SeenOf(y, s)',
         y.pc \in Chosen => ChosenOf(y)',
         PageOf(y)'
  PROVE  JournalInv'
<1>0. ShapesInv /\ Exclusive
  BY InvParts
<1>1. OthersKept(r) /\ \A q \in Requests : q # r => req'[q] = req[q]
  BY DEF Moves, OthersKept
<1>2. ShapesInv'
  BY <1>0, StepShapes
<1>3. Exclusive'
  BY <1>0, <1>1, ExclusiveStep
<1>4. ClaimInv'
  <2> SUFFICES ASSUME NEW q \in Requests
               PROVE  ClaimOf(q, req[q])'
    BY DEF ClaimInv
  <2>1. CASE q = r
    BY <2>1 DEF ClaimOf
  <2>2. CASE q # r
    <3>1. req[q] \in Request /\ JobShape(req[q]) /\ ClaimOf(q, req[q])
      BY OwnParts
    <3>2. PICK x \in Request : x = req[q]
      BY <3>1
    <3>3. ClaimOf(q, x)'
      BY <2>2, <3>1, <3>2, ClaimKept
    <3> QED
      BY <1>1, <2>2, <3>2, <3>3 DEF ClaimOf
  <2> QED
    BY <2>1, <2>2
<1>5. ItemsInv'
  <2> SUFFICES ASSUME NEW q \in Requests, NEW i \in Items(req'[q])
               PROVE  ItemInv(q, req[q], i)'
    BY DEF ItemsInv, Items
  <2>1. CASE q = r
    BY <2>1
  <2>2. CASE q # r
    BY <1>1, <2>2
  <2> QED
    BY <2>1, <2>2
<1>6. JobsInv'
  BY <1>1 DEF JobsInv
<1>7. SeenInv'
  BY <1>1 DEF SeenInv
<1>8. ChosenInv'
  BY <1>1 DEF ChosenInv
<1>9. PageInv'
  BY <1>1 DEF PageInv
<1> QED
  BY <1>2, <1>3, <1>4, <1>5, <1>6, <1>7, <1>8, <1>9 DEF JournalInv, DiskInv

-----------------------------------------------------------------------------
(* Steps that leave the files alone.                                       *)

\* A step of r that leaves bodies, heads, checkpoints and events alone.
LEMMA LocalInv ==
  ASSUME JournalInv, NEW r \in Requests, Moves(r), UNCHANGED <<body, head, ckpt, event>>,
         JournalTypes', ClaimsKept(r), NothingNewSeen, BusyKept(r), UndoingKept(r),
         \A j \in Items(req'[r]) :
           \/ HasItem(req[r], req'[r].job[j].s)
           \/ \A q \in Requests : ~HasItem(req[q], req'[r].job[j].s),
         NEW y \in Request, y = req'[r],
         \A i \in Items(y) : ItemInv(r, y, i),
         JobFiles(y), ClaimOf(r, y)',
         y.pc \in Listed => \A s \in Sessions : SeenOf(y, s),
         y.pc \in Chosen => ChosenOf(y) /\ y.seen = req[r].seen,
         PageOf(y)
  PROVE  JournalInv'
<1>0. /\ JournalTypes /\ FilesInv /\ DiskInv /\ OthersKept(r)
      /\ UNCHANGED body /\ UNCHANGED head /\ UNCHANGED ckpt /\ UNCHANGED event
      /\ head' \in [Sessions -> Heads]
  BY InvParts DEF Moves, JournalTypes
<1>1. DiskInv'
  BY <1>0, SameDisk
<1>2. \A t, d : Torn(t, d) => Torn(t, d)'
  BY <1>0, TornStep
<1>3. \A s \in Sessions : head[s].v \in Nat
  BY <1>0, HeadFacts
<1>4. ASSUME NEW q \in Requests, NEW x \in Request,
             x.pc \in Chosen => x.seen = req[q].seen,
             \A i \in Items(x) : ItemInv(q, x, i),
             JobFiles(x), JobShape(x),
             x.pc \in Listed => \A s \in Sessions : SeenOf(x, s),
             x.pc \in Chosen => ChosenOf(x),
             PageOf(x)
      PROVE  /\ \A i \in Items(x) : ItemInv(q, x, i)'
             /\ JobFiles(x)'
             /\ x.pc \in Listed => \A s \in Sessions : SeenOf(x, s)'
             /\ x.pc \in Chosen => ChosenOf(x)'
             /\ PageOf(x)'
  <2>1. ASSUME NEW i \in Items(x)
        PROVE  ItemInv(q, x, i)'
    <3>1. x.job[i].s \in Sessions
      BY ItemType DEF Items
    <3>2. SameAt(x.job[i].s)
      BY <1>0 DEF SameAt
    <3>3. ItemInv(q, x, i)
      BY <1>4
    <3> QED
      BY <3>1, <3>2, <3>3, ItemKept
  <2>2. JobFiles(x)'
    <3>1. head'[Draft].v >= head[Draft].v
      BY <1>0, <1>3, NoneFacts
    <3> QED
      BY <1>0, <1>4, <3>1, JobFilesKept
  <2>3. x.pc \in Listed => \A s \in Sessions : SeenOf(x, s)'
    BY <1>0, <1>2, <1>4, SameSeen
  <2>4. x.pc \in Chosen => ChosenOf(x)'
    <3> SUFFICES ASSUME x.pc \in Chosen
                 PROVE  ChosenOf(x)'
      OBVIOUS
    <3>1. x.s \in Sessions /\ x.pc \in Listed
      BY <1>4 DEF JobShape, Chosen, Listed
    <3>2. SeenOf(x, x.s) /\ ChosenOf(x)
      BY <1>4, <3>1
    <3>3. head'[x.s].v >= head[x.s].v
      BY <1>0, <1>3, <3>1
    <3>4. x.pc \in Dropping /\ Aim(x) \in ckpt'[x.s] =>
           Aim(x).v > head'[x.s].v /\ body'[x.s] # Aim(x).c
      BY <1>0, <3>2 DEF ChosenOf
    <3>5. \E p \in Requests : x.seen.ckpt = req[p].seen.ckpt
      BY <1>4
    <3> QED
      BY <1>0, <3>1, <3>2, <3>3, <3>4, <3>5, ChosenKept
  <2>5. PageOf(x)'
    BY <1>0, <1>4, PageKept
  <2> QED
    BY <2>1, <2>2, <2>3, <2>4, <2>5
<1>5. \A q \in Requests : q # r =>
           /\ \A i \in Items(req[q]) : ItemInv(q, req[q], i)'
           /\ JobFiles(req[q])'
           /\ req[q].pc \in Listed => \A s \in Sessions : SeenOf(req[q], s)'
           /\ req[q].pc \in Chosen => ChosenOf(req[q])'
           /\ PageOf(req[q])'
  <2> SUFFICES ASSUME NEW q \in Requests, q # r
               PROVE  /\ \A i \in Items(req[q]) : ItemInv(q, req[q], i)'
                      /\ JobFiles(req[q])'
                      /\ req[q].pc \in Listed => \A s \in Sessions : SeenOf(req[q], s)'
                      /\ req[q].pc \in Chosen => ChosenOf(req[q])'
                      /\ PageOf(req[q])'
    OBVIOUS
  <2>1. PICK x \in Request : x = req[q] /\ x = req'[q]
    BY OwnParts, <1>0 DEF OthersKept
  <2>2. /\ \A i \in Items(x) : ItemInv(q, x, i)'
        /\ JobFiles(x)'
        /\ x.pc \in Listed => \A s \in Sessions : SeenOf(x, s)'
        /\ x.pc \in Chosen => ChosenOf(x)'
        /\ PageOf(x)'
    BY <1>4, <2>1, OwnParts
  <2> QED
    BY <2>1, <2>2
<1>6. /\ \A i \in Items(y) : ItemInv(r, y, i)'
      /\ JobFiles(y)'
      /\ y.pc \in Listed => \A s \in Sessions : SeenOf(y, s)'
      /\ y.pc \in Chosen => ChosenOf(y)'
      /\ PageOf(y)'
  <2>1. JobShape(y)
    BY DEF Moves
  <2> QED
    BY <1>4, <2>1
<1> QED
  BY <1>1, <1>5, <1>6, OthersInv

\* An idle request carries nothing.
LEMMA IdleFacts ==
  /\ Idle \in Request /\ Idle.pc = "idle" /\ Idle.job = <<>> /\ Items(Idle) = {}
  /\ \A s \in Sessions : Idle.seen.ckpt[s] = {}
BY IdleIsRequest DEF Idle, Items, Unseen

\* A request ends, its claims given back.
LEMMA EndInv ==
  ASSUME JournalInv, NEW r \in Requests, Moves(r), UNCHANGED <<body, head, ckpt, event>>,
         req'[r] = Idle, req[r].pc # "undoBodies",
         JournalTypes', ClaimsKept(r), \A s \in Sessions : claim'[s] # r
  PROVE  JournalInv'
<1> DEFINE y == Idle
<1>1. y \in Request /\ y = req'[r] /\ y.pc = "idle" /\ Items(y) = {} /\ Len(y.job) = 0
  BY IdleFacts
<1>2. NothingNewSeen
  BY IdleFacts DEF NothingNewSeen, Moves, OthersKept
<1>3. BusyKept(r) /\ UndoingKept(r)
  BY <1>1 DEF BusyKept, UndoingKept, Busy
<1> HIDE DEF y
<1>4. y.pc \notin Listed \cup Chosen
  BY <1>1 DEF Listed, Chosen
<1>5. JobFiles(y) /\ PageOf(y)
  BY <1>1 DEF JobFiles, PageOf
<1>6. ClaimOf(r, y)'
  BY <1>1 DEF ClaimOf, Busy, Publishing
<1>7. \A i \in Items(y) : ItemInv(r, y, i)
  BY <1>1
<1>8. \A j \in Items(req'[r]) :
           \/ HasItem(req[r], req'[r].job[j].s)
           \/ \A q \in Requests : ~HasItem(req[q], req'[r].job[j].s)
  BY <1>1
<1> QED
  BY <1>1, <1>2, <1>3, <1>4, <1>5, <1>6, <1>7, <1>8, LocalInv

\* A request that neither writes nor publishes holds no claim.
LEMMA Unclaimed ==
  ASSUME JournalInv, NEW r \in Requests,
         req[r].pc \notin Publishing \cup Busy \cup {"claim", "release"}
  PROVE  \A s \in Sessions : claim[s] # r
BY OwnParts DEF ClaimOf

\* A step of one request keeps the types.
LEMMA TypesStep ==
  ASSUME JournalTypes, NEW r \in Requests, Moves(r),
         body' \in [Sessions -> Contents \cup {None}], head' \in [Sessions -> Heads],
         ckpt' \in [Sessions -> SUBSET Files], event' \in [Sessions -> SUBSET Files],
         claim' \in [Sessions -> Requests \cup {None, Dead}],
         deaths' \in 0..MaxDeaths, failures' \in 0..MaxFailures
  PROVE  JournalTypes'
BY DEF JournalTypes, Moves

\* Another phase of the recovery of the same request.
LEMMA RecoveringItems ==
  ASSUME NEW r, NEW x, NEW y, y.job = x.job, x.pc \in Recovering, y.pc \in Recovering,
         NEW i, ItemInv(r, x, i)
  PROVE  ItemInv(r, y, i)
<1>1. Before(x, i)
  BY DEF Before
<1>2. ~Made(y, i) /\ y.pc \notin Undoing
  BY DEF Made, Undoing, Recovering, Listed
<1> QED
  BY <1>1, <1>2 DEF ItemInv

\* What its job says of the files, from one phase of its recovery to another.
LEMMA RecoveringJob ==
  ASSUME NEW x, NEW y, y.job = x.job, x.pc \in Recovering, y.pc \in Recovering, JobFiles(x)
  PROVE  JobFiles(y)
<1>1. /\ y.pc \notin Busy \cup {"claim"}
      /\ x.pc \notin {"head", "release"}
  BY DEF Recovering, Listed, Busy
<1> QED
  BY <1>1 DEF JobFiles

\* A step of a recovery from one listed phase to another.
LEMMA RecoverInv ==
  ASSUME JournalInv, NEW r \in Requests, Moves(r), UNCHANGED <<body, head, ckpt, event>>,
         JournalTypes', ClaimsKept(r),
         NEW y, y = req'[r], y.job = req[r].job, y.seen = req[r].seen,
         req[r].pc \in Listed, y.pc \in Listed, ClaimOf(r, y)',
         y.pc \in Chosen => ChosenOf(y)
  PROVE  JournalInv'
<1>1. y \in Request /\ req[r].pc \in Recovering /\ y.pc \in Recovering
  BY DEF Moves, Recovering
<1>2. NothingNewSeen
  BY DEF NothingNewSeen, Moves, OthersKept
<1>3. BusyKept(r) /\ UndoingKept(r)
  BY DEF BusyKept, UndoingKept, Listed, Busy
<1>4. \A i \in Items(y) : ItemInv(r, y, i)
  BY <1>1, OwnParts, RecoveringItems DEF Items
<1>5. JobFiles(y)
  BY <1>1, OwnParts, RecoveringJob
<1>6. \A s \in Sessions : SeenOf(y, s)
  BY OwnParts DEF SeenOf, Ahead
<1>7. PageOf(y)
  BY DEF PageOf, Listed
<1>8. \A j \in Items(req'[r]) :
           \/ HasItem(req[r], req'[r].job[j].s)
           \/ \A q \in Requests : ~HasItem(req[q], req'[r].job[j].s)
  BY DEF HasItem, Items
<1> QED
  BY <1>1, <1>2, <1>3, <1>4, <1>5, <1>6, <1>7, <1>8, LocalInv

\* A step after which r carries no record and has nothing listed.
LEMMA LooseInv ==
  ASSUME JournalInv, NEW r \in Requests, Moves(r), UNCHANGED <<body, head, ckpt, event>>,
         JournalTypes', ClaimsKept(r), \A s \in Sessions : claim'[s] # r,
         req[r].pc # "undoBodies",
         NEW y, y = req'[r], Len(y.job) = 0, y.pc \in {"idle", "list"} \cup Paging,
         y.seen.ckpt = req[r].seen.ckpt \/ y.seen = Unseen,
         PageOf(y)
  PROVE  JournalInv'
<1>1. y \in Request /\ Items(y) = {}
  BY DEF Moves, Items
<1>2. NothingNewSeen
  BY DEF NothingNewSeen, Moves, OthersKept, Unseen
<1>3. BusyKept(r) /\ UndoingKept(r)
  BY DEF BusyKept, UndoingKept, Busy, Paging
<1>4. y.pc \notin Listed \cup Chosen
  BY DEF Listed, Chosen, Paging
<1>5. JobFiles(y)
  BY DEF JobFiles
<1>6. ClaimOf(r, y)'
  BY <1>1 DEF ClaimOf, Busy, Publishing, Paging
<1>7. \A i \in Items(y) : ItemInv(r, y, i)
  BY <1>1
<1>8. \A j \in Items(req'[r]) :
           \/ HasItem(req[r], req'[r].job[j].s)
           \/ \A q \in Requests : ~HasItem(req[q], req'[r].job[j].s)
  BY <1>1
<1> QED
  BY <1>1, <1>2, <1>3, <1>4, <1>5, <1>6, <1>7, <1>8, LocalInv

\* BeginLoad keeps the invariant.
LEMMA BeginLoadInv ==
  ASSUME JournalInv, NEW r \in Requests, BeginLoad(r)
  PROVE  JournalInv'
<1>0. JournalTypes /\ ShapesInv /\ req[r].pc = "idle"
  BY InvParts DEF BeginLoad, At
<1>1. /\ UNCHANGED <<body, head, ckpt, event>> /\ UNCHANGED <<claim, deaths, failures>>
  BY DEF BeginLoad, files
<1>2. Moves(r) /\ PhaseOf(r, "list")
  BY <1>0, BeginLoadShape
<1>3. JournalTypes'
  BY <1>0, <1>1, <1>2, TypesStep DEF JournalTypes
<1>4. ClaimsKept(r) /\ \A s \in Sessions : claim'[s] # r
  BY <1>0, <1>1, Unclaimed DEF ClaimsKept, Publishing, Busy
<1>5. req[r] = Idle
  BY <1>0 DEF ShapesInv, JobShape
<1>6. Len(req'[r].job) = 0
  BY <1>2, <1>5, IdleFacts DEF PhaseOf
<1>7. PageOf(req'[r])
  BY <1>2 DEF PageOf, PhaseOf
<1> QED
  BY <1>0, <1>1, <1>2, <1>3, <1>4, <1>6, <1>7, LooseInv DEF PhaseOf

\* Records keeps the invariant.
LEMMA RecordsInv ==
  ASSUME JournalInv, NEW r \in Requests, Records(r)
  PROVE  JournalInv'
<1>0. JournalTypes /\ ShapesInv /\ req[r].pc = "records"
  BY InvParts DEF Records, At
<1>1. /\ UNCHANGED <<body, head, ckpt, event>> /\ UNCHANGED <<claim, deaths, failures>>
  BY DEF Records, files
<1>2. /\ Moves(r) /\ req'[r].pc = "index" /\ req'[r].seen = req[r].seen
      /\ req'[r].job = req[r].job
  BY <1>0, RecordsShape
<1>3. JournalTypes'
  BY <1>0, <1>1, <1>2, TypesStep DEF JournalTypes
<1>4. ClaimsKept(r) /\ \A s \in Sessions : claim'[s] # r
  BY <1>0, <1>1, Unclaimed DEF ClaimsKept, Publishing, Busy
<1>5. Len(req'[r].job) = 0
  BY <1>0, <1>2 DEF ShapesInv, JobShape, Paging
<1>6. PageOf(req'[r])
  BY <1>2 DEF PageOf
<1> QED
  BY <1>0, <1>1, <1>2, <1>3, <1>4, <1>5, <1>6, LooseInv DEF Paging

\* Index keeps the invariant.
LEMMA IndexInv ==
  ASSUME JournalInv, NEW r \in Requests, Index(r)
  PROVE  JournalInv'
<1>0. JournalTypes /\ ShapesInv /\ req[r].pc = "index" /\ BodyInv /\ ApprovalInv
  BY InvParts DEF Index, At
<1>1. /\ UNCHANGED <<body, head, ckpt, event>> /\ UNCHANGED <<claim, deaths, failures>>
  BY DEF Index, files
<1>2. /\ Moves(r)
      /\ \/ req'[r] = Idle
         \/ /\ req'[r].pc = "show" /\ req'[r].job = req[r].job
            /\ req'[r].seen.ckpt = req[r].seen.ckpt /\ req'[r].seen.head = head
            /\ req'[r].todo = {s \in Sessions : Indexed(s)}
  BY <1>0, IndexShape
<1>3. JournalTypes'
  BY <1>0, <1>1, <1>2, TypesStep DEF JournalTypes
<1>4. ClaimsKept(r) /\ \A s \in Sessions : claim'[s] # r
  BY <1>0, <1>1, Unclaimed DEF ClaimsKept, Publishing, Busy
<1>5. CASE req'[r] = Idle
  BY <1>0, <1>1, <1>2, <1>3, <1>4, <1>5, EndInv
<1>6. CASE /\ req'[r].pc = "show" /\ req'[r].job = req[r].job
           /\ req'[r].seen.ckpt = req[r].seen.ckpt /\ req'[r].seen.head = head
           /\ req'[r].todo = {s \in Sessions : Indexed(s)}
  <2>1. Len(req'[r].job) = 0
    BY <1>0, <1>6 DEF ShapesInv, JobShape, Paging
  <2>2. PageOf(req'[r])
    <3> SUFFICES ASSUME head[Draft].v > 0
                 PROVE  body[Draft] # None /\ Source \in req'[r].todo
      BY <1>6 DEF PageOf
    <3>1. body[Draft] # None
      <4>1. head[Draft].c # None
        BY <1>0, HeadFacts, NoneFacts
      <4>2. \A f \in Cand(Draft) : f.c # None
        BY <1>0, CkptFacts, NoneFacts DEF Cand
      <4> QED
        BY <1>0, <4>1, <4>2, NoneFacts DEF BodyInv
    <3>2. head[Source].v > 0
      BY <1>0, <3>1 DEF ApprovalInv, ApprovalStands
    <3> QED
      BY <1>6, <3>1, <3>2, NoneFacts DEF Indexed
  <2> QED
    BY <1>0, <1>1, <1>2, <1>3, <1>4, <1>6, <2>1, <2>2, LooseInv DEF Paging
<1> QED
  BY <1>2, <1>5, <1>6

\* Show keeps the invariant.
LEMMA ShowInv ==
  ASSUME JournalInv, NEW r \in Requests, Show(r)
  PROVE  JournalInv'
<1>0. JournalTypes /\ ShapesInv /\ req[r].pc = "show" /\ ApprovalInv /\ PageOf(req[r])
  BY InvParts, OwnParts DEF Show, At
<1>1. /\ UNCHANGED <<body, head, ckpt, event>> /\ UNCHANGED <<claim, deaths, failures>>
  BY DEF Show, files
<1>2. /\ Moves(r)
      /\ \/ req'[r] = Idle
         \/ \E s \in Sessions :
              /\ Matches(r, s) /\ req'[r].todo = req[r].todo \ {s}
              /\ req'[r].pc = "show" /\ req'[r].job = req[r].job
              /\ req'[r].seen = req[r].seen
  BY <1>0, ShowShape
<1>3. JournalTypes'
  BY <1>0, <1>1, <1>2, TypesStep DEF JournalTypes
<1>4. ClaimsKept(r) /\ \A s \in Sessions : claim'[s] # r
  BY <1>0, <1>1, Unclaimed DEF ClaimsKept, Publishing, Busy
<1>5. CASE req'[r] = Idle
  BY <1>0, <1>1, <1>2, <1>3, <1>4, <1>5, EndInv
<1>6. ASSUME NEW s \in Sessions, Matches(r, s), req'[r].todo = req[r].todo \ {s},
             req'[r].pc = "show", req'[r].job = req[r].job, req'[r].seen = req[r].seen
      PROVE  JournalInv'
  <2>1. Len(req'[r].job) = 0
    BY <1>0, <1>6 DEF ShapesInv, JobShape, Paging
  <2>2. PageOf(req'[r])
    <3> SUFFICES ASSUME req[r].seen.head[Draft].v > 0
                 PROVE  /\ body[Draft] # None
                        /\ req[r].seen.head[Source].c \in Approved \/ Source \in req'[r].todo
      BY <1>6 DEF PageOf
    <3>1. body[Draft] # None
      BY <1>0 DEF PageOf
    <3>2. CASE s = Source
      BY <1>0, <1>6, <3>1, <3>2 DEF ApprovalInv, ApprovalStands, Matches
    <3>3. CASE s # Source
      BY <1>0, <1>6, <3>1, <3>3 DEF PageOf
    <3> QED
      BY <3>2, <3>3
  <2> QED
    BY <1>0, <1>1, <1>2, <1>3, <1>4, <1>6, <2>1, <2>2, LooseInv DEF Paging
<1> QED
  BY <1>2, <1>5, <1>6

\* List keeps the invariant.
LEMMA ListInv ==
  ASSUME JournalInv, NEW r \in Requests, List(r)
  PROVE  JournalInv'
<1>0. JournalTypes /\ ShapesInv /\ FilesInv /\ req[r].pc = "list"
  BY InvParts DEF List, At
<1>1. /\ UNCHANGED <<body, head, ckpt, event>> /\ UNCHANGED <<claim, deaths, failures>>
  BY DEF List, files
<1>2. /\ Moves(r)
      /\ \/ req'[r] = Idle
         \/ /\ Authenticated /\ SameJob(req[r], req'[r]) /\ req'[r].pc = "check"
            /\ req'[r].seen = [ckpt |-> ckpt, event |-> event, head |-> head]
  BY <1>0, ListShape
<1>3. JournalTypes'
  BY <1>0, <1>1, <1>2, TypesStep DEF JournalTypes
<1>4. ClaimsKept(r) /\ \A s \in Sessions : claim'[s] # r
  BY <1>0, <1>1, Unclaimed DEF ClaimsKept, Publishing, Busy
<1>5. CASE req'[r] = Idle
  BY <1>0, <1>1, <1>2, <1>3, <1>4, <1>5, EndInv
<1>6. ASSUME NEW y, y = req'[r], SameJob(req[r], y), y.pc = "check",
             y.seen = [ckpt |-> ckpt, event |-> event, head |-> head]
      PROVE  JournalInv'
  <2>1. y \in Request /\ y.job = req[r].job /\ req[r].pc \in Recovering
        /\ y.pc \in Recovering
    BY <1>0, <1>2, <1>6 DEF Moves, SameJob, Recovering, Listed
  <2>2. NothingNewSeen
    BY <1>2, <1>6 DEF NothingNewSeen, Moves, OthersKept
  <2>3. BusyKept(r) /\ UndoingKept(r)
    BY <1>0, <1>6 DEF BusyKept, UndoingKept, Busy
  <2>4. \A i \in Items(y) : ItemInv(r, y, i)
    BY <2>1, OwnParts, RecoveringItems DEF Items
  <2>5. JobFiles(y)
    BY <2>1, OwnParts, RecoveringJob
  <2>6. ASSUME NEW s \in Sessions
        PROVE  SeenOf(y, s)
    <3>1. /\ y.seen.head[s] = head[s] /\ y.seen.ckpt[s] = ckpt[s]
          /\ Ahead(y, s) = Cand(s)
      BY <1>6 DEF Ahead, Cand
    <3>2. head[s].v \in Nat
      BY <1>0, HeadFacts
    <3>3. head[s].v > 0 => \E g \in ckpt[s] : g.v = head[s].v /\ g.c = head[s].c
      BY <1>0 DEF FilesInv
    <3>4. \A f \in Cand(s) : /\ f \in ckpt[s] /\ f.v = head[s].v + 1 /\ f.c # head[s].c
                             /\ \A g \in Cand(s) : g = f
      <4> TAKE f \in Cand(s)
      <4>1. /\ f \in ckpt[s] /\ f.v = head[s].v + 1 /\ \A g \in Cand(s) : g = f
        BY <1>0, CandVersion
      <4>2. f.c # head[s].c
        BY <1>0, <3>2, <4>1, HeadFile
      <4> QED
        BY <4>1, <4>2
    <3> QED
      BY <3>1, <3>2, <3>3, <3>4 DEF SeenOf
  <2>7. PageOf(y) /\ y.pc \notin Chosen
    BY <1>6 DEF PageOf, Chosen
  <2>8. ClaimOf(r, y)'
    BY <1>4, <1>6 DEF ClaimOf, Busy, Publishing
  <2>9. \A j \in Items(req'[r]) :
             \/ HasItem(req[r], req'[r].job[j].s)
             \/ \A q \in Requests : ~HasItem(req[q], req'[r].job[j].s)
    BY <1>6, <2>1 DEF HasItem, Items
  <2> QED
    BY <1>1, <1>2, <1>3, <1>4, <1>6, <2>1, <2>2, <2>3, <2>4, <2>5, <2>6, <2>7, <2>8, <2>9,
       LocalInv
<1> QED
  BY <1>2, <1>5, <1>6

\* A content that is nowhere in use is new.
LEMMA FreshNew ==
  ASSUME JournalTypes, NEW s \in Sessions, NEW c, c \notin InUse(s),
         NEW m, m.s = s, m.c = c, Requests # {}
  PROVE  Fresh(m)
<1>1. \A q \in Requests : \A f \in ckpt[s] \cup req[q].seen.ckpt[s] : f.c # c
  BY DEF InUse
<1>2. \A f \in ckpt[s] : f.c # c
  BY <1>1
<1>3. body[s] # c
  BY DEF InUse
<1> QED
  BY <1>1, <1>2, <1>3 DEF Fresh, Holds

\* Without rollback, a content that may be saved is new or the current one.
LEMMA SavableItem ==
  ASSUME ~Rollback, JournalTypes, FilesInv, NEW s \in Sessions, NEW c \in Savable(s),
         NEW m, m.s = s, m.c = c, Requests # {}
  PROVE  Fresh(m) \/ AtHead(m)
<1>1. CASE c \notin InUse(s)
  BY <1>1, FreshNew
<1>2. CASE c \in InUse(s)
  <2>1. PICK f \in ckpt[s] : f.c = c /\ f.v = head[s].v /\ body[s] = f.c
    BY <1>2 DEF Savable
  <2>2. f.v > 0
    BY CkptFacts
  <2>3. PICK g \in ckpt[s] : g.v = head[s].v /\ g.c = head[s].c
    BY <2>1, <2>2 DEF FilesInv
  <2>4. g = f
    BY <2>1, <2>3 DEF FilesInv
  <2> QED
    BY <2>1, <2>2, <2>3, <2>4 DEF AtHead
<1> QED
  BY <1>1, <1>2

\* A job of one item.
LEMMA OneItem ==
  ASSUME NEW m
  PROVE  Len(<<m>>) = 1 /\ 1..Len(<<m>>) = {1} /\ <<m>>[1] = m
<1>1. Len(<<m>>) = 1 /\ <<m>>[1] = m
  OBVIOUS
<1>2. 1..1 = {1}
  OBVIOUS
<1> QED
  BY <1>1, <1>2

\* A job of two items.
LEMMA TwoItems ==
  ASSUME NEW m, NEW d
  PROVE  Len(<<m, d>>) = 2 /\ 1..Len(<<m, d>>) = {1, 2} /\ <<m, d>>[1] = m
         /\ <<m, d>>[2] = d
<1>1. Len(<<m, d>>) = 2 /\ <<m, d>>[1] = m /\ <<m, d>>[2] = d
  OBVIOUS
<1>2. 1..2 = {1, 2}
  OBVIOUS
<1> QED
  BY <1>1, <1>2

\* BeginSave keeps the invariant.
LEMMA BeginSaveInv ==
  ASSUME ~Rollback, JournalInv, NEW r \in Requests, BeginSave(r)
  PROVE  JournalInv'
<1>0. JournalTypes /\ ShapesInv /\ FilesInv /\ req[r].pc = "idle"
  BY InvParts DEF BeginSave, At
<1>1. /\ UNCHANGED <<body, head, ckpt, event>> /\ UNCHANGED <<claim, deaths, failures>>
  BY DEF BeginSave, files
<1>2. /\ Moves(r)
      /\ \E s \in Sessions : \E c \in Savable(s) :
           /\ Open(s) /\ ~Writing(s) /\ c \in Contents
           /\ req'[r].job = <<[s |-> s, c |-> c, v |-> 0]>>
           /\ req'[r].pc = "list" /\ req'[r].seen = req[r].seen
  BY <1>0, BeginSaveShape
<1>a. PICK s \in Sessions : \E c \in Savable(s) :
           /\ Open(s) /\ ~Writing(s) /\ c \in Contents
           /\ req'[r].job = <<[s |-> s, c |-> c, v |-> 0]>>
           /\ req'[r].pc = "list" /\ req'[r].seen = req[r].seen
  BY <1>2
<1>b. PICK c \in Savable(s) :
           /\ Open(s) /\ ~Writing(s) /\ c \in Contents
           /\ req'[r].job = <<[s |-> s, c |-> c, v |-> 0]>>
           /\ req'[r].pc = "list" /\ req'[r].seen = req[r].seen
  BY <1>a
<1>3. JournalTypes'
  BY <1>0, <1>1, <1>2, TypesStep DEF JournalTypes
<1>4. ClaimsKept(r) /\ \A t \in Sessions : claim'[t] # r
  BY <1>0, <1>1, Unclaimed DEF ClaimsKept, Publishing, Busy
<1>5. PICK y : y = req'[r]
  OBVIOUS
<1>6. /\ y \in Request /\ y.pc = "list" /\ Len(y.job) = 1 /\ Items(y) = {1}
      /\ y.job[1].s = s /\ y.job[1].c = c
  <2> DEFINE m == [s |-> s, c |-> c, v |-> 0]
  <2>1. y \in Request /\ y.pc = "list" /\ y.job = <<m>>
    BY <1>2, <1>b, <1>5 DEF Moves
  <2>2. m.s = s /\ m.c = c
    OBVIOUS
  <2> HIDE DEF m
  <2> QED
    BY <2>1, <2>2, OneItem DEF Items
<1>7. NothingNewSeen
  BY <1>2, <1>b DEF NothingNewSeen, Moves, OthersKept
<1>8. BusyKept(r) /\ UndoingKept(r)
  BY <1>0, <1>5, <1>6 DEF BusyKept, UndoingKept, Busy
<1>9. Fresh(y.job[1]) \/ AtHead(y.job[1])
  BY <1>0, <1>6, SavableItem
<1>10. ItemInv(r, y, 1)
  BY <1>6, <1>9 DEF ItemInv, Before, Made, Undoing, Recovering
<1>11. JobFiles(y)
  BY <1>b, <1>6, NoneFacts DEF JobFiles, Open, Busy
<1>12. ClaimOf(r, y)'
  BY <1>4, <1>6 DEF ClaimOf, Busy, Publishing
<1>13. PageOf(y) /\ y.pc \notin Listed \cup Chosen
  BY <1>6 DEF PageOf, Listed, Chosen
<1>14. \A j \in Items(req'[r]) :
           \/ HasItem(req[r], req'[r].job[j].s)
           \/ \A q \in Requests : ~HasItem(req[q], req'[r].job[j].s)
  BY <1>b, <1>5, <1>6 DEF Writing, HasItem, Items
<1> QED
  BY <1>1, <1>2, <1>3, <1>4, <1>5, <1>6, <1>7, <1>8, <1>10, <1>11, <1>12, <1>13, <1>14,
     LocalInv

\* BeginApprove keeps the invariant.
LEMMA BeginApproveInv ==
  ASSUME ~Rollback, JournalInv, NEW r \in Requests, BeginApprove(r)
  PROVE  JournalInv'
<1>0. JournalTypes /\ ShapesInv /\ FilesInv /\ req[r].pc = "idle"
  BY InvParts DEF BeginApprove, At
<1>1. /\ UNCHANGED <<body, head, ckpt, event>> /\ UNCHANGED <<claim, deaths, failures>>
  BY DEF BeginApprove, files
<1>2. /\ Moves(r) /\ body[Draft] = None /\ ~Writing(Source) /\ ~Writing(Draft)
      /\ \E approval \in Approved \ InUse(Source), made \in Savable(Draft) :
           /\ req'[r].job = Pair(approval, made)
           /\ approval \in Contents /\ made \in Contents
           /\ req'[r].pc = "list" /\ req'[r].seen = req[r].seen
  BY <1>0, BeginApproveShape
<1>b. PICK approval \in Approved \ InUse(Source), made \in Savable(Draft) :
           /\ req'[r].job = Pair(approval, made)
           /\ req'[r].pc = "list" /\ req'[r].seen = req[r].seen
  BY <1>2
<1>3. JournalTypes'
  BY <1>0, <1>1, <1>2, TypesStep DEF JournalTypes
<1>4. ClaimsKept(r) /\ \A t \in Sessions : claim'[t] # r
  BY <1>0, <1>1, Unclaimed DEF ClaimsKept, Publishing, Busy
<1>5. PICK y : y = req'[r]
  OBVIOUS
<1>6. /\ y \in Request /\ y.pc = "list" /\ Len(y.job) = 2 /\ Items(y) = {1, 2}
      /\ y.job[1].s = Source /\ y.job[1].c = approval
      /\ y.job[2].s = Draft /\ y.job[2].c = made
  <2> DEFINE m == [s |-> Source, c |-> approval, v |-> 0]
             d == [s |-> Draft, c |-> made, v |-> 0]
  <2>1. y \in Request /\ y.pc = "list" /\ y.job = <<m, d>>
    BY <1>2, <1>b, <1>5 DEF Moves, Pair
  <2>2. m.s = Source /\ m.c = approval /\ d.s = Draft /\ d.c = made
    OBVIOUS
  <2> HIDE DEF m, d
  <2> QED
    BY <2>1, <2>2, TwoItems DEF Items
<1>7. NothingNewSeen
  BY <1>2, <1>b DEF NothingNewSeen, Moves, OthersKept
<1>8. BusyKept(r) /\ UndoingKept(r)
  BY <1>0, <1>5, <1>6 DEF BusyKept, UndoingKept, Busy
<1>9. /\ Fresh(y.job[2]) \/ AtHead(y.job[2])
      /\ Fresh(y.job[1])
  <2>1. Fresh(y.job[2]) \/ AtHead(y.job[2])
    BY <1>0, <1>6, NoneFacts, SavableItem
  <2>2. Fresh(y.job[1])
    BY <1>0, <1>6, NoneFacts, FreshNew
  <2> QED
    BY <2>1, <2>2
<1>10. \A i \in Items(y) : ItemInv(r, y, i)
  <2>1. \A i \in Items(y) : Fresh(y.job[i]) \/ AtHead(y.job[i])
    BY <1>6, <1>9
  <2>2. y.pc \in Recovering /\ y.pc \notin Undoing
    BY <1>6 DEF Recovering, Undoing
  <2>3. \A i \in Items(y) : ~Made(y, i)
    BY <1>6 DEF Made
  <2> QED
    BY <2>1, <2>2, <2>3 DEF ItemInv
<1>11. JobFiles(y)
  BY <1>2, <1>6 DEF JobFiles, Busy
<1>12. ClaimOf(r, y)'
  BY <1>4, <1>6 DEF ClaimOf, Busy, Publishing
<1>13. PageOf(y) /\ y.pc \notin Listed \cup Chosen
  BY <1>6 DEF PageOf, Listed, Chosen
<1>14. \A j \in Items(req'[r]) :
           \/ HasItem(req[r], req'[r].job[j].s)
           \/ \A q \in Requests : ~HasItem(req[q], req'[r].job[j].s)
  BY <1>2, <1>5, <1>6 DEF Writing, HasItem, Items
<1> QED
  BY <1>1, <1>2, <1>3, <1>4, <1>5, <1>6, <1>7, <1>8, <1>10, <1>11, <1>12, <1>13, <1>14,
     LocalInv

\* A set of one element is not empty.
LEMMA SomeElement ==
  ASSUME NEW S, Cardinality(S) = 1, S = {}
  PROVE  FALSE
BY FS_EmptySet

\* Check keeps the invariant.
LEMMA CheckInv ==
  ASSUME JournalInv, NEW r \in Requests, Check(r)
  PROVE  JournalInv'
<1>0. JournalTypes /\ ShapesInv /\ FilesInv /\ req[r].pc = "check" /\ ClaimInv
  BY InvParts DEF Check, At
<1>1. /\ UNCHANGED <<body, head, ckpt, event>> /\ UNCHANGED <<deaths, failures>>
  BY DEF Check
<1>2. /\ Moves(r) /\ claim' \in [Sessions -> Requests \cup {None, Dead}]
         /\ \/ /\ req'[r] = Idle
               /\ \A s \in Sessions : \/ claim'[s] = claim[s]
                                      \/ claim[s] \notin Requests /\ claim'[s] = None
            \/ \E s \in Sessions :
                 /\ claim[s] \notin Requests /\ claim' = [claim EXCEPT ![s] = None]
                 /\ Cardinality(Future(r, s)) = 1
                 /\ req'[r].pc = "compare" /\ req'[r].s = s /\ SameJob(req[r], req'[r])
                 /\ req'[r].seen = req[r].seen
  BY <1>0, CheckShape
<1>3. JournalTypes'
  BY <1>0, <1>1, <1>2, TypesStep DEF JournalTypes
<1>4. \A s \in Sessions : claim[s] # r
  BY <1>0, Unclaimed DEF Publishing, Busy
<1>5. CASE /\ req'[r] = Idle
           /\ \A s \in Sessions : \/ claim'[s] = claim[s]
                                  \/ claim[s] \notin Requests /\ claim'[s] = None
  <2>1. ClaimsKept(r) /\ \A s \in Sessions : claim'[s] # r
    BY <1>0, <1>4, <1>5, NoneFacts DEF ClaimsKept, JournalTypes
  <2> QED
    BY <1>0, <1>1, <1>2, <1>3, <1>5, <2>1, EndInv
<1>6. ASSUME NEW s \in Sessions, claim[s] \notin Requests,
             claim' = [claim EXCEPT ![s] = None],
             Cardinality(Future(r, s)) = 1, NEW y, y = req'[r],
             y.pc = "compare", y.s = s, SameJob(req[r], y), y.seen = req[r].seen
      PROVE  JournalInv'
  <2>1. ClaimsKept(r) /\ \A t \in Sessions : claim'[t] # r
    BY <1>0, <1>4, <1>6, NoneFacts DEF ClaimsKept, JournalTypes
  <2>2. ClaimOf(r, y)'
    BY <1>6, <2>1 DEF ClaimOf, Busy, Publishing
  <2>3. Ahead(y, s) = Future(r, s)
    BY <1>6 DEF Ahead, Future
  <2>4. Aim(y) \in Ahead(y, s)
    <3>1. Future(r, s) # {}
      BY <1>6, SomeElement
    <3> QED
      BY <1>6, <2>3, <3>1 DEF Aim
  <2>5. ASSUME NEW q \in Requests, req[q].pc \in Busy, NEW i \in Items(req[q])
        PROVE  req[q].job[i].s # s
    BY <1>0, <1>6, <2>5 DEF ClaimInv, ClaimOf
  <2>6. ChosenOf(y)
    BY <1>6, <2>4, <2>5 DEF ChosenOf, Dropping
  <2>7. y.pc \in Listed /\ req[r].pc \in Listed /\ y.job = req[r].job
    BY <1>0, <1>6 DEF Listed, SameJob
  <2> QED
    BY <1>1, <1>2, <1>3, <1>6, <2>1, <2>2, <2>6, <2>7, RecoverInv
<1> QED
  BY <1>2, <1>5, <1>6

\* A body that is still what the listing's head was: no later head is committed.
LEMMA AsHead ==
  ASSUME JournalTypes, DiskInv, NEW x \in Request, NEW s \in Sessions, SeenOf(x, s),
         body[s] = x.seen.head[s].c
  PROVE  x.seen.head[s] = head[s]
<1> DEFINE h == x.seen.head[s]
<1>0. h.v <= head[s].v /\ (h.v = head[s].v => h = head[s])
  BY DEF SeenOf
<1>1. /\ h.v \in Nat /\ head[s].v \in Nat /\ (h.v = 0 => h.c = None)
         /\ (h.v > 0 => h.c \in Contents)
  <2>1. h \in Heads
    BY DEF Request, Listing
  <2> QED
    BY <2>1, HeadFacts, JournalAssumption DEF Heads, NoHead
<1>2. SUFFICES ASSUME head[s].v > h.v
               PROVE  FALSE
  BY <1>0, <1>1
<1>3. /\ head[s].c \in Contents
      /\ \E k \in ckpt[s] : k.v = head[s].v /\ k.c = head[s].c
  BY <1>1, <1>2, HeadFacts DEF DiskInv, FilesInv
<1>4. CASE h.v = 0
  <2>1. body[s] = None
    BY <1>1, <1>4
  <2>2. \A f \in Cand(s) : f.c # None
    BY CkptFacts DEF Cand
  <2> QED
    BY <1>3, <2>1, <2>2, NoneFacts DEF DiskInv, BodyInv
<1>5. CASE h.v > 0
  <2>1. PICK g \in ckpt[s] : g.v = h.v /\ g.c = h.c
    BY <1>5 DEF SeenOf
  <2>2. body[s] # head[s].c
    BY <1>1, <1>2, <2>1, HeadFile DEF DiskInv
  <2>3. \A f \in Cand(s) : f.c # body[s]
    <3> SUFFICES ASSUME NEW f \in Cand(s), f.c = body[s]
                 PROVE  FALSE
      OBVIOUS
    <3>1. f = g
      BY <2>1 DEF DiskInv, FilesInv, Cand
    <3> QED
      BY <1>1, <1>2, <2>1, <3>1 DEF Cand
  <2>4. s = Source /\ body[s] \in Approved
    BY <2>2, <2>3 DEF DiskInv, BodyInv
  <2>5. g.v >= head[s].v
    BY <2>1, <2>4 DEF DiskInv, ApprovalInv
  <2> QED
    BY <1>1, <1>2, <2>1, <2>5
<1> QED
  BY <1>1, <1>4, <1>5

\* Compare keeps the invariant.
LEMMA CompareInv ==
  ASSUME JournalInv, NEW r \in Requests, Compare(r)
  PROVE  JournalInv'
<1>0. JournalTypes /\ ShapesInv /\ DiskInv /\ req[r].pc = "compare"
  BY InvParts DEF Compare, At
<1>1. /\ UNCHANGED <<body, head, ckpt, event>> /\ UNCHANGED <<claim, deaths, failures>>
  BY DEF Compare, files
<1>2. /\ Moves(r)
      /\ \/ req'[r] = Idle
         \/ \E ph \in {"publish", "dropEvent", "dropCheckpoint"} :
                Goto(r, ph) /\ PhaseOf(r, ph)
  BY <1>0, CompareShape
<1>3. JournalTypes'
  BY <1>0, <1>1, <1>2, TypesStep DEF JournalTypes
<1>4. ClaimsKept(r) /\ \A s \in Sessions : claim'[s] # r
  BY <1>0, <1>1, Unclaimed DEF ClaimsKept, Publishing, Busy
<1>5. CASE req'[r] = Idle
  BY <1>0, <1>1, <1>2, <1>3, <1>4, <1>5, EndInv
<1>6. ASSUME NEW ph \in {"publish", "dropEvent", "dropCheckpoint"}, Goto(r, ph),
             PhaseOf(r, ph),
             NEW y, y = req'[r]
      PROVE  JournalInv'
  <2>0. y.pc = ph /\ y.job = req[r].job /\ y.seen = req[r].seen /\ y.s = req[r].s
    BY <1>6 DEF PhaseOf
  <2>1. /\ ChosenOf(req[r]) /\ req[r].s \in Sessions /\ SeenOf(req[r], req[r].s)
        /\ req[r] \in Request
    <3>1. req[r].pc \in Chosen /\ req[r].pc \in Listed
      BY <1>0 DEF Chosen, Listed
    <3> QED
      BY <3>1, OwnParts DEF JobShape
  <2>2. Aim(y) = Aim(req[r]) /\ Ahead(y, y.s) = Ahead(req[r], req[r].s)
        /\ Candidate(r) = Aim(req[r])
    BY <2>0 DEF Aim, Ahead, Candidate, Future
  <2> DEFINE s == req[r].s
             f == Aim(req[r])
  <2>3. ph \in Dropping =>
          /\ body[s] = req[r].seen.head[s].c
          /\ ph = "dropEvent" => Named(req[r].seen.event[s], f) # {}
    <3>1. req'[r].pc = ph /\ ph # "idle"
      BY <1>6, <2>0
    <3>2. req[r].pc # ph
      BY <1>0, <1>6
    <3>3. \A p \in {"publish", "dropEvent", "dropCheckpoint"} : Goto(r, p) => p = ph
      BY <1>0, <1>6, <3>1 DEF Goto, JournalTypes, Request
    <3>4. ~End(r)
      BY <1>0, <3>1, EndStep, IdleFacts
    <3> QED
      BY <2>2, <3>3, <3>4 DEF Compare, Dropping
  <2>4. ph \in Dropping /\ f \in ckpt[s] => f.v > head[s].v /\ body[s] # f.c
    <3> SUFFICES ASSUME ph \in Dropping, f \in ckpt[s]
                 PROVE  f.v > head[s].v /\ body[s] # f.c
      OBVIOUS
    <3>1. req[r].seen.head[s] = head[s]
      BY <1>0, <2>1, <2>3, AsHead
    <3>2. f \in Ahead(req[r], s)
      BY <2>1 DEF ChosenOf
    <3>3. f.v > head[s].v
      BY <3>1, <3>2 DEF Ahead
    <3>4. f.c # body[s]
      BY <2>1, <2>3, <3>2 DEF SeenOf
    <3> QED
      BY <3>3, <3>4
  <2>5. ChosenOf(y)
    <3> HIDE DEF f, s
    <3> QED
      BY <2>0, <2>1, <2>2, <2>3, <2>4 DEF ChosenOf, f, s, Dropping
  <2>6. ClaimOf(r, y)'
    BY <1>4, <2>0 DEF ClaimOf, Busy, Publishing
  <2>7. y.pc \in Listed /\ req[r].pc \in Listed
    BY <1>0, <2>0 DEF Listed
  <2> QED
    BY <1>1, <1>2, <1>3, <1>4, <1>6, <2>0, <2>5, <2>6, <2>7, RecoverInv
<1> QED
  BY <1>2, <1>5, <1>6

-----------------------------------------------------------------------------
(* Steps that change the files of one session: recoveries.                 *)

\* A step of r that changes the files of one session.
LEMMA FileStep ==
  ASSUME JournalInv, NEW r \in Requests, Moves(r), JournalTypes', ClaimsKept(r),
         BusyKept(r),
         NothingNewSeen, DiskInv',
         NEW s \in Sessions,
         \A t \in Sessions : t # s => SameAt(t),
         head'[s].v >= head[s].v,
         \A q \in Requests : \A x \in Request : q # r /\ x = req[q] =>
           /\ \A i \in Items(x) : x.job[i].s = s => ItemInv(q, x, i)'
           /\ JobFiles(x)'
           /\ x.pc \in Listed => \A t \in Sessions : SeenOf(x, t)'
           /\ x.pc \in Dropping /\ x.s = s /\ Aim(x) \in ckpt'[s] =>
                Aim(x).v > head'[s].v /\ body'[s] # Aim(x).c,
         body[Draft] # None => body'[Draft] # None,
         \A j \in Items(req'[r]) :
           \/ HasItem(req[r], req'[r].job[j].s)
           \/ \A q \in Requests : ~HasItem(req[q], req'[r].job[j].s),
         NEW y, y = req'[r],
         \A i \in Items(y) : ItemInv(r, y, i)',
         JobFiles(y)', ClaimOf(r, y)',
         y.pc \in Listed => \A t \in Sessions : SeenOf(y, t)',
         y.pc \in Chosen => ChosenOf(y)',
         PageOf(y)'
  PROVE  JournalInv'
<1>0. JournalTypes /\ FilesInv /\ OthersKept(r) /\ head' \in [Sessions -> Heads]
  BY InvParts DEF Moves, JournalTypes
<1>1. ASSUME NEW q \in Requests, q # r
      PROVE  /\ \A i \in Items(req[q]) : ItemInv(q, req[q], i)'
             /\ JobFiles(req[q])'
             /\ req[q].pc \in Listed => \A t \in Sessions : SeenOf(req[q], t)'
             /\ req[q].pc \in Chosen => ChosenOf(req[q])'
             /\ PageOf(req[q])'
  <2>1. PICK x \in Request : x = req[q] /\ x = req'[q]
    BY <1>0, <1>1, OwnParts DEF OthersKept
  <2>2. /\ \A i \in Items(x) : ItemInv(q, x, i)
        /\ x.pc \in Listed => \A t \in Sessions : SeenOf(x, t)
        /\ x.pc \in Chosen => ChosenOf(x)
        /\ PageOf(x) /\ JobShape(x)
    BY <2>1, OwnParts
  <2>3. ASSUME NEW i \in Items(x)
        PROVE  ItemInv(q, x, i)'
    <3>1. x.job[i].s \in Sessions
      BY ItemType DEF Items
    <3>2. CASE x.job[i].s = s
      BY <1>1, <2>1, <3>2
    <3>3. CASE x.job[i].s # s
      BY <2>2, <3>1, <3>3, ItemKept
    <3> QED
      BY <3>2, <3>3
  <2>4. JobFiles(x)' /\ (x.pc \in Listed => \A t \in Sessions : SeenOf(x, t)')
    BY <1>1, <2>1
  <2>5. x.pc \in Chosen => ChosenOf(x)'
    <3> SUFFICES ASSUME x.pc \in Chosen
                 PROVE  ChosenOf(x)'
      OBVIOUS
    <3>1. x.s \in Sessions /\ x.pc \in Listed
      BY <2>2 DEF JobShape, Chosen, Listed
    <3>2. SeenOf(x, x.s) /\ ChosenOf(x)
      BY <2>2, <3>1
    <3>3. head'[x.s].v >= head[x.s].v
      <4>1. head[x.s].v \in Nat
        BY <1>0, <3>1, HeadFacts
      <4> QED
        BY <3>1, <4>1 DEF SameAt
    <3>4. x.pc \in Dropping /\ Aim(x) \in ckpt'[x.s] =>
           Aim(x).v > head'[x.s].v /\ body'[x.s] # Aim(x).c
      <4>1. CASE x.s = s
        BY <1>1, <2>1, <4>1
      <4>2. CASE x.s # s
        BY <3>1, <3>2, <4>2 DEF ChosenOf, SameAt
      <4> QED
        BY <4>1, <4>2
    <3>5. \E p \in Requests : x.seen.ckpt = req[p].seen.ckpt
      BY <2>1
    <3> QED
      BY <1>0, <3>1, <3>2, <3>3, <3>4, <3>5, ChosenKept
  <2>6. PageOf(x)'
    BY <2>2, PageKept
  <2> QED
    BY <2>1, <2>3, <2>4, <2>5, <2>6
<1> QED
  BY <1>1, OthersInv

\* A writer has its session to itself.
LEMMA Alone ==
  ASSUME Exclusive, NEW r \in Requests, NEW q \in Requests, q # r, NEW s, HasItem(req[r], s)
  PROVE  ~HasItem(req[q], s)
BY DEF Exclusive, HasItem

\* An approval writes both sessions.
LEMMA PairItems ==
  ASSUME NEW x \in Request, JobShape(x)
  PROVE  /\ Len(x.job) = 2 => HasItem(x, Source) /\ HasItem(x, Draft)
         /\ Len(x.job) = 1 => HasItem(x, x.job[1].s)
BY DEF JobShape, HasItem, Items

\* A writer keeps its claims from one phase to the next.
LEMMA WriterClaim ==
  ASSUME JournalInv, NEW r \in Requests, UNCHANGED claim,
         req[r].pc \in Busy, NEW y, SameItems(req[r], y), y.pc \in Busy \cup {"release"}
  PROVE  ClaimOf(r, y)'
<1> DEFINE x == req[r]
<1>1. ClaimOf(r, x)
  BY OwnParts
<1>2. /\ \A i \in Items(x) : claim[x.job[i].s] = r
      /\ \A t \in Sessions : claim[t] = r => HasItem(x, t)
  BY <1>1 DEF ClaimOf, Busy, Publishing
<1>3. Items(y) = Items(x) /\ \A i \in Items(x) : y.job[i].s = x.job[i].s
  BY DEF SameItems, Items
<1> HIDE DEF x
<1>4. /\ \A i \in Items(y) : claim'[y.job[i].s] = r
      /\ \A t \in Sessions : claim'[t] = r => HasItem(y, t)
  BY <1>2, <1>3 DEF HasItem
<1> QED
  BY <1>4 DEF ClaimOf, Busy, Publishing

\* A writer's step on one of the sessions it writes.
LEMMA WriterInv ==
  ASSUME JournalInv, NEW r \in Requests, Moves(r), JournalTypes', UNCHANGED claim,
         DiskInv',
         NEW s \in Sessions, HasItem(req[r], s),
         \A t \in Sessions : t # s => SameAt(t),
         head'[s].v >= head[s].v,
         \A q \in Requests : \A x \in Request : q # r /\ x = req[q] =>
           /\ x.pc \in Listed => \A t \in Sessions : SeenOf(x, t)'
           /\ x.pc \in Dropping /\ x.s = s /\ Aim(x) \in ckpt'[s] =>
                Aim(x).v > head'[s].v /\ body'[s] # Aim(x).c,
         body[Draft] # None => body'[Draft] # None,
         req[r].pc \in Busy, SameItems(req[r], req'[r]), req'[r].seen = req[r].seen,
         NEW y, y = req'[r], y.pc \in Busy \cup {"release"},
         \A i \in Items(y) : ItemInv(r, y, i)',
         JobFiles(y)'
  PROVE  JournalInv'
<1>0. /\ JournalTypes /\ FilesInv /\ OthersKept(r) /\ head' \in [Sessions -> Heads]
      /\ Exclusive
      /\ y \in Request
  BY InvParts DEF Moves, JournalTypes
<1>1. \A t \in Sessions : head'[t].v >= head[t].v
  <2>1. \A t \in Sessions : head[t].v \in Nat
    BY <1>0, HeadFacts
  <2> QED
    BY <2>1 DEF SameAt
<1>2. ASSUME NEW q \in Requests, NEW x \in Request, q # r, x = req[q]
      PROVE  (\A i \in Items(x) : x.job[i].s = s => ItemInv(q, x, i)') /\ JobFiles(x)'
  <2>1. ~HasItem(x, s)
    BY <1>0, <1>2, Alone
  <2>2. JobFiles(x) /\ JobShape(x)
    BY <1>2, OwnParts
  <2>3. JobFiles(x)'
    BY <1>0, <1>1, <2>1, <2>2, NoneFacts, JobFilesKept DEF SameAt
  <2> QED
    BY <2>1, <2>3 DEF HasItem
<1>3. ClaimsKept(r) /\ BusyKept(r)
  BY DEF ClaimsKept, BusyKept
<1>4. NothingNewSeen
  BY <1>0 DEF NothingNewSeen, OthersKept
<1>5. \A j \in Items(y) : HasItem(req[r], y.job[j].s)
  BY DEF SameItems, HasItem, Items
<1>6. ClaimOf(r, y)'
  BY WriterClaim
<1>7. y.pc \notin Listed \cup Chosen /\ PageOf(y)'
  BY DEF Busy, Listed, Chosen, PageOf
<1> QED
  BY <1>2, <1>3, <1>4, <1>5, <1>6, <1>7, FileStep

\* What a recovery at work on a candidate knows of it.
LEMMA ChosenFacts ==
  ASSUME JournalInv, NEW r \in Requests, req[r].pc \in Chosen
  PROVE  /\ req[r] \in Request /\ ChosenOf(req[r]) /\ req[r].s \in Sessions
         /\ SeenOf(req[r], req[r].s)
         /\ Candidate(r) = Aim(req[r]) /\ Aim(req[r]) \in Ahead(req[r], req[r].s)
         /\ Aim(req[r]) \in Files
         /\ req[r].pc \in Listed /\ req[r].pc \in Recovering
<1>1. req[r].pc \in Listed /\ req[r].pc \in Recovering
  BY DEF Chosen, Listed, Recovering
<1>2. req[r] \in Request /\ ChosenOf(req[r]) /\ req[r].s \in Sessions
      /\ SeenOf(req[r], req[r].s)
  BY <1>1, OwnParts DEF JobShape
<1>3. Candidate(r) = Aim(req[r])
  BY DEF Candidate, Aim, Future, Ahead
<1>4. Aim(req[r]) \in Ahead(req[r], req[r].s)
  BY <1>2 DEF ChosenOf
<1>5. Aim(req[r]) \in Files
  BY <1>2, <1>4 DEF Ahead, Request, Listing
<1> QED
  BY <1>1, <1>2, <1>3, <1>4, <1>5

\* PublishClaim keeps the invariant.
LEMMA PublishClaimInv ==
  ASSUME JournalInv, NEW r \in Requests, PublishClaim(r)
  PROVE  JournalInv'
<1>0. JournalTypes /\ ShapesInv /\ req[r].pc = "publish" /\ req[r].pc \in Chosen
  BY InvParts DEF PublishClaim, At, Chosen
<1>1. /\ UNCHANGED <<body, head, ckpt, event>> /\ UNCHANGED <<deaths, failures>>
  BY DEF PublishClaim
<1>2. /\ Moves(r) /\ req[r].s \in Sessions
      /\ claim' \in [Sessions -> Requests \cup {None, Dead}]
      /\ \/ req'[r] = Idle /\ UNCHANGED claim
         \/ /\ claim[req[r].s] = None /\ claim' = [claim EXCEPT ![req[r].s] = r]
            /\ PhaseOf(r, "publishHead")
  BY <1>0, PublishClaimShape
<1>3. JournalTypes'
  BY <1>0, <1>1, <1>2, TypesStep DEF JournalTypes
<1>4. \A s \in Sessions : claim[s] # r
  BY <1>0, Unclaimed DEF Publishing, Busy
<1>5. CASE req'[r] = Idle /\ UNCHANGED claim
  BY <1>0, <1>1, <1>2, <1>3, <1>4, <1>5, EndInv DEF ClaimsKept
<1>6. ASSUME claim[req[r].s] = None, claim' = [claim EXCEPT ![req[r].s] = r],
             PhaseOf(r, "publishHead"), NEW y, y = req'[r]
      PROVE  JournalInv'
  <2>0. y.pc = "publishHead" /\ y.job = req[r].job /\ y.seen = req[r].seen /\ y.s = req[r].s
    BY <1>6 DEF PhaseOf
  <2>1. ChosenOf(req[r])
    BY <1>0, ChosenFacts
  <2>2. Aim(y) = Aim(req[r]) /\ Ahead(y, y.s) = Ahead(req[r], req[r].s)
    BY <2>0 DEF Aim, Ahead
  <2>3. ChosenOf(y)
    BY <2>0, <2>1, <2>2 DEF ChosenOf, Dropping
  <2>4. ClaimsKept(r)
    BY <1>0, <1>6 DEF ClaimsKept, JournalTypes
  <2>5. ClaimOf(r, y)'
    BY <1>0, <1>2, <1>4, <1>6, <2>0 DEF ClaimOf, Busy, Publishing, JournalTypes
  <2>6. y.pc \in Listed /\ req[r].pc \in Listed
    BY <1>0, <2>0 DEF Listed
  <2> QED
    BY <1>1, <1>2, <1>3, <1>6, <2>0, <2>3, <2>4, <2>5, <2>6, RecoverInv
<1> QED
  BY <1>2, <1>5, <1>6

\* A publisher holds one claim, that of the session it publishes.
LEMMA PublisherClaim ==
  ASSUME JournalInv, NEW r \in Requests, req[r].pc \in Publishing
  PROVE  /\ claim[req[r].s] = r
         /\ \A s \in Sessions : claim[s] = r => s = req[r].s
BY OwnParts DEF ClaimOf, Publishing, Busy

\* PublishEnd keeps the invariant.
LEMMA PublishEndInv ==
  ASSUME JournalInv, NEW r \in Requests, PublishEnd(r)
  PROVE  JournalInv'
<1>0. JournalTypes /\ ShapesInv /\ req[r].pc = "publishEnd" /\ req[r].pc \in Publishing
  BY InvParts DEF PublishEnd, At, Publishing
<1>1. /\ UNCHANGED <<body, head, ckpt, event>> /\ UNCHANGED <<deaths, failures>>
      /\ claim' = [claim EXCEPT ![req[r].s] = None]
  BY DEF PublishEnd
<1>2. /\ Moves(r) /\ SameJob(req[r], req'[r]) /\ req'[r].pc = "check"
      /\ req'[r].seen = req[r].seen /\ req[r].s \in Sessions
      /\ claim' \in [Sessions -> Requests \cup {None, Dead}]
  BY <1>0, PublishEndShape
<1>3. JournalTypes'
  BY <1>0, <1>1, <1>2, TypesStep DEF JournalTypes
<1>4. claim[req[r].s] = r /\ \A s \in Sessions : claim[s] = r => s = req[r].s
  BY <1>0, PublisherClaim
<1>5. ClaimsKept(r) /\ \A s \in Sessions : claim'[s] # r
  BY <1>0, <1>1, <1>4, NoneFacts DEF ClaimsKept, JournalTypes
<1>6. PICK y : y = req'[r]
  OBVIOUS
<1>7. y.pc = "check" /\ y.job = req[r].job /\ y.seen = req[r].seen
  BY <1>2, <1>6 DEF SameJob
<1>8. ClaimOf(r, y)'
  BY <1>5, <1>7 DEF ClaimOf, Busy, Publishing
<1>9. y.pc \in Listed /\ req[r].pc \in Listed /\ y.pc \notin Chosen
  BY <1>0, <1>7 DEF Listed, Chosen
<1> QED
  BY <1>1, <1>2, <1>3, <1>5, <1>6, <1>7, <1>8, <1>9, RecoverInv

\* A candidate a publisher can still publish is on the disk.
LEMMA PublishedCandidate ==
  ASSUME JournalInv, NEW r \in Requests, req[r].pc = "publishHead",
         StillCandidate(r, req[r].s, Candidate(r))
  PROVE  Aim(req[r]) \in Cand(req[r].s) /\ body[req[r].s] = Aim(req[r]).c
<1> DEFINE s == req[r].s
           f == Aim(req[r])
<1>1. /\ SeenOf(req[r], s) /\ Candidate(r) = f /\ f \in Ahead(req[r], s) /\ s \in Sessions
      /\ claim[s] = r
  BY ChosenFacts, PublisherClaim DEF Chosen, Publishing
<1>2. head[s] = req[r].seen.head[s] /\ body[s] = f.c
  BY <1>1 DEF StillCandidate
<1>3. f.v > head[s].v
  BY <1>1, <1>2 DEF Ahead
<1>4. f \in ckpt[s]
  <2> SUFFICES ASSUME f \notin ckpt[s]
               PROVE  FALSE
    OBVIOUS
  <2>1. Torn(s, f.c)
    BY <1>1, <1>2 DEF SeenOf, Gone
  <2>2. PICK q \in Requests : req[q].pc = "undoBodies" /\ Len(req[q].job) = 2 /\ s = Source
    BY <2>1 DEF Torn
  <2>3. ClaimOf(q, req[q]) /\ JobShape(req[q])
    BY OwnParts
  <2>4. req[q].job[1].s = Source /\ 1 \in Items(req[q])
    BY <2>2, <2>3 DEF JobShape, Items
  <2>5. claim[Source] = q
    BY <2>2, <2>3, <2>4 DEF ClaimOf, Busy
  <2> QED
    BY <1>1, <2>2, <2>5
<1> QED
  BY <1>2, <1>3, <1>4 DEF Cand

\* The items of the others, when a head is published.
LEMMA PublishItem ==
  ASSUME JournalTypes, DiskInv, NothingNewSeen,
         NEW s \in Sessions, NEW f \in Cand(s), body[s] = f.c, UNCHANGED <<body, ckpt>>,
         NEW q, NEW x, NEW i, ItemInv(q, x, i), x.job[i].s = s, x.pc \notin Busy
  PROVE  ItemInv(q, x, i)' /\ x.pc # "claim"
<1> DEFINE m == x.job[i]
<1>1. ~Made(x, i) /\ x.pc \notin Undoing
  BY DEF Made, Undoing, Busy
<1>2. x.pc # "claim"
  BY DEF ItemInv, Before, Recovering, Listed
<1>3. Before(x, i) => x.pc \in Recovering
  BY <1>2 DEF Before, Busy
<1>4. Before(x, i) => Fresh(m)'
  <2> SUFFICES ASSUME Before(x, i)
               PROVE  Fresh(m)'
    OBVIOUS
  <2>1. Fresh(m) \/ AtHead(m)
    BY DEF ItemInv
  <2>2. ~AtHead(m)
    <3> SUFFICES ASSUME AtHead(m)
                 PROVE  FALSE
      OBVIOUS
    <3>1. f.c = head[s].c
      BY DEF AtHead
    <3>2. f \in ckpt[s] /\ f.v > head[s].v
      BY DEF Cand
    <3>3. f.v = head[s].v
      BY <3>1, <3>2, HeadFile DEF DiskInv
    <3> QED
      BY <3>2, <3>3, HeadFacts
  <2>3. Fresh(m) /\ m.s = s
    BY <2>1, <2>2
  <2>4. body'[m.s] # m.c /\ \A g \in ckpt'[m.s] : g \in ckpt[m.s] \/ g.c # m.c
    BY <2>3 DEF Fresh
  <2> HIDE DEF m
  <2> QED
    BY <2>3, <2>4, FreshKept
<1> QED
  BY <1>1, <1>2, <1>3, <1>4 DEF ItemInv

\* PublishHead keeps the invariant.
LEMMA PublishHeadInv ==
  ASSUME JournalInv, NEW r \in Requests, PublishHead(r)
  PROVE  JournalInv'
<1> DEFINE x == req[r]
           s == req[r].s
           f == Aim(req[r])
<1>0. /\ JournalTypes /\ ShapesInv /\ DiskInv /\ FilesInv /\ req[r].pc = "publishHead"
      /\ req[r].pc \in Publishing /\ req[r].pc \in Chosen
  BY InvParts DEF PublishHead, At, Publishing, Chosen
<1>1. /\ UNCHANGED <<body, ckpt, event>> /\ UNCHANGED <<deaths, failures>>
  BY DEF PublishHead
<1>2. /\ Moves(r) /\ s \in Sessions
      /\ claim' \in [Sessions -> Requests \cup {None, Dead}]
      /\ \/ /\ req'[r] = Idle /\ claim' = [claim EXCEPT ![s] = None]
            /\ UNCHANGED head
         \/ /\ UNCHANGED claim /\ PhaseOf(r, "publishEnd")
            /\ StillCandidate(r, s, Candidate(r))
            /\ head' = [head EXCEPT ![s] = [v |-> Candidate(r).v, c |-> Candidate(r).c]]
  BY <1>0, PublishHeadShape
<1>3. claim[s] = r /\ \A t \in Sessions : claim[t] = r => t = s
  BY <1>0, PublisherClaim
<1>4. CASE /\ req'[r] = Idle /\ claim' = [claim EXCEPT ![s] = None]
           /\ UNCHANGED head
  <2>1. JournalTypes'
    BY <1>0, <1>1, <1>2, <1>4, TypesStep DEF JournalTypes
  <2>2. ClaimsKept(r) /\ \A t \in Sessions : claim'[t] # r
    BY <1>0, <1>3, <1>4, NoneFacts DEF ClaimsKept, JournalTypes
  <2> QED
    BY <1>0, <1>1, <1>2, <1>4, <2>1, <2>2, EndInv
<1>5. ASSUME UNCHANGED claim, PhaseOf(r, "publishEnd"),
             StillCandidate(r, s, Candidate(r)),
             head' = [head EXCEPT ![s] = [v |-> Candidate(r).v, c |-> Candidate(r).c]],
             NEW y, y = req'[r]
      PROVE  JournalInv'
  <2>1. f \in Cand(s) /\ body[s] = f.c /\ f \in Files
    BY <1>0, <1>5, PublishedCandidate, ChosenFacts
  <2>2. head' = [head EXCEPT ![s] = [v |-> f.v, c |-> f.c]]
    BY <1>0, <1>5, ChosenFacts
  <2>3. y \in Request /\ y.pc = "publishEnd" /\ y.job = x.job /\ y.seen = x.seen
    BY <1>2, <1>5 DEF PhaseOf, Moves
  <2>4. f.v > head[s].v /\ head[s].v \in Nat /\ f.v \in Nat
    BY <1>0, <1>2, <2>1, FileFacts, HeadFacts DEF Cand
  <2> HIDE DEF f, s, x
  <2>5. head' \in [Sessions -> Heads]
    BY <1>0, <2>1, <2>2 DEF JournalTypes, Heads, Files
  <2>6. JournalTypes'
    BY <1>0, <1>1, <1>2, <1>5, <2>5, TypesStep DEF JournalTypes
  <2>7. DiskInv'
    BY <1>0, <1>1, <1>2, <2>1, <2>2, PublishDisk
  <2>8. \A t \in Sessions : t # s => SameAt(t)
    BY <1>0, <1>1, <1>2, <2>2 DEF SameAt, JournalTypes
  <2>9. head'[s].v >= head[s].v /\ head'[s].v = f.v
    BY <1>0, <1>2, <2>2, <2>4 DEF JournalTypes
  <2>10. BusyKept(r) /\ UndoingKept(r) /\ ClaimsKept(r)
    BY <1>0, <1>5, <2>3 DEF BusyKept, UndoingKept, ClaimsKept, Busy
  <2>11. NothingNewSeen
    BY <1>2, <1>5, <2>3 DEF NothingNewSeen, Moves, OthersKept, x
  <2>12. \A t \in Sessions : \A d : Torn(t, d) => Torn(t, d)'
    BY <1>2, <2>10, TornStep DEF Moves
  <2>13. ASSUME NEW z \in Request, NEW t \in Sessions, SeenOf(z, t)
         PROVE  SeenOf(z, t)'
    BY <1>0, <1>1, <1>2, <2>1, <2>2, <2>12, <2>13, PublishSeen
  <2>14. ASSUME NEW q \in Requests, NEW z \in Request, z = req[q], NEW i \in Items(z),
                z.job[i].s = s
         PROVE  ItemInv(q, z, i)' /\ z.pc \notin Busy \cup {"claim"}
    <3>1. ItemInv(q, z, i) /\ ClaimOf(q, z)
      BY <2>14, OwnParts
    <3>2. z.pc \notin Busy
      <4>1. CASE q = r
        BY <1>0, <2>14, <4>1 DEF Busy
      <4>2. CASE q # r
        BY <1>3, <2>14, <3>1, <4>2 DEF ClaimOf
      <4> QED
        BY <4>1, <4>2
    <3> QED
      BY <1>0, <1>1, <1>2, <2>1, <2>11, <2>14, <3>1, <3>2, PublishItem
  <2>15. \A t \in Sessions : head'[t].v >= head[t].v
    <3>1. \A t \in Sessions : head[t].v \in Nat
      BY <1>0, HeadFacts
    <3> QED
      BY <2>8, <2>9, <3>1 DEF SameAt
  <2>16. ASSUME NEW q \in Requests, NEW z \in Request, z = req[q]
         PROVE  JobFiles(z)'
    <3>1. JobFiles(z) /\ JobShape(z)
      BY <2>16, OwnParts
    <3>2. head'[Source].c = head[Source].c \/ ~HasItem(z, Source)
            \/ z.pc \notin Busy \cup {"claim"}
      <4>1. CASE s = Source
        BY <2>14, <2>16, <4>1 DEF HasItem
      <4>2. CASE s # Source
        BY <2>8, <4>2, NoneFacts DEF SameAt
      <4> QED
        BY <4>1, <4>2
    <3> QED
      BY <1>0, <1>1, <2>5, <2>15, <3>1, <3>2, NoneFacts, JobFilesKept
  <2>17. ASSUME NEW q \in Requests, NEW z \in Request, q # r, z = req[q]
         PROVE  /\ \A i \in Items(z) : z.job[i].s = s => ItemInv(q, z, i)'
                /\ JobFiles(z)'
                /\ z.pc \in Listed => \A t \in Sessions : SeenOf(z, t)'
                /\ z.pc \in Dropping /\ z.s = s /\ Aim(z) \in ckpt'[s] =>
                     Aim(z).v > head'[s].v /\ body'[s] # Aim(z).c
    <3>1. z.pc \in Listed => \A t \in Sessions : SeenOf(z, t)'
      BY <2>13, <2>17, OwnParts
    <3>2. z.pc \in Dropping /\ z.s = s /\ Aim(z) \in ckpt'[s] => FALSE
      <4> SUFFICES ASSUME z.pc \in Dropping, z.s = s, Aim(z) \in ckpt[s]
                   PROVE  FALSE
        BY <1>1
      <4>1. ChosenOf(z)
        BY <2>17, OwnParts DEF Dropping, Chosen
      <4>2. Aim(z) \in Cand(s) /\ body[s] # Aim(z).c
        BY <4>1 DEF ChosenOf, Cand
      <4>3. Aim(z) = f
        BY <1>0, <1>2, <2>1, <4>2, CandVersion
      <4> QED
        BY <2>1, <4>2, <4>3
    <3> QED
      BY <2>14, <2>16, <2>17, <3>1, <3>2
  <2>18. x \in Request /\ x = req[r] /\ x.pc \in Recovering /\ x.pc \in Listed
         /\ y.pc \in Recovering /\ y.pc \notin Chosen
    BY <1>0, <2>3, ChosenFacts DEF x, Recovering, Listed, Chosen
  <2>19. \A i \in Items(y) : ItemInv(r, y, i)'
    <3> SUFFICES ASSUME NEW i \in Items(y)
                 PROVE  ItemInv(r, y, i)'
      OBVIOUS
    <3>1. i \in Items(x) /\ y.job[i].s \in Sessions
      BY <2>3, ItemType DEF Items
    <3>2. ItemInv(r, y, i)
      BY <2>3, <2>18, <3>1, OwnParts, RecoveringItems
    <3>3. CASE y.job[i].s = s
      <4>1. y.pc \notin Busy
        BY <2>3 DEF Busy
      <4> QED
        BY <1>0, <1>1, <1>2, <2>1, <2>11, <3>2, <3>3, <4>1, PublishItem
    <3>4. CASE y.job[i].s # s
      BY <2>8, <2>11, <3>1, <3>2, <3>4, ItemKept
    <3> QED
      BY <3>3, <3>4
  <2>20. JobFiles(y)'
    <3>1. JobFiles(y) /\ JobShape(y)
      BY <1>2, <1>5, <2>3, <2>18, OwnParts, RecoveringJob DEF Moves
    <3>2. y.pc \notin Busy \cup {"claim"}
      BY <2>3 DEF Busy
    <3> QED
      BY <1>0, <1>1, <2>3, <2>5, <2>15, <3>1, <3>2, NoneFacts, JobFilesKept
  <2>21. ClaimOf(r, y)'
    <3>1. y.s = s
      BY <1>5 DEF PhaseOf, s
    <3> QED
      BY <1>3, <1>5, <2>3, <3>1 DEF ClaimOf, Busy, Publishing
  <2>22. \A t \in Sessions : SeenOf(y, t)'
    <3>1. \A t \in Sessions : SeenOf(y, t)
      BY <2>3, <2>18, OwnParts DEF SeenOf, Ahead
    <3> QED
      BY <2>3, <2>13, <3>1
  <2>23. PageOf(y)'
    BY <2>3 DEF PageOf
  <2>24. \A j \in Items(req'[r]) :
           \/ HasItem(req[r], req'[r].job[j].s)
           \/ \A q \in Requests : ~HasItem(req[q], req'[r].job[j].s)
    BY <1>5, <2>3 DEF HasItem, Items, x
  <2>25. body[Draft] # None => body'[Draft] # None
    BY <1>1
  <2>26. Moves(r) /\ s \in Sessions /\ y = req'[r] /\ y.pc \notin Chosen
    BY <1>2, <1>5, <2>18
  <2> QED
    BY <2>6, <2>7, <2>8, <2>9, <2>10, <2>11, <2>17, <2>19, <2>20, <2>21,
       <2>22, <2>23, <2>24, <2>25, <2>26, FileStep
<1> QED
  BY <1>2, <1>4, <1>5

\* A recovery that drops a file of the session it works on.
LEMMA DropInv ==
  ASSUME JournalInv, NEW r \in Requests, Moves(r), JournalTypes',
         UNCHANGED <<body, head, claim>>,
         DiskInv', req[r].pc \in Dropping,
         NEW s \in Sessions, s = req[r].s,
         \A t \in Sessions : t # s => SameAt(t),
         ckpt'[s] \subseteq ckpt[s],
         \A z \in Request : \A t \in Sessions : SeenOf(z, t) => SeenOf(z, t)',
         \A q \in Requests : \A z \in Request : \A i \in Items(z) :
           /\ z.job[i].s = s /\ ItemInv(q, z, i)
           /\ z = req[q] \/ z.pc \in Recovering
           => ItemInv(q, z, i)',
         NEW y, y = req'[r],
         \/ y = Idle
         \/ /\ y.pc \in Listed /\ y.job = req[r].job /\ y.seen = req[r].seen
            /\ y.pc \notin Publishing
            /\ y.pc \in Chosen => y.s = s /\ ChosenOf(y)
  PROVE  JournalInv'
<1>0. /\ JournalTypes /\ FilesInv /\ OthersKept(r) /\ head' \in [Sessions -> Heads]
      /\ y \in Request /\ JobShape(y)
      /\ UNCHANGED body /\ UNCHANGED head
  BY InvParts DEF Moves, JournalTypes
<1>1. \A t \in Sessions : head'[t].v >= head[t].v
  <2>1. \A t \in Sessions : head[t].v \in Nat
    BY <1>0, HeadFacts
  <2> QED
    BY <1>0, <2>1
<1>2. y.pc \notin Busy \cup Publishing \cup {"claim"}
  BY IdleFacts DEF Listed, Busy, Publishing
<1>3. BusyKept(r) /\ ClaimsKept(r)
  BY <1>2 DEF BusyKept, ClaimsKept
<1>4. NothingNewSeen
  BY <1>0, IdleFacts DEF NothingNewSeen, OthersKept
<1>5. ASSUME NEW z \in Request, JobFiles(z), JobShape(z)
      PROVE  JobFiles(z)'
  BY <1>0, <1>1, <1>5, NoneFacts, JobFilesKept
<1>6. ASSUME NEW q \in Requests, NEW z \in Request, q # r, z = req[q]
      PROVE  /\ \A i \in Items(z) : z.job[i].s = s => ItemInv(q, z, i)'
             /\ JobFiles(z)'
             /\ z.pc \in Listed => \A t \in Sessions : SeenOf(z, t)'
             /\ z.pc \in Dropping /\ z.s = s /\ Aim(z) \in ckpt'[s] =>
                  Aim(z).v > head'[s].v /\ body'[s] # Aim(z).c
  <2>1. /\ \A i \in Items(z) : ItemInv(q, z, i)
        /\ JobFiles(z) /\ JobShape(z)
        /\ z.pc \in Listed => \A t \in Sessions : SeenOf(z, t)
        /\ z.pc \in Chosen => ChosenOf(z)
    BY <1>6, OwnParts
  <2>2. z.pc \in Dropping /\ z.s = s /\ Aim(z) \in ckpt'[s] =>
          Aim(z).v > head'[s].v /\ body'[s] # Aim(z).c
    <3> SUFFICES ASSUME z.pc \in Dropping, z.s = s, Aim(z) \in ckpt'[s]
                 PROVE  Aim(z).v > head'[s].v /\ body'[s] # Aim(z).c
      OBVIOUS
    <3>1. ChosenOf(z) /\ Aim(z) \in ckpt[s]
      BY <2>1 DEF Chosen, Dropping
    <3> QED
      BY <1>0, <3>1 DEF ChosenOf
  <2> QED
    BY <1>5, <1>6, <2>1, <2>2
<1>7. \A i \in Items(y) : ItemInv(r, y, i)'
  <2> SUFFICES ASSUME NEW i \in Items(y)
               PROVE  ItemInv(r, y, i)'
    OBVIOUS
  <2>1. y # Idle
    BY IdleFacts
  <2>2. i \in Items(req[r]) /\ y.job[i].s \in Sessions /\ y.job = req[r].job
    BY <1>0, <2>1, ItemType DEF Items
  <2>3. y.pc \in Recovering /\ req[r].pc \in Recovering
    BY <2>1 DEF Recovering, Listed, Dropping
  <2>4. ItemInv(r, y, i)
    BY <2>2, <2>3, OwnParts, RecoveringItems
  <2>5. CASE y.job[i].s = s
    BY <1>0, <2>3, <2>4, <2>5
  <2>6. CASE y.job[i].s # s
    BY <1>4, <2>2, <2>4, <2>6, ItemKept
  <2> QED
    BY <2>5, <2>6
<1>8. JobFiles(y)'
  <2>1. CASE y = Idle
    BY <2>1, IdleFacts DEF JobFiles
  <2>2. CASE y # Idle
    <3>1. y.pc \in Recovering /\ req[r].pc \in Recovering
      BY <2>2 DEF Recovering, Listed, Dropping
    <3> QED
      BY <1>0, <1>5, <2>2, <3>1, OwnParts, RecoveringJob
  <2> QED
    BY <2>1, <2>2
<1>9. ClaimOf(r, y)'
  <2>1. \A t \in Sessions : claim[t] # r
    BY Unclaimed DEF Dropping, Publishing, Busy
  <2> QED
    BY <1>2, <2>1 DEF ClaimOf
<1>10. y.pc \in Listed => \A t \in Sessions : SeenOf(y, t)'
  <2> SUFFICES ASSUME y.pc \in Listed
               PROVE  \A t \in Sessions : SeenOf(y, t)'
    OBVIOUS
  <2>1. y.seen = req[r].seen /\ req[r].pc \in Listed
    BY IdleFacts DEF Listed, Dropping
  <2>2. \A t \in Sessions : SeenOf(y, t)
    BY <2>1, OwnParts DEF SeenOf, Ahead
  <2> QED
    BY <1>0, <2>2
<1>11. y.pc \in Chosen => ChosenOf(y)'
  <2> SUFFICES ASSUME y.pc \in Chosen
               PROVE  ChosenOf(y)'
    OBVIOUS
  <2>1. y.seen = req[r].seen /\ req[r].pc \in Listed /\ y.s = s /\ ChosenOf(y)
    BY IdleFacts DEF Chosen, Dropping, Listed
  <2>2. SeenOf(y, y.s)
    BY <2>1, OwnParts DEF SeenOf, Ahead
  <2>3. y.pc \in Dropping /\ Aim(y) \in ckpt'[y.s] =>
           Aim(y).v > head'[y.s].v /\ body'[y.s] # Aim(y).c
    BY <1>0, <2>1 DEF ChosenOf
  <2>4. \E p \in Requests : y.seen.ckpt = req[p].seen.ckpt
    BY <2>1
  <2> QED
    BY <1>0, <1>1, <1>3, <2>1, <2>2, <2>3, <2>4, ChosenKept
<1>12. PageOf(y)'
  BY IdleFacts DEF PageOf, Listed
<1>13. \A j \in Items(req'[r]) :
         \/ HasItem(req[r], req'[r].job[j].s)
         \/ \A q \in Requests : ~HasItem(req[q], req'[r].job[j].s)
  BY IdleFacts DEF HasItem, Items
<1>14. body[Draft] # None => body'[Draft] # None
  BY <1>0
<1>15. head'[s].v >= head[s].v
  BY <1>1
<1>16. \A q \in Requests : \A x \in Request : q # r /\ x = req[q] =>
         /\ \A i \in Items(x) : x.job[i].s = s => ItemInv(q, x, i)'
         /\ JobFiles(x)'
         /\ x.pc \in Listed => \A t \in Sessions : SeenOf(x, t)'
         /\ x.pc \in Dropping /\ x.s = s /\ Aim(x) \in ckpt'[s] =>
              Aim(x).v > head'[s].v /\ body'[s] # Aim(x).c
  BY <1>6
<1> QED
  BY <1>3, <1>4, <1>7, <1>8, <1>9, <1>10, <1>11, <1>12, <1>13, <1>14, <1>15, <1>16, FileStep

\* The items of a session, when a recovery removes a checkpoint of it.
LEMMA RemoveItem ==
  ASSUME JournalTypes, NothingNewSeen, UNCHANGED <<body, head, event>>,
         NEW s \in Sessions, NEW f,
         ckpt' = [ckpt EXCEPT ![s] = @ \ {f}],
         NEW q \in Requests, NEW x, NEW i, ItemInv(q, x, i), x.job[i].s = s,
         x.pc \in Busy /\ f \in ckpt[s] => x.job[i].c # f.c
  PROVE  ItemInv(q, x, i)'
<1> DEFINE m == x.job[i]
<1>1. ckpt'[s] = ckpt[s] \ {f} /\ ckpt'[s] \subseteq ckpt[s]
  BY DEF JournalTypes
<1>2. UNCHANGED body /\ UNCHANGED head /\ UNCHANGED event
  OBVIOUS
<1>3. Cand(s)' \subseteq Cand(s) /\ m.s = s
  BY <1>1, <1>2 DEF Cand
<1>4. Fresh(m) => Fresh(m)'
  <2> SUFFICES ASSUME Fresh(m)
               PROVE  Fresh(m)'
    OBVIOUS
  <2>1. body'[m.s] # m.c /\ \A g \in ckpt'[m.s] : g \in ckpt[m.s] \/ g.c # m.c
    BY <1>1, <1>2, <1>3 DEF Fresh
  <2> HIDE DEF m
  <2> QED
    BY <1>3, <2>1, FreshKept
<1>5. AtHead(m) => AtHead(m)'
  BY <1>2 DEF AtHead
<1>6. Kept(m) => Kept(m)'
  BY <1>2, <1>3, <1>5 DEF Kept
<1>7. Made(x, i) => x.pc \in Busy
  BY DEF Made, Busy
<1>8. Made(x, i) /\ InPlace(q, x, i, m) => InPlace(q, x, i, m)'
  <2> SUFFICES ASSUME Made(x, i), InPlace(q, x, i, m)
               PROVE  InPlace(q, x, i, m)'
    OBVIOUS
  <2>1. File(q, m) \in ckpt'[s]
    BY <1>1, <1>3, <1>7 DEF InPlace, File
  <2> QED
    BY <1>2, <1>3, <2>1 DEF InPlace
<1>9. Undone(q, x, m) => Undone(q, x, m)'
  BY <1>2, <1>3 DEF Undone
<1>10. Cand(m.s) = {} => Cand(m.s)' = {}
  BY <1>3
<1> HIDE DEF m
<1>11. /\ Before(x, i) => Fresh(m) \/ AtHead(m)
       /\ Before(x, i) /\ x.pc \notin Recovering => Cand(m.s) = {}
       /\ Made(x, i) => Kept(m) \/ InPlace(q, x, i, m)
       /\ x.pc \in Undoing => Undone(q, x, m)
  BY DEF ItemInv, m
<1>12. /\ Before(x, i) => Fresh(m)' \/ AtHead(m)'
       /\ Before(x, i) /\ x.pc \notin Recovering => Cand(m.s)' = {}
       /\ Made(x, i) => Kept(m)' \/ InPlace(q, x, i, m)'
       /\ x.pc \in Undoing => Undone(q, x, m)'
  BY <1>4, <1>5, <1>6, <1>8, <1>9, <1>10, <1>11
<1> QED
  BY <1>12 DEF ItemInv, m

\* The items of a session, when a recovery removes an event of it.
LEMMA ForgetItem ==
  ASSUME JournalTypes, NothingNewSeen, UNCHANGED <<body, head, ckpt>>,
         NEW s \in Sessions, NEW e,
         event' = [event EXCEPT ![s] = @ \ {e}],
         NEW q \in Requests, NEW x, NEW i, ItemInv(q, x, i), x.job[i].s = s,
         x.pc \in Busy /\ e.v > head[s].v => x.job[i].c # e.c
  PROVE  ItemInv(q, x, i)'
<1> DEFINE m == x.job[i]
<1>1. event'[s] = event[s] \ {e}
  BY DEF JournalTypes
<1>2. UNCHANGED body /\ UNCHANGED head /\ UNCHANGED ckpt
  OBVIOUS
<1>3. Cand(s)' = Cand(s) /\ m.s = s
  BY <1>2 DEF Cand
<1>4. Fresh(m) => Fresh(m)'
  <2> SUFFICES ASSUME Fresh(m)
               PROVE  Fresh(m)'
    OBVIOUS
  <2>1. body'[m.s] # m.c /\ \A g \in ckpt'[m.s] : g \in ckpt[m.s] \/ g.c # m.c
    BY <1>2, <1>3 DEF Fresh
  <2> HIDE DEF m
  <2> QED
    BY <1>3, <2>1, FreshKept
<1>5. AtHead(m) => AtHead(m)'
  BY <1>2 DEF AtHead
<1>6. Kept(m) => Kept(m)'
  BY <1>2, <1>3, <1>5 DEF Kept
<1>7. Made(x, i) => x.pc \in Busy
  BY DEF Made, Busy
<1>8. Made(x, i) /\ InPlace(q, x, i, m) => InPlace(q, x, i, m)'
  <2> SUFFICES ASSUME Made(x, i), InPlace(q, x, i, m)
               PROVE  InPlace(q, x, i, m)'
    OBVIOUS
  <2>0. File(q, m).v = m.v /\ File(q, m).c = m.c
    BY DEF File
  <2>1. ASSUME Told(x, i)
        PROVE  Named(event'[s], File(q, m)) # {}
    <3>1. PICK g \in event[s] : g.v = m.v /\ g.c = m.c
      BY <1>3, <2>0, <2>1 DEF InPlace, Named
    <3>2. m.v > head[s].v
      BY <1>3, HeadFacts DEF InPlace
    <3>3. g # e
      BY <1>7, <3>1, <3>2
    <3> HIDE DEF m
    <3> QED
      BY <1>1, <2>0, <3>1, <3>3 DEF Named
  <2> HIDE DEF m
  <2> QED
    BY <1>2, <1>3, <2>1 DEF InPlace
<1>9. Undone(q, x, m) => Undone(q, x, m)'
  BY <1>2, <1>3 DEF Undone
<1>10. Cand(m.s) = {} => Cand(m.s)' = {}
  BY <1>3
<1> HIDE DEF m
<1>11. /\ Before(x, i) => Fresh(m) \/ AtHead(m)
       /\ Before(x, i) /\ x.pc \notin Recovering => Cand(m.s) = {}
       /\ Made(x, i) => Kept(m) \/ InPlace(q, x, i, m)
       /\ x.pc \in Undoing => Undone(q, x, m)
  BY DEF ItemInv, m
<1>12. /\ Before(x, i) => Fresh(m)' \/ AtHead(m)'
       /\ Before(x, i) /\ x.pc \notin Recovering => Cand(m.s)' = {}
       /\ Made(x, i) => Kept(m)' \/ InPlace(q, x, i, m)'
       /\ x.pc \in Undoing => Undone(q, x, m)'
  BY <1>4, <1>5, <1>6, <1>8, <1>9, <1>10, <1>11
<1> QED
  BY <1>12 DEF ItemInv, m

\* DropEvent keeps the invariant.
LEMMA DropEventInv ==
  ASSUME JournalInv, NEW r \in Requests, DropEvent(r)
  PROVE  JournalInv'
<1> DEFINE x == req[r]
           s == req[r].s
           f == Aim(req[r])
           e == CHOOSE g \in Named(req[r].seen.event[s], f) : TRUE
<1>0. /\ JournalTypes /\ ShapesInv /\ JobsInv /\ DiskInv /\ FilesInv
      /\ req[r].pc = "dropEvent" /\ req[r].pc \in Chosen /\ req[r].pc \in Dropping
  BY InvParts DEF DropEvent, At, Chosen, Dropping
<1>1. /\ UNCHANGED <<body, head, ckpt, claim, deaths, failures>>
      /\ UNCHANGED body /\ UNCHANGED head /\ UNCHANGED ckpt /\ UNCHANGED claim
      /\ UNCHANGED deaths /\ UNCHANGED failures
  BY DEF DropEvent
<1>2. Moves(r) /\ (req'[r] = Idle \/ PhaseOf(r, "dropCheckpoint"))
  BY <1>0, DropEventShape
<1>3. /\ x \in Request /\ s \in Sessions /\ f \in Ahead(x, s)
      /\ ChosenOf(x) /\ SeenOf(x, s) /\ Candidate(r) = f
  BY <1>0, ChosenFacts
<1>4. event' = [event EXCEPT ![s] = @ \ {e}]
  BY <1>3 DEF DropEvent
<1>5. e.v = f.v /\ e.c = f.c
  <2>1. e \in Named(req[r].seen.event[s], f)
    BY <1>0, <1>3 DEF ChosenOf
  <2> HIDE DEF e, f
  <2> QED
    BY <2>1 DEF Named
<1>6. \A q \in Requests : req[q].pc \in Busy =>
        \A i \in Items(req[q]) : req[q].job[i].s = s /\ f.v > head[s].v =>
            req[q].job[i].c # f.c
  BY <1>3 DEF ChosenOf
<1>7. f \in ckpt[s] => body[s] # f.c
  BY <1>0, <1>3 DEF ChosenOf
<1> HIDE DEF e, f, s
<1>8. \A g \in ckpt[s] : g.v = e.v /\ g.c = e.c /\ body[s] = g.c => FALSE
  <2> SUFFICES ASSUME NEW g \in ckpt[s], g.v = e.v, g.c = e.c, body[s] = g.c
               PROVE  FALSE
    OBVIOUS
  <2>1. CASE f \in ckpt[s]
    BY <1>5, <1>7, <2>1
  <2>2. CASE Gone(s, f)
    BY <1>5, <2>2 DEF Gone, Holds
  <2> QED
    BY <1>3, <2>1, <2>2 DEF SeenOf
<1>9. DiskInv'
  <2>a. PICK D : D = {e}
    OBVIOUS
  <2>1. \A d \in D : \A g \in ckpt[s] : g.v = d.v /\ g.c = d.c /\ body[s] = g.c =>
          body[s] = head[s].c \/ Torn(s, g.c)
    BY <1>8, <2>a
  <2>2. UNCHANGED <<body, head, ckpt>> /\ s \in Sessions
    BY <1>1, <1>3
  <2>3. JournalTypes /\ DiskInv /\ ShapesInv /\ JobsInv
    BY <1>0
  <2>4. event' = [event EXCEPT ![s] = @ \ D]
    BY <1>4, <2>a
  <2> QED
    BY <2>1, <2>2, <2>3, <2>4, ForgetDisk
<1>10. JournalTypes'
  <2>1. event' \in [Sessions -> SUBSET Files]
    BY <1>0, <1>3, <1>4 DEF JournalTypes
  <2> QED
    BY <1>0, <1>1, <1>2, <2>1, TypesStep DEF JournalTypes
<1>11. PICK y : y = req'[r]
  OBVIOUS
<1>12. \/ y = Idle
       \/ /\ y.pc \in Listed /\ y.job = req[r].job /\ y.seen = req[r].seen
          /\ y.pc \notin Publishing
          /\ y.pc \in Chosen => y.s = s /\ ChosenOf(y)
  <2>1. CASE req'[r] = Idle
    BY <1>11, <2>1
  <2>2. CASE PhaseOf(r, "dropCheckpoint")
    <3>1. y.pc = "dropCheckpoint" /\ y.job = x.job /\ y.seen = x.seen /\ y.s = x.s
      BY <1>11, <2>2 DEF PhaseOf
    <3>2. Aim(y) = Aim(x) /\ Ahead(y, y.s) = Ahead(x, x.s)
      BY <3>1 DEF Aim, Ahead
    <3>3. ChosenOf(y)
      <4> HIDE DEF x
      <4> QED
        BY <1>0, <1>3, <3>1, <3>2 DEF ChosenOf, Dropping, x
    <3> QED
      BY <3>1, <3>3 DEF Listed, Publishing, s
  <2> QED
    BY <1>2, <2>1, <2>2
<1>13. \A t \in Sessions : t # s => SameAt(t)
  BY <1>0, <1>1, <1>4 DEF SameAt, JournalTypes
<1>14. NothingNewSeen
  BY <1>2, <1>11, <1>12, IdleFacts DEF NothingNewSeen, Moves, OthersKept
<1>15. \A z \in Request : \A t \in Sessions : SeenOf(z, t) => SeenOf(z, t)'
  <2>1. UndoingKept(r)
    BY <1>0 DEF UndoingKept
  <2>2. \A t, d : Torn(t, d) => Torn(t, d)'
    BY <1>2, <2>1, TornStep DEF Moves
  <2> QED
    BY <1>1, <2>2, SameSeen
<1>16. \A q \in Requests : \A z \in Request : \A i \in Items(z) :
         /\ z.job[i].s = s /\ ItemInv(q, z, i)
         /\ z = req[q] \/ z.pc \in Recovering
         => ItemInv(q, z, i)'
  <2> SUFFICES ASSUME NEW q \in Requests, NEW z \in Request, NEW i \in Items(z),
                      z.job[i].s = s, ItemInv(q, z, i), z = req[q] \/ z.pc \in Recovering
               PROVE  ItemInv(q, z, i)'
    OBVIOUS
  <2>1. z.pc \in Busy /\ e.v > head[s].v => z.job[i].c # e.c
    BY <1>5, <1>6 DEF Busy, Recovering, Listed
  <2> QED
    BY <1>0, <1>1, <1>3, <1>4, <1>14, <2>1, ForgetItem
<1>17. Moves(r) /\ ckpt'[s] \subseteq ckpt[s] /\ s = req[r].s
       /\ UNCHANGED <<body, head, claim>>
       /\ req[r].pc \in Dropping /\ s \in Sessions
  BY <1>0, <1>1, <1>2, <1>3 DEF s
<1> QED
  BY <1>9, <1>10, <1>11, <1>12, <1>13, <1>15, <1>16, <1>17, DropInv

\* DropCheckpoint keeps the invariant.
LEMMA DropCheckpointInv ==
  ASSUME JournalInv, NEW r \in Requests, DropCheckpoint(r)
  PROVE  JournalInv'
<1> DEFINE x == req[r]
           s == req[r].s
           f == Aim(req[r])
<1>0. /\ JournalTypes /\ ShapesInv /\ JobsInv /\ DiskInv /\ FilesInv
      /\ req[r].pc = "dropCheckpoint" /\ req[r].pc \in Chosen /\ req[r].pc \in Dropping
  BY InvParts DEF DropCheckpoint, At, Chosen, Dropping
<1>1. /\ UNCHANGED <<body, head, event, claim, deaths, failures>>
      /\ UNCHANGED body /\ UNCHANGED head /\ UNCHANGED event /\ UNCHANGED claim
      /\ UNCHANGED deaths /\ UNCHANGED failures
  BY DEF DropCheckpoint
<1>2. /\ Moves(r)
      /\ \/ req'[r] = Idle
         \/ /\ SameJob(req[r], req'[r]) /\ req'[r].pc = "check"
            /\ req'[r].seen = req[r].seen
  BY <1>0, DropCheckpointShape
<1>3. /\ x \in Request /\ s \in Sessions /\ f \in Ahead(x, s)
      /\ ChosenOf(x) /\ SeenOf(x, s) /\ Candidate(r) = f
  BY <1>0, ChosenFacts
<1>4. ckpt' = [ckpt EXCEPT ![s] = @ \ {f}]
  BY <1>3 DEF DropCheckpoint
<1>6. \A q \in Requests : req[q].pc \in Busy =>
        \A i \in Items(req[q]) : req[q].job[i].s = s /\ f.v > head[s].v =>
            req[q].job[i].c # f.c
  BY <1>3 DEF ChosenOf
<1>7. f \in ckpt[s] => f.v > head[s].v /\ body[s] # f.c
  BY <1>0, <1>3 DEF ChosenOf
<1> HIDE DEF f, s
<1>8. \A g \in ckpt[s] : g \in {f} => g.v > head[s].v /\ (body[s] = g.c => Torn(s, g.c))
  BY <1>7
<1>9. DiskInv'
  BY <1>0, <1>1, <1>3, <1>4, <1>8, RemoveDisk
<1>10. JournalTypes'
  <2>1. ckpt' \in [Sessions -> SUBSET Files]
    BY <1>0, <1>3, <1>4 DEF JournalTypes
  <2> QED
    BY <1>0, <1>1, <1>2, <2>1, TypesStep DEF JournalTypes
<1>11. PICK y : y = req'[r]
  OBVIOUS
<1>12. \/ y = Idle
       \/ /\ y.pc \in Listed /\ y.job = req[r].job /\ y.seen = req[r].seen
          /\ y.pc \notin Publishing
          /\ y.pc \in Chosen => y.s = s /\ ChosenOf(y)
  BY <1>2, <1>11 DEF Listed, Publishing, Chosen, SameJob
<1>13. \A t \in Sessions : t # s => SameAt(t)
  BY <1>0, <1>1, <1>4 DEF SameAt, JournalTypes
<1>14. NothingNewSeen
  BY <1>2, <1>11, <1>12, IdleFacts DEF NothingNewSeen, Moves, OthersKept
<1>15. \A z \in Request : \A t \in Sessions : SeenOf(z, t) => SeenOf(z, t)'
  <2>1. UndoingKept(r)
    BY <1>0 DEF UndoingKept
  <2>2. \A t, d : Torn(t, d) => Torn(t, d)'
    BY <1>2, <2>1, TornStep DEF Moves
  <2> QED
    BY <1>0, <1>1, <1>3, <1>4, <1>8, <2>2, RemoveSeen
<1>16. \A q \in Requests : \A z \in Request : \A i \in Items(z) :
         /\ z.job[i].s = s /\ ItemInv(q, z, i)
         /\ z = req[q] \/ z.pc \in Recovering
         => ItemInv(q, z, i)'
  <2> SUFFICES ASSUME NEW q \in Requests, NEW z \in Request, NEW i \in Items(z),
                      z.job[i].s = s, ItemInv(q, z, i), z = req[q] \/ z.pc \in Recovering
               PROVE  ItemInv(q, z, i)'
    OBVIOUS
  <2>1. z.pc \in Busy /\ f \in ckpt[s] => z.job[i].c # f.c
    BY <1>6, <1>7 DEF Busy, Recovering, Listed
  <2> QED
    BY <1>0, <1>1, <1>3, <1>4, <1>14, <2>1, RemoveItem
<1>17. Moves(r) /\ ckpt'[s] \subseteq ckpt[s] /\ s = req[r].s
       /\ UNCHANGED <<body, head, claim>>
       /\ req[r].pc \in Dropping /\ s \in Sessions
  BY <1>0, <1>1, <1>2, <1>3, <1>4 DEF s, JournalTypes
<1> QED
  BY <1>9, <1>10, <1>11, <1>12, <1>13, <1>15, <1>16, <1>17, DropInv

-----------------------------------------------------------------------------
(* Steps of writers.                                                       *)

\* Recheck keeps the invariant.
LEMMA RecheckInv ==
  ASSUME JournalInv, NEW r \in Requests, Recheck(r)
  PROVE  JournalInv'
<1>0. JournalTypes /\ ShapesInv /\ FilesInv /\ req[r].pc = "check"
  BY InvParts DEF Recheck, At
<1>1. /\ UNCHANGED <<body, head, ckpt, event>> /\ UNCHANGED <<claim, deaths, failures>>
  BY DEF Recheck, files
<1>2. /\ Moves(r)
      /\ \/ req'[r] = Idle
         \/ /\ req'[r].pc = "records" /\ req'[r].seen = Unseen
            /\ req'[r].job = req[r].job
         \/ /\ Settled /\ req'[r].pc = "claim" /\ req'[r].seen = Unseen
            /\ req'[r].job = req[r].job /\ req'[r].at = 1
            /\ req[r].goal = "approve" => req'[r].orig = head[Source].c
            /\ req'[r].goal = req[r].goal
  BY <1>0, RecheckShape
<1>3. JournalTypes'
  BY <1>0, <1>1, <1>2, TypesStep DEF JournalTypes
<1>4. ClaimsKept(r) /\ \A s \in Sessions : claim[s] # r /\ claim'[s] # r
  BY <1>0, <1>1, Unclaimed DEF ClaimsKept, Publishing, Busy
<1>5. CASE req'[r] = Idle
  BY <1>0, <1>1, <1>2, <1>3, <1>4, <1>5, EndInv
<1>6. CASE /\ req'[r].pc = "records" /\ req'[r].seen = Unseen
           /\ req'[r].job = req[r].job
  <2>1. Len(req'[r].job) = 0 /\ PageOf(req'[r])
    BY <1>2, <1>6 DEF Moves, JobShape, Paging, PageOf
  <2> QED
    BY <1>0, <1>1, <1>2, <1>3, <1>4, <1>6, <2>1, LooseInv DEF Paging
<1>7. ASSUME Settled, NEW y, y = req'[r], y.pc = "claim", y.seen = Unseen,
             y.job = req[r].job, y.at = 1,
             req[r].goal = "approve" => y.orig = head[Source].c
      PROVE  JournalInv'
  <2>0. y \in Request /\ JobShape(req[r]) /\ JobFiles(req[r]) /\ Items(y) = Items(req[r])
        /\ req[r].pc \in Recovering /\ req[r] \in Request
    BY <1>0, <1>2, <1>7, OwnParts DEF Moves, Items, Recovering, Listed
  <2>1. \A s \in Sessions : Cand(s) = {}
    <3> SUFFICES ASSUME NEW s \in Sessions, NEW f \in Cand(s)
                 PROVE  FALSE
      OBVIOUS
    <3>1. f.v \in Nat /\ head[s].v \in Nat /\ f \in ckpt[s] /\ f.v > head[s].v
      BY <1>0, CkptFacts, HeadFacts DEF Cand
    <3> QED
      BY <1>7, <3>1 DEF Settled
  <2>2. ASSUME NEW i \in Items(y)
        PROVE  ItemInv(r, y, i)
    <3>1. ItemInv(r, req[r], i) /\ Before(req[r], i)
      BY <2>0, OwnParts DEF Before
    <3>2. y.job[i].s \in Sessions
      BY <2>0, ItemType DEF Items
    <3>3. ~Made(y, i) /\ y.pc \notin Undoing
      BY <1>7 DEF Made, Undoing
    <3> QED
      BY <1>7, <2>1, <3>1, <3>2, <3>3 DEF ItemInv
  <2>3. JobFiles(y)
    <3>1. Len(y.job) = 2 => req[r].goal = "approve"
      BY <1>7, <2>0 DEF JobShape
    <3> QED
      BY <1>0, <1>7, <2>0, <3>1 DEF JobFiles
  <2>4. ClaimOf(r, y)'
    <3>1. \A i \in Items(y) : ~(i < 1)
      BY <2>0, ItemType DEF Items
    <3> QED
      BY <1>4, <1>7, <3>1 DEF ClaimOf, Busy, Publishing
  <2>5. PageOf(y) /\ y.pc \notin Listed \cup Chosen
    BY <1>7 DEF PageOf, Listed, Chosen
  <2>6. NothingNewSeen
    BY <1>2, <1>7 DEF NothingNewSeen, Moves, OthersKept, Unseen
  <2>7. BusyKept(r) /\ UndoingKept(r)
    BY <1>0, <1>7 DEF BusyKept, UndoingKept, Busy
  <2>8. \A j \in Items(req'[r]) :
           \/ HasItem(req[r], req'[r].job[j].s)
           \/ \A q \in Requests : ~HasItem(req[q], req'[r].job[j].s)
    BY <1>7, <2>0 DEF HasItem
  <2> QED
    BY <1>1, <1>2, <1>3, <1>4, <1>7, <2>0, <2>2, <2>3, <2>4, <2>5, <2>6, <2>7, <2>8,
       LocalInv
<1> QED
  BY <1>2, <1>5, <1>6, <1>7

\* AcquireClaim keeps the invariant.
LEMMA AcquireClaimInv ==
  ASSUME JournalInv, NEW r \in Requests, AcquireClaim(r)
  PROVE  JournalInv'
<1> DEFINE x == req[r]
           s == Item(r).s
<1>0. JournalTypes /\ ShapesInv /\ x.pc = "claim" /\ x.pc \in Busy \cup {"claim"}
  BY InvParts DEF AcquireClaim, At
<1>1. /\ UNCHANGED <<body, head, ckpt, event>> /\ UNCHANGED <<deaths, failures>>
  BY DEF AcquireClaim
<1>2. /\ Moves(r) /\ claim' \in [Sessions -> Requests \cup {None, Dead}]
      /\ req'[r].job = req[r].job /\ req'[r].goal = req[r].goal
      /\ req'[r].orig = req[r].orig /\ req'[r].seen = req[r].seen
      /\ \/ UNCHANGED claim /\ req'[r].pc = "release"
         \/ /\ claim[s] = None /\ claim' = [claim EXCEPT ![s] = r]
            /\ \/ Last(r) /\ req'[r].pc = "checkpoint" /\ req'[r].at = 1
               \/ ~Last(r) /\ req'[r].pc = "claim" /\ req'[r].at = req[r].at + 1
  BY <1>0, AcquireClaimShape
<1>3. JournalTypes'
  BY <1>0, <1>1, <1>2, TypesStep DEF JournalTypes
<1>4. /\ x \in Request /\ JobShape(x) /\ Len(x.job) \in 1..2 /\ x.at \in 1..Len(x.job)
      /\ s = x.job[x.at].s /\ s \in Sessions
  BY <1>0, AtItem
<1>5. PICK y : y = req'[r]
  OBVIOUS
<1>6. /\ y \in Request /\ y.job = x.job /\ y.orig = x.orig /\ y.seen = x.seen
      /\ y.pc \in {"release", "checkpoint", "claim"}
  BY <1>2, <1>5 DEF Moves
<1>7. JobFiles(x) /\ ClaimOf(r, x) /\ \A i \in Items(x) : ItemInv(r, x, i)
  BY OwnParts
<1> HIDE DEF s
<1>8. ClaimsKept(r)
  BY <1>0, <1>2, <1>4 DEF ClaimsKept, JournalTypes
<1>9. \A t \in Sessions : claim[t] = r => HasItem(x, t)
  BY <1>0, <1>7 DEF ClaimOf, Publishing
<1>10. \A i \in Items(x) : i < x.at => claim[x.job[i].s] = r
  BY <1>0, <1>7 DEF ClaimOf
<1>11. HasItem(x, s)
  BY <1>4 DEF HasItem, Items
<1> HIDE DEF x
<1>12. Items(y) = Items(x) /\ \A t : HasItem(y, t) <=> HasItem(x, t)
  BY <1>6 DEF Items, HasItem
<1>13. ASSUME NEW i \in Items(x)
       PROVE  /\ Fresh(x.job[i]) \/ AtHead(x.job[i])
              /\ Cand(x.job[i].s) = {}
              /\ x.job[i].s \in Sessions
  <2>1. Before(x, i) /\ x.pc \notin Recovering
    BY <1>0 DEF Before, Recovering, Listed
  <2> QED
    BY <1>4, <1>7, <2>1, ItemType DEF ItemInv, Items
<1>14. \A i \in Items(y) : ItemInv(r, y, i)
  <2> SUFFICES ASSUME NEW i \in Items(y)
               PROVE  ItemInv(r, y, i)
    OBVIOUS
  <2>1. y.pc \notin Undoing
    BY <1>6 DEF Undoing
  <2>2. ~Made(y, i)
    <3>1. y.pc = "checkpoint" => y.at = 1 /\ ~(i < 1)
      <4>1. i \in 1..2
        BY <1>6, ItemType DEF Items
      <4>2. ~(i < 1)
        BY <4>1
      <4> QED
        BY <1>2, <1>5, <4>2
    <3> QED
      BY <1>6, <3>1 DEF Made
  <2> QED
    BY <1>6, <1>12, <1>13, <2>1, <2>2 DEF ItemInv
<1>15. JobFiles(y)
  BY <1>0, <1>6, <1>7 DEF JobFiles
<1>16. ClaimOf(r, y)'
  <2>1. \A t \in Sessions : claim'[t] = r => HasItem(x, t)
    BY <1>0, <1>2, <1>4, <1>9, <1>11 DEF JournalTypes
  <2>2. y.pc = "claim" => \A i \in Items(x) : i < y.at => claim'[x.job[i].s] = r
    <3> SUFFICES ASSUME y.pc = "claim", NEW i \in Items(x), i < y.at
                 PROVE  claim'[x.job[i].s] = r
      OBVIOUS
    <3>1. y.at = x.at + 1 /\ claim' = [claim EXCEPT ![s] = r]
      BY <1>2, <1>5 DEF x
    <3>2. i \in 1..2 /\ x.at \in 1..2
      BY <1>4, ItemType DEF Items, Request
    <3>3. i < x.at \/ i = x.at
      BY <3>1, <3>2
    <3> QED
      BY <1>0, <1>4, <1>10, <1>13, <3>1, <3>3 DEF JournalTypes
  <2>3. y.pc = "checkpoint" => \A i \in Items(x) : claim'[x.job[i].s] = r
    <3> SUFFICES ASSUME y.pc = "checkpoint", NEW i \in Items(x)
                 PROVE  claim'[x.job[i].s] = r
      OBVIOUS
    <3>1. Last(r) /\ claim' = [claim EXCEPT ![s] = r]
      BY <1>2, <1>5 DEF x
    <3>2. x.at = Len(x.job)
      BY <3>1 DEF Last, x
    <3>3. i \in 1..Len(x.job) /\ Len(x.job) \in 1..2
      BY <1>4 DEF Items
    <3>4. \A n \in 1..2 : \A k \in 1..n : k < n \/ k = n
      OBVIOUS
    <3>5. i < x.at \/ i = x.at
      BY <3>2, <3>3, <3>4
    <3> QED
      BY <1>0, <1>4, <1>10, <1>13, <3>1, <3>5 DEF JournalTypes
  <2> QED
    BY <1>6, <1>12, <2>1, <2>2, <2>3 DEF ClaimOf, Busy, Publishing
<1>17. BusyKept(r) /\ UndoingKept(r)
  BY <1>0, <1>5, <1>6, <1>12, <1>13 DEF BusyKept, UndoingKept, Busy, x
<1>18. NothingNewSeen
  BY <1>2 DEF NothingNewSeen, Moves, OthersKept
<1>19. PageOf(y) /\ y.pc \notin Listed \cup Chosen
  BY <1>6 DEF PageOf, Listed, Chosen
<1>20. \A j \in Items(req'[r]) :
           \/ HasItem(req[r], req'[r].job[j].s)
           \/ \A q \in Requests : ~HasItem(req[q], req'[r].job[j].s)
  BY <1>5, <1>6, <1>12 DEF HasItem, x
<1> QED
  BY <1>1, <1>2, <1>3, <1>5, <1>6, <1>8, <1>14, <1>15, <1>16, <1>17, <1>18, <1>19, <1>20,
     LocalInv

\* A request that releases is done with its items.
LEMMA ReleaseItem ==
  ASSUME NEW r, NEW y, NEW i, y.pc = "release"
  PROVE  ItemInv(r, y, i)
BY DEF ItemInv, Before, Made, Undoing, Recovering, Listed

\* What the job of a request that releases says of the files.
LEMMA ReleaseJob ==
  ASSUME NEW x, NEW y, y.pc = "release", SameItems(x, y), JobFiles(x), Len(x.job) \in 1..2
  PROVE  JobFiles(y)
<1>1. Len(y.job) = Len(x.job) /\ (Len(x.job) = 1 => y.job[1].s = x.job[1].s)
  BY DEF SameItems
<1> QED
  BY <1>1 DEF JobFiles, Busy

\* A step of a writer that leaves bodies, heads, checkpoints and events alone.
LEMMA WriterLocal ==
  ASSUME JournalInv, NEW r \in Requests, Moves(r), UNCHANGED <<body, head, ckpt, event>>,
         UNCHANGED claim, JournalTypes', UndoingKept(r),
         req[r].pc \in Busy, SameItems(req[r], req'[r]), req'[r].seen = req[r].seen,
         NEW y, y = req'[r], y.pc \in Busy \cup {"release"},
         \A i \in Items(y) : ItemInv(r, y, i),
         JobFiles(y)
  PROVE  JournalInv'
<1>1. y \in Request
  BY DEF Moves
<1>2. ClaimOf(r, y)'
  BY WriterClaim
<1>3. NothingNewSeen
  BY DEF NothingNewSeen, Moves, OthersKept
<1>4. ClaimsKept(r) /\ BusyKept(r)
  BY DEF ClaimsKept, BusyKept
<1>5. y.pc \notin Listed \cup Chosen /\ PageOf(y)
  BY DEF Busy, Listed, Chosen, PageOf
<1>6. \A j \in Items(req'[r]) :
           \/ HasItem(req[r], req'[r].job[j].s)
           \/ \A q \in Requests : ~HasItem(req[q], req'[r].job[j].s)
  BY DEF SameItems, HasItem, Items
<1> QED
  BY <1>1, <1>2, <1>3, <1>4, <1>5, <1>6, LocalInv

\* A failing writer may undo each of its items, at whatever step it failed.
LEMMA UndoingItem ==
  ASSUME JournalTypes, FilesInv, NEW r \in Requests, NEW x \in Request, NEW y,
         NEW i \in Items(x),
         ItemInv(r, x, i), JobShape(x), y.job = x.job,
         \/ x.pc \in {"checkpoint", "event"} /\ y.pc = "undoJournal"
         \/ x.pc = "body" /\ y.pc = "undoBodies"
  PROVE  ItemInv(r, y, i)
<1> DEFINE m == x.job[i]
<1>1. m.s \in Sessions /\ i \in 1..2 /\ x.at \in 1..2
  BY ItemType DEF Items, Request
<1>2. ~Before(y, i) /\ ~Made(y, i) /\ y.pc \in Undoing
  BY DEF Before, Made, Undoing, Recovering, Listed
<1>3. Before(x, i) \/ Made(x, i)
  BY <1>1 DEF Before, Made
<1>4. x.pc \notin Recovering
  BY DEF Recovering, Listed
<1>5. CASE Before(x, i)
  <2>1. Cand(m.s) = {} /\ (Fresh(m) \/ AtHead(m))
    BY <1>4, <1>5 DEF ItemInv
  <2>2. body[m.s] = m.c => m.c = head[m.s].c
    BY <2>1 DEF Fresh, AtHead
  <2> QED
    BY <1>2, <2>1, <2>2 DEF ItemInv, Undone
<1>6. CASE Made(x, i)
  <2>1. CASE Kept(m)
    BY <1>2, <2>1 DEF ItemInv, Undone, Kept, AtHead
  <2>2. CASE InPlace(r, x, i, m)
    <3>0. File(r, m).v = m.v
      BY DEF File
    <3>1. File(r, m) \in Cand(m.s)
      BY <1>1, <2>2, <3>0, HeadFacts DEF InPlace, Cand
    <3>2. Cand(m.s) \subseteq {File(r, m)}
      BY <1>1, <3>1, CandVersion
    <3>3. CASE body[m.s] = m.c
      <4>1. x.pc = "body" /\ i < x.at
        BY <2>2, <3>3 DEF InPlace, Embodied
      <4>2. i = 1 /\ Len(x.job) = 2
        <5>1. Len(x.job) \in 0..2 /\ x.at <= Len(x.job)
          BY <4>1, JobType DEF JobShape, Busy
        <5>2. x.at = 2 /\ i = 1
          BY <1>1, <4>1
        <5>3. \A n \in 0..2 : 2 <= n => n = 2
          OBVIOUS
        <5>4. 2 <= Len(x.job)
          BY <5>1, <5>2
        <5> QED
          BY <5>1, <5>2, <5>3, <5>4
      <4>3. m.s = Source
        BY <4>2 DEF JobShape
      <4> QED
        BY <1>2, <3>2, <4>1, <4>2, <4>3 DEF ItemInv, Undone
    <3>4. CASE body[m.s] # m.c
      BY <1>2, <3>2, <3>4 DEF ItemInv, Undone
    <3> QED
      BY <3>3, <3>4
  <2> QED
    BY <1>6, <2>1, <2>2 DEF ItemInv
<1> QED
  BY <1>3, <1>5, <1>6

\* Release keeps the invariant.
LEMMA ReleaseInv ==
  ASSUME JournalInv, NEW r \in Requests, Release(r)
  PROVE  JournalInv'
<1>0. JournalTypes /\ ShapesInv /\ req[r].pc = "release"
  BY InvParts DEF Release, At
<1>1. /\ UNCHANGED <<body, head, ckpt, event>> /\ UNCHANGED <<deaths, failures>>
  BY DEF Release
<1>2. /\ claim' \in [Sessions -> Requests \cup {None, Dead}] /\ Moves(r)
      /\ \/ /\ UNCHANGED req
            /\ \E s \in Held(r) : claim' = [claim EXCEPT ![s] = None]
         \/ /\ UNCHANGED claim /\ Held(r) = {}
            /\ req'[r].job = <<>> /\ req'[r].seen = Unseen
            /\ req'[r].pc \in {"idle", "list"}
  BY <1>0, ReleaseShape
<1>3. JournalTypes'
  BY <1>0, <1>1, <1>2, TypesStep DEF JournalTypes
<1>4. ASSUME UNCHANGED req, NEW s \in Held(r), claim' = [claim EXCEPT ![s] = None]
      PROVE  JournalInv'
  <2>1. PICK y : y = req'[r] /\ y = req[r]
    BY <1>4
  <2>2. ClaimsKept(r)
    BY <1>0, <1>4, NoneFacts DEF ClaimsKept, JournalTypes, Held
  <2>3. /\ y \in Request /\ JobFiles(y) /\ ClaimOf(r, y) /\ PageOf(y)
        /\ \A i \in Items(y) : ItemInv(r, y, i)
    BY <2>1, OwnParts
  <2>4. \A t \in Sessions : claim'[t] = r => claim[t] = r
    BY <1>0, <1>4, NoneFacts DEF JournalTypes
  <2>5. ClaimOf(r, y)'
    BY <1>0, <2>1, <2>3, <2>4 DEF ClaimOf, Busy, Publishing
  <2>6. NothingNewSeen
    BY <1>4 DEF NothingNewSeen
  <2>7. BusyKept(r) /\ UndoingKept(r)
    BY <1>0, <1>4 DEF BusyKept, UndoingKept, Busy
  <2>8. y.pc \notin Listed \cup Chosen
    BY <1>0, <2>1 DEF Listed, Chosen
  <2>9. \A j \in Items(req'[r]) :
           \/ HasItem(req[r], req'[r].job[j].s)
           \/ \A q \in Requests : ~HasItem(req[q], req'[r].job[j].s)
    BY <1>4 DEF HasItem
  <2> QED
    BY <1>1, <1>2, <1>3, <2>1, <2>2, <2>3, <2>5, <2>6, <2>7, <2>8, <2>9, LocalInv
<1>5. CASE /\ UNCHANGED claim /\ Held(r) = {}
           /\ req'[r].job = <<>> /\ req'[r].seen = Unseen
           /\ req'[r].pc \in {"idle", "list"}
  <2>1. ClaimsKept(r) /\ \A s \in Sessions : claim'[s] # r
    BY <1>5 DEF ClaimsKept, Held
  <2>2. Len(req'[r].job) = 0
    BY <1>5, IdleFacts
  <2>3. PageOf(req'[r])
    BY <1>5 DEF PageOf
  <2> QED
    BY <1>0, <1>1, <1>2, <1>3, <1>5, <2>1, <2>2, <2>3, LooseInv
<1> QED
  BY <1>2, <1>4, <1>5

\* Two items of one job are of two sessions.
LEMMA DistinctItems ==
  ASSUME NEW x \in Request, JobShape(x), NEW i \in Items(x), NEW j \in Items(x), i # j
  PROVE  x.job[i].s # x.job[j].s /\ Len(x.job) = 2
<1>1. Len(x.job) \in 0..2
  BY JobType
<1>2. \A n \in 0..2 : \A a, b \in 1..n : a # b =>
          n = 2 /\ ((a = 1 /\ b = 2) \/ (a = 2 /\ b = 1))
  OBVIOUS
<1>3. Len(x.job) = 2 /\ ((i = 1 /\ j = 2) \/ (i = 2 /\ j = 1))
  BY <1>1, <1>2 DEF Items
<1> QED
  BY <1>3, NoneFacts DEF JobShape

\* What its job says of the files, from one phase of a writing to another.
LEMMA BusyJob ==
  ASSUME NEW x \in Request, NEW y, x.pc \in Busy \ {"head"}, y.pc \in Busy, SameItems(x, y),
         y.orig = x.orig, JobFiles(x)
  PROVE  JobFiles(y)
<1>1. /\ Len(y.job) = Len(x.job) /\ Len(x.job) \in 0..2
      /\ Len(x.job) = 1 => y.job[1].s = x.job[1].s
  BY JobType DEF SameItems
<1>2. x.pc \notin {"head", "release"}
  BY DEF Busy
<1> QED
  BY <1>1, <1>2 DEF JobFiles

\* The items that are not at hand, from a checkpoint to its event.
LEMMA OtherItem ==
  ASSUME NEW x \in Request, NEW r, NEW y, NEW i \in Items(x), i # x.at,
         x.pc = "checkpoint", y.pc = "event", y.at = x.at, y.job[i] = x.job[i],
         ItemInv(r, x, i)
  PROVE  ItemInv(r, y, i)
<1> DEFINE m == x.job[i]
<1>1. i \in 1..2 /\ x.at \in 1..2
  BY ItemType DEF Items, Request
<1>2. /\ Before(y, i) <=> Before(x, i)
      /\ Made(y, i) <=> Made(x, i)
  BY <1>1 DEF Before, Made, Recovering, Listed
<1>3. y.pc \notin Undoing /\ x.pc \notin Recovering /\ y.pc \notin Recovering
  BY DEF Undoing, Recovering, Listed
<1>4. Made(x, i) /\ InPlace(r, x, i, m) => InPlace(r, y, i, m)
  BY <1>1 DEF Made, InPlace, Told, Embodied
<1> HIDE DEF m
<1>5. y.job[i] = m /\ x.job[i] = m
  BY DEF m
<1> QED
  BY <1>2, <1>3, <1>4, <1>5 DEF ItemInv

\* A content the committed head already names is current, not new.
LEMMA HeadIsCurrent ==
  ASSUME JournalTypes, FilesInv, NEW m, m.s \in Sessions, m.c \in Contents,
         head[m.s].c = m.c,
         Fresh(m) \/ AtHead(m)
  PROVE  AtHead(m) /\ head[m.s].v > 0
<1>1. head[m.s].v > 0
  BY HeadFacts, NoneFacts
<1>2. PICK g \in ckpt[m.s] : g.c = m.c
  BY <1>1 DEF FilesInv
<1> QED
  BY <1>1, <1>2 DEF Fresh, Holds

\* A source that is being written is not approved yet.
LEMMA SourceOpen ==
  ASSUME JournalInv, NEW r \in Requests, req[r].pc \in Busy \cup {"claim"},
         HasItem(req[r], Source)
  PROVE  head[Source].c \notin Approved
<1> DEFINE x == req[r]
<1>1. x \in Request /\ JobShape(x) /\ JobFiles(x) /\ ApprovalInv
  BY OwnParts, InvParts
<1>2. Len(x.job) \in 0..2
  BY <1>1, JobType
<1>3. CASE Len(x.job) = 2
  BY <1>1, <1>3 DEF JobShape, JobFiles
<1>4. CASE Len(x.job) = 1
  <2>1. x.job[1].s = Source
    <3>1. PICK i \in Items(x) : x.job[i].s = Source
      BY DEF HasItem
    <3>2. \A k \in 1..1 : k = 1
      OBVIOUS
    <3>3. i = 1
      BY <1>4, <3>1, <3>2 DEF Items
    <3> QED
      BY <3>1, <3>3
  <2>2. body[Source] \notin Approved
    BY <1>1, <1>4, <2>1 DEF JobFiles
  <2> QED
    BY <1>1, <2>2 DEF ApprovalInv
<1>5. CASE Len(x.job) = 0
  <2>1. \A k \in 1..0 : FALSE
    OBVIOUS
  <2> QED
    BY <1>5, <2>1 DEF HasItem, Items
<1> QED
  BY <1>2, <1>3, <1>4, <1>5

\* WriteCheckpoint keeps the invariant.
LEMMA WriteCheckpointInv ==
  ASSUME JournalInv, NEW r \in Requests, WriteCheckpoint(r)
  PROVE  JournalInv'
<1> DEFINE x == req[r]
           m == Item(r)
           s == Item(r).s
           f == [v |-> PlannedVersion(Item(r).s, Item(r).c), c |-> Item(r).c, by |-> r]
<1>0. /\ JournalTypes /\ ShapesInv /\ JobsInv /\ FilesInv /\ DiskInv
      /\ x.pc = "checkpoint" /\ x.pc \in Busy
  BY InvParts DEF WriteCheckpoint, At, Busy
<1>1. /\ UNCHANGED <<body, head, event>> /\ UNCHANGED <<claim, deaths>>
      /\ UNCHANGED body /\ UNCHANGED head /\ UNCHANGED event
  BY DEF WriteCheckpoint
<1>2. /\ Moves(r) /\ ckpt' \in [Sessions -> SUBSET Files]
      /\ failures' \in 0..MaxFailures
      /\ req'[r].goal = req[r].goal /\ req'[r].orig = req[r].orig
      /\ req'[r].seen = req[r].seen
      /\ \/ /\ UNCHANGED ckpt /\ req'[r].pc = "undoJournal"
            /\ req'[r].job = req[r].job /\ req'[r].at = req[r].at
         \/ /\ req'[r].pc = "event" /\ req'[r].at = req[r].at
            /\ Versioned(req[r], req'[r], f.v)
            /\ f \in Files
            /\ \/ head[s].c = f.c /\ UNCHANGED ckpt
               \/ head[s].c # f.c /\ ckpt' = [ckpt EXCEPT ![s] = @ \cup {f}]
  BY <1>0, WriteCheckpointShape
<1>3. JournalTypes'
  BY <1>0, <1>1, <1>2, TypesStep DEF JournalTypes
<1>4. /\ x \in Request /\ JobShape(x) /\ Len(x.job) \in 1..2 /\ x.at \in Items(x)
      /\ m = x.job[x.at] /\ s = m.s /\ s \in Sessions /\ m.c \in Contents
  BY <1>0, AtItem DEF Items
<1>5. JobFiles(x) /\ \A i \in Items(x) : ItemInv(r, x, i)
  BY OwnParts
<1>6. PICK y : y = req'[r]
  OBVIOUS
<1>7. y \in Request /\ y.orig = x.orig /\ y.seen = x.seen /\ y.at = x.at
  BY <1>2, <1>6 DEF Moves
<1>8. UndoingKept(r)
  BY <1>0 DEF UndoingKept
<1>9. (Fresh(m) \/ AtHead(m)) /\ Cand(s) = {} /\ HasItem(x, s)
  <2>1. Before(x, x.at) /\ x.pc \notin Recovering
    <3>1. x.at \in 1..2
      BY <1>4 DEF Request
    <3> QED
      BY <1>0, <3>1 DEF Before, Recovering, Listed
  <2> QED
    BY <1>4, <1>5, <2>1 DEF ItemInv, HasItem
<1>10. CASE /\ UNCHANGED ckpt /\ y.pc = "undoJournal"
            /\ y.job = x.job
  <2>1. SameItems(x, y)
    BY <1>10 DEF SameItems
  <2>2. \A i \in Items(y) : ItemInv(r, y, i)
    <3>1. Items(y) = Items(x)
      BY <1>10 DEF Items
    <3> QED
      BY <1>0, <1>4, <1>5, <1>10, <3>1, UndoingItem
  <2>3. JobFiles(y) /\ y.pc \in Busy
    BY <1>0, <1>4, <1>5, <1>7, <1>10, <2>1, BusyJob DEF Busy
  <2>4. UNCHANGED <<body, head, ckpt, event>> /\ UNCHANGED claim
    BY <1>1, <1>10
  <2> QED
    BY <1>0, <1>2, <1>3, <1>6, <1>7, <1>8, <2>1, <2>2, <2>3, <2>4, WriterLocal
<1>11. ASSUME y.pc = "event", Versioned(x, y, f.v), f \in Files,
              \/ head[s].c = f.c /\ UNCHANGED ckpt
              \/ head[s].c # f.c /\ ckpt' = [ckpt EXCEPT ![s] = @ \cup {f}]
       PROVE  JournalInv'
  <2>1. SameItems(x, y) /\ Items(y) = Items(x)
    BY <1>11 DEF Versioned, SameItems, Items
  <2>2. JobFiles(y) /\ y.pc \in Busy
    BY <1>0, <1>4, <1>5, <1>7, <1>11, <2>1, BusyJob DEF Busy
  <2>3. \A i \in Items(x) : i # x.at => ItemInv(r, y, i) /\ y.job[i] = x.job[i]
    <3> SUFFICES ASSUME NEW i \in Items(x), i # x.at
                 PROVE  ItemInv(r, y, i) /\ y.job[i] = x.job[i]
      OBVIOUS
    <3>1. y.job[i] = x.job[i]
      BY <1>11 DEF Versioned, Items
    <3> QED
      BY <1>0, <1>4, <1>5, <1>7, <1>11, <3>1, OtherItem
  <2>4. PICK k : k = y.job[x.at]
    OBVIOUS
  <2>5. k.s = s /\ k.c = m.c /\ k.v = f.v
    <3>1. x.at \in 1..Len(x.job)
      BY <1>4 DEF Items
    <3> QED
      BY <1>4, <1>11, <2>4, <3>1 DEF Versioned, SameItems
  <2>6. ~Before(y, x.at) /\ y.pc \notin Undoing /\ ~Told(y, x.at) /\ ~Embodied(y, x.at)
    <3>1. x.at \in 1..2 /\ ~(x.at > x.at) /\ ~(x.at < x.at)
      BY <1>4 DEF Request
    <3> QED
      BY <1>7, <1>11, <3>1 DEF Before, Undoing, Told, Embodied, Recovering, Listed
  <2>7. CASE head[s].c = f.c /\ UNCHANGED ckpt
    <3>1. AtHead(m) /\ head[s].v > 0
      BY <1>0, <1>4, <1>9, <2>7, HeadIsCurrent
    <3>2. k.v = head[s].v
      BY <2>5, <2>7 DEF PlannedVersion
    <3>3. Kept(k)
      BY <1>4, <1>9, <2>5, <3>1, <3>2 DEF Kept, AtHead
    <3>4. ItemInv(r, y, x.at)
      BY <2>4, <2>6, <3>3 DEF ItemInv
    <3>5. \A i \in Items(y) : ItemInv(r, y, i)
      BY <2>1, <2>3, <3>4
    <3>6. UNCHANGED <<body, head, ckpt, event>> /\ UNCHANGED claim
      BY <1>1, <2>7
    <3> QED
      BY <1>0, <1>2, <1>3, <1>6, <1>7, <1>8, <2>1, <2>2, <3>5, <3>6, WriterLocal
  <2>8. CASE head[s].c # f.c /\ ckpt' = [ckpt EXCEPT ![s] = @ \cup {f}]
    <3>1. Fresh(m)
      BY <1>4, <1>9, <2>8 DEF AtHead
    <3>2. f.v = head[s].v + 1 /\ f.c = m.c /\ f = File(r, k) /\ f \in Files
      BY <1>11, <2>5, <2>8 DEF PlannedVersion, File
    <3> HIDE DEF f, m, s, x
    <3>3. ckpt'[s] = ckpt[s] \cup {f} /\ \A t \in Sessions : t # s => SameAt(t)
      BY <1>0, <1>1, <1>4, <2>8 DEF JournalTypes, SameAt
    <3>4. DiskInv'
      <4>1. ~Holds(s, f.c)
        BY <1>4, <3>1, <3>2 DEF Fresh
      <4>2. s = Source => head[Source].c \notin Approved
        BY <1>0, <1>9, SourceOpen DEF x
      <4>3. UNCHANGED <<body, head, event>> /\ Cand(s) = {} /\ s \in Sessions
        BY <1>1, <1>4, <1>9
      <4> QED
        BY <1>0, <2>8, <3>2, <4>1, <4>2, <4>3, AddDisk
    <3>5. \A t, d : Torn(t, d) => Torn(t, d)'
      BY <1>2, <1>8, TornStep DEF Moves
    <3>6. \A q \in Requests : \A z \in Request : q # r /\ z = req[q] =>
           /\ z.pc \in Listed => \A t \in Sessions : SeenOf(z, t)'
           /\ z.pc \in Dropping /\ z.s = s /\ Aim(z) \in ckpt'[s] =>
                Aim(z).v > head'[s].v /\ body'[s] # Aim(z).c
      <4> SUFFICES ASSUME NEW q \in Requests, NEW z \in Request, q # r, z = req[q]
                   PROVE  /\ z.pc \in Listed => \A t \in Sessions : SeenOf(z, t)'
                          /\ z.pc \in Dropping /\ z.s = s /\ Aim(z) \in ckpt'[s] =>
                               Aim(z).v > head'[s].v /\ body'[s] # Aim(z).c
        OBVIOUS
      <4>1. \A g \in z.seen.ckpt[s] : g.c # f.c
        BY <1>4, <3>1, <3>2 DEF Fresh
      <4>2. z.pc \in Listed => \A t \in Sessions : SeenOf(z, t)'
        <5> SUFFICES ASSUME z.pc \in Listed, NEW t \in Sessions
                     PROVE  SeenOf(z, t)'
          OBVIOUS
        <5>1. SeenOf(z, t)
          BY OwnParts
        <5>2. UNCHANGED <<body, head>>
          BY <1>1
        <5> QED
          BY <1>0, <1>4, <2>8, <3>2, <3>5, <4>1, <5>1, <5>2, AddSeen
      <4>3. z.pc \in Dropping /\ z.s = s /\ Aim(z) \in ckpt'[s] =>
              Aim(z).v > head'[s].v /\ body'[s] # Aim(z).c
        <5> SUFFICES ASSUME z.pc \in Dropping, z.s = s, Aim(z) \in ckpt'[s]
                     PROVE  Aim(z).v > head'[s].v /\ body'[s] # Aim(z).c
          OBVIOUS
        <5>1. ChosenOf(z)
          BY OwnParts DEF Dropping, Chosen
        <5>2. Aim(z) \in z.seen.ckpt[s]
          BY <5>1 DEF ChosenOf, Ahead
        <5>3. Aim(z) \in ckpt[s]
          BY <3>3, <4>1, <5>2
        <5> QED
          BY <1>1, <5>1, <5>3 DEF ChosenOf
      <4> QED
        BY <4>2, <4>3
    <3>0. PICK a : a = x.at
      OBVIOUS
    <3>a. ~Before(y, a) /\ y.pc \notin Undoing /\ ~Told(y, a) /\ ~Embodied(y, a)
          /\ k = y.job[a]
      BY <2>4, <2>6, <3>0
    <3>7. ItemInv(r, y, a)'
      <4>1. k.s = s /\ k.c = m.c /\ k.v = head[s].v + 1 /\ body[s] # m.c
        BY <1>4, <2>5, <3>1, <3>2 DEF Fresh
      <4>2. InPlace(r, y, a, k)'
        BY <1>1, <3>a, <3>2, <3>3, <4>1 DEF InPlace
      <4> QED
        BY <3>a, <4>2 DEF ItemInv
    <3>8. NothingNewSeen
      BY <1>2 DEF NothingNewSeen, Moves, OthersKept
    <3>9. \A i \in Items(y) : ItemInv(r, y, i)'
      <4> SUFFICES ASSUME NEW i \in Items(y), i # a
                   PROVE  ItemInv(r, y, i)'
        BY <3>7
      <4>1. ItemInv(r, y, i) /\ y.job[i] = x.job[i]
        BY <2>1, <2>3, <3>0
      <4>2. y.job[i].s # s /\ y.job[i].s \in Sessions
        BY <1>4, <2>1, <3>0, <4>1, DistinctItems, ItemType DEF Items
      <4> QED
        BY <3>3, <3>8, <4>1, <4>2, ItemKept
    <3>10. JobFiles(y)'
      <4>1. head' \in [Sessions -> Heads] /\ JobShape(y) /\ head'[Draft].v >= head[Draft].v
        BY <1>0, <1>1, <1>2, <1>6, HeadFacts, NoneFacts DEF Moves, JournalTypes
      <4> QED
        BY <1>0, <1>1, <1>7, <2>2, <4>1, JobFilesKept
    <3>11. head'[s].v >= head[s].v /\ (body[Draft] # None => body'[Draft] # None)
      BY <1>0, <1>1, <1>4, HeadFacts
    <3>12. /\ Moves(r) /\ UNCHANGED claim /\ s \in Sessions /\ HasItem(req[r], s)
           /\ req[r].pc \in Busy /\ SameItems(req[r], req'[r]) /\ req'[r].seen = req[r].seen
           /\ y.pc \in Busy \cup {"release"}
      BY <1>0, <1>1, <1>2, <1>4, <1>6, <1>9, <2>1, <2>2 DEF x
    <3> QED
      BY <1>3, <1>6, <3>3, <3>4, <3>6, <3>9, <3>10, <3>11, <3>12, WriterInv
  <2> QED
    BY <1>11, <2>7, <2>8
<1> QED
  BY <1>2, <1>6, <1>10, <1>11

\* An item that is made has its version.
LEMMA MadeVersion ==
  ASSUME JournalTypes, NEW x \in Request, NEW r, NEW i \in Items(x), Made(x, i),
         ItemInv(r, x, i)
  PROVE  x.job[i].v > 0
<1>1. x.job[i].s \in Sessions
  BY ItemType DEF Items
<1>2. head[x.job[i].s].v \in Nat
  BY <1>1, HeadFacts
<1>3. Kept(x.job[i]) \/ InPlace(r, x, i, x.job[i])
  BY DEF ItemInv
<1> QED
  BY <1>2, <1>3 DEF Kept, AtHead, InPlace

\* A writer that fails before its heads turns to undoing.
LEMMA FailInv ==
  ASSUME JournalInv, NEW r \in Requests, Moves(r), UNCHANGED <<body, head, ckpt, event>>,
         UNCHANGED claim, JournalTypes',
         NEW y, y = req'[r], y.job = req[r].job, y.seen = req[r].seen, y.orig = req[r].orig,
         \/ req[r].pc \in {"checkpoint", "event"} /\ y.pc = "undoJournal"
         \/ req[r].pc = "body" /\ y.pc = "undoBodies"
  PROVE  JournalInv'
<1> DEFINE x == req[r]
<1>1. /\ JournalTypes /\ FilesInv /\ x \in Request /\ JobShape(x) /\ JobFiles(x)
      /\ \A i \in Items(x) : ItemInv(r, x, i)
  BY InvParts, OwnParts
<1>2. SameItems(x, y) /\ Items(y) = Items(x)
  BY DEF SameItems, Items
<1>3. x.pc \in Busy \ {"head"} /\ y.pc \in Busy /\ UndoingKept(r)
  BY DEF Busy, UndoingKept
<1> HIDE DEF x
<1>4. \A i \in Items(y) : ItemInv(r, y, i)
  BY <1>1, <1>2, UndoingItem DEF x
<1>5. JobFiles(y)
  BY <1>1, <1>2, <1>3, BusyJob DEF x
<1> QED
  BY <1>2, <1>3, <1>4, <1>5, WriterLocal DEF x

\* WriteEvent keeps the invariant.
LEMMA WriteEventInv ==
  ASSUME JournalInv, NEW r \in Requests, WriteEvent(r)
  PROVE  JournalInv'
<1> DEFINE x == req[r]
           m == Item(r)
           s == Item(r).s
           e == [v |-> Item(r).v, c |-> Item(r).c, by |-> r]
<1>0. /\ JournalTypes /\ ShapesInv /\ JobsInv /\ FilesInv /\ DiskInv
      /\ x.pc = "event" /\ x.pc \in Busy
  BY InvParts DEF WriteEvent, At, Busy
<1>1. /\ UNCHANGED <<body, head, ckpt>> /\ UNCHANGED <<claim, deaths>>
      /\ UNCHANGED body /\ UNCHANGED head /\ UNCHANGED ckpt
  BY DEF WriteEvent
<1>4. /\ x \in Request /\ JobShape(x) /\ Len(x.job) \in 1..2 /\ x.at \in Items(x)
      /\ m = x.job[x.at] /\ s = m.s /\ s \in Sessions /\ m.c \in Contents
  BY <1>0, AtItem DEF Items
<1>5. JobFiles(x) /\ \A i \in Items(x) : ItemInv(r, x, i)
  BY OwnParts
<1>9. Made(x, x.at) /\ HasItem(x, s) /\ x.at \in 1..2
  <2>1. x.at \in 1..2 /\ x.at <= x.at
    BY <1>4 DEF Request
  <2> QED
    BY <1>0, <1>4, <2>1 DEF Made, HasItem
<1>10. m.v > 0
  BY <1>0, <1>4, <1>5, <1>9, MadeVersion
<1>2. /\ Moves(r) /\ event' \in [Sessions -> SUBSET Files]
      /\ failures' \in 0..MaxFailures /\ req'[r].job = req[r].job
      /\ req'[r].goal = req[r].goal /\ req'[r].orig = req[r].orig
      /\ req'[r].seen = req[r].seen
      /\ \/ /\ UNCHANGED event /\ req'[r].pc = "undoJournal"
            /\ req'[r].at = req[r].at
         \/ /\ event' = [event EXCEPT ![s] = IF Named(@, e) = {} THEN @ \cup {e} ELSE @]
            /\ \/ Last(r) /\ req'[r].pc = "body" /\ req'[r].at = 1
               \/ /\ ~Last(r) /\ req'[r].pc = "checkpoint"
                  /\ req'[r].at = req[r].at + 1
  BY <1>0, <1>10, WriteEventShape
<1>3. JournalTypes'
  BY <1>0, <1>1, <1>2, TypesStep DEF JournalTypes
<1>6. PICK y : y = req'[r]
  OBVIOUS
<1>7. y \in Request /\ y.orig = x.orig /\ y.seen = x.seen /\ y.job = x.job
  BY <1>2, <1>6 DEF Moves
<1>8. UndoingKept(r)
  BY <1>0 DEF UndoingKept
<1>11. CASE UNCHANGED event /\ y.pc = "undoJournal"
  <2>1. UNCHANGED <<body, head, ckpt, event>> /\ UNCHANGED claim
    BY <1>1, <1>11
  <2> QED
    BY <1>0, <1>2, <1>3, <1>6, <1>7, <1>11, <2>1, FailInv
<1>12. ASSUME event' = [event EXCEPT ![s] = IF Named(@, e) = {} THEN @ \cup {e} ELSE @],
              \/ Last(r) /\ y.pc = "body" /\ y.at = 1
              \/ ~Last(r) /\ y.pc = "checkpoint" /\ y.at = x.at + 1
       PROVE  JournalInv'
  <2>0. PICK a : a = x.at
    OBVIOUS
  <2>a. PICK k : k = x.job[a]
    OBVIOUS
  <2>1. SameItems(x, y) /\ Items(y) = Items(x) /\ y.pc \in Busy
    BY <1>7, <1>12 DEF SameItems, Items, Busy
  <2>2. JobFiles(y)
    BY <1>0, <1>4, <1>5, <1>7, <2>1, BusyJob DEF Busy
  <2>3. \A i \in Items(x) : i \in 1..2 /\ (Last(r) => i < a \/ i = a)
                                  /\ (~Last(r) => a = 1 /\ (i = 1 \/ i = 2))
    <3>1. Last(r) <=> a = Len(x.job)
      BY <2>0 DEF Last
    <3>2. a \in 1..Len(x.job)
      BY <1>4, <2>0 DEF Items
    <3>3. \A n \in 1..2 : \A b, i \in 1..n : i \in 1..2 /\ (b = n => i < b \/ i = b)
                                              /\ (b # n => b = 1 /\ (i = 1 \/ i = 2))
      OBVIOUS
    <3> QED
      BY <1>4, <3>1, <3>2, <3>3 DEF Items
  <2>4. \A i \in Items(x) : i # a => ItemInv(r, y, i)
    <3> SUFFICES ASSUME NEW i \in Items(x), i # a
                 PROVE  ItemInv(r, y, i)
      OBVIOUS
    <3>0. y.pc \notin Undoing \cup Recovering /\ x.pc \notin Recovering
      BY <1>0, <1>12 DEF Undoing, Recovering, Listed
    <3>1. CASE Last(r)
      <4>1. i < a /\ y.pc = "body" /\ ~(i < 1) /\ y.at = 1
        BY <1>12, <2>3, <3>1
      <4>7. i < x.at /\ i <= x.at /\ ~(i > x.at)
        BY <1>9, <2>0, <2>3, <4>1
      <4>2. Made(x, i) /\ Told(x, i) /\ ~Embodied(x, i) /\ ~Embodied(y, i) /\ ~Before(y, i)
        BY <1>0, <4>1, <4>7 DEF Made, Told, Embodied, Before, Recovering, Listed
      <4>3. PICK n : n = x.job[i]
        OBVIOUS
      <4>4. Kept(n) \/ InPlace(r, x, i, n)
        BY <1>5, <4>2, <4>3 DEF ItemInv
      <4>5. Kept(n) \/ InPlace(r, y, i, n)
        BY <4>2, <4>4 DEF InPlace
      <4>6. y.job[i] = n
        BY <1>7, <4>3
      <4> QED
        BY <3>0, <4>2, <4>5, <4>6 DEF ItemInv
    <3>2. CASE ~Last(r)
      <4>1. i = 2 /\ a = 1 /\ y.pc = "checkpoint" /\ y.at = 2
        BY <1>12, <2>0, <2>3, <3>2
      <4>2. Before(x, i) /\ ~Made(y, i)
        BY <1>0, <2>0, <4>1 DEF Made, Before
      <4> QED
        BY <1>5, <1>7, <3>0, <4>2 DEF ItemInv
    <3> QED
      BY <3>1, <3>2
  <2>5. ~Before(y, a) /\ y.pc \notin Undoing /\ ~Embodied(y, a)
    <3>1. CASE Last(r)
      <4>1. ~(a < 1) /\ y.pc = "body" /\ y.at = 1
        BY <1>9, <1>12, <2>0, <3>1
      <4> QED
        BY <4>1 DEF Before, Embodied, Undoing, Recovering, Listed
    <3>2. CASE ~Last(r)
      <4>1. ~(a >= y.at) /\ y.pc = "checkpoint"
        BY <1>9, <1>12, <2>0, <3>2
      <4> QED
        BY <4>1 DEF Before, Embodied, Undoing, Recovering, Listed
    <3> QED
      BY <3>1, <3>2
  <2>6. k.s = s /\ k = m /\ e = File(r, k) /\ k = y.job[a] /\ a \in Items(x)
        /\ ~Embodied(x, a)
    BY <1>0, <1>4, <1>7, <2>0, <2>a DEF File, Embodied
  <2>7. Kept(k) \/ InPlace(r, x, a, k)
    BY <1>5, <1>9, <2>0, <2>a, <2>6 DEF ItemInv
  <2> HIDE DEF e, m, s, x
  <2>8. \A t \in Sessions : t # s => SameAt(t)
    BY <1>0, <1>1, <1>4, <1>12 DEF JournalTypes, SameAt
  <2>9. /\ \A t \in Sessions : event[t] \subseteq event'[t]
        /\ Named(event'[s], e) # {}
    <3>1. event'[s] = IF Named(event[s], e) = {} THEN event[s] \cup {e} ELSE event[s]
      BY <1>0, <1>4, <1>12 DEF JournalTypes
    <3>2. Named(event'[s], e) # {}
      BY <3>1 DEF Named
    <3> QED
      BY <2>8, <3>1, <3>2 DEF SameAt
  <2>10. DiskInv'
    BY <1>0, <1>1, <2>9, TellDisk
  <2>11. \A t, d : Torn(t, d) => Torn(t, d)'
    BY <1>2, <1>8, TornStep DEF Moves
  <2>12. \A q \in Requests : \A z \in Request : q # r /\ z = req[q] =>
           /\ z.pc \in Listed => \A t \in Sessions : SeenOf(z, t)'
           /\ z.pc \in Dropping /\ z.s = s /\ Aim(z) \in ckpt'[s] =>
                Aim(z).v > head'[s].v /\ body'[s] # Aim(z).c
    <3> SUFFICES ASSUME NEW q \in Requests, NEW z \in Request, q # r, z = req[q]
                 PROVE  /\ z.pc \in Listed => \A t \in Sessions : SeenOf(z, t)'
                        /\ z.pc \in Dropping /\ z.s = s /\ Aim(z) \in ckpt'[s] =>
                             Aim(z).v > head'[s].v /\ body'[s] # Aim(z).c
      OBVIOUS
    <3>1. z.pc \in Listed => \A t \in Sessions : SeenOf(z, t)'
      BY <1>1, <2>11, OwnParts, SameSeen
    <3>2. z.pc \in Dropping => ChosenOf(z)
      BY OwnParts DEF Dropping, Chosen
    <3> QED
      BY <1>1, <3>1, <3>2 DEF ChosenOf
  <2>13. ItemInv(r, y, a)'
    <3>1. Kept(k) => Kept(k)'
      BY <1>1 DEF Kept, AtHead, Cand
    <3>2. InPlace(r, x, a, k) => InPlace(r, y, a, k)'
      <4>1. SUFFICES ASSUME InPlace(r, x, a, k)
                     PROVE  InPlace(r, y, a, k)'
        OBVIOUS
      <4>2. File(r, k) \in ckpt[s] /\ k.v = head[s].v + 1 /\ body[s] # k.c
        BY <2>6, <4>1 DEF InPlace
      <4> QED
        BY <1>1, <2>5, <2>6, <2>9, <4>2 DEF InPlace
    <3> QED
      BY <2>5, <2>6, <2>7, <3>1, <3>2 DEF ItemInv
  <2>14. NothingNewSeen
    BY <1>2 DEF NothingNewSeen, Moves, OthersKept
  <2>15. \A i \in Items(y) : ItemInv(r, y, i)'
    <3> SUFFICES ASSUME NEW i \in Items(y), i # a
                 PROVE  ItemInv(r, y, i)'
      BY <2>13
    <3>1. ItemInv(r, y, i) /\ y.job = x.job
      BY <1>7, <2>1, <2>4
    <3>2. y.job[i].s # s /\ y.job[i].s \in Sessions
      BY <1>4, <2>1, <2>6, <2>a, <3>1, DistinctItems, ItemType DEF Items
    <3> QED
      BY <2>8, <2>14, <3>1, <3>2, ItemKept
  <2>16. JobFiles(y)'
    <3>1. head' \in [Sessions -> Heads] /\ JobShape(y) /\ head'[Draft].v >= head[Draft].v
      BY <1>0, <1>1, <1>2, <1>6, HeadFacts, NoneFacts DEF Moves, JournalTypes
    <3> QED
      BY <1>0, <1>1, <1>7, <2>2, <3>1, JobFilesKept
  <2>17. head'[s].v >= head[s].v /\ (body[Draft] # None => body'[Draft] # None)
    BY <1>0, <1>1, <1>4, HeadFacts
  <2>18. /\ Moves(r) /\ UNCHANGED claim /\ s \in Sessions /\ HasItem(req[r], s)
         /\ req[r].pc \in Busy /\ SameItems(req[r], req'[r]) /\ req'[r].seen = req[r].seen
         /\ y.pc \in Busy \cup {"release"}
    BY <1>0, <1>1, <1>2, <1>4, <1>6, <1>9, <2>1 DEF x
  <2> QED
    BY <1>3, <1>6, <2>8, <2>10, <2>12, <2>15, <2>16, <2>17, <2>18, WriterInv
<1> QED
  BY <1>2, <1>6, <1>11, <1>12

\* A committed session has a body.
LEMMA CommittedBody ==
  ASSUME JournalTypes, BodyInv, NEW s \in Sessions, head[s].v > 0
  PROVE  body[s] # None
<1>1. head[s].c # None
  BY HeadFacts
<1>2. \A f \in Cand(s) : f.c # None
  BY CkptFacts DEF Cand
<1> QED
  BY <1>1, <1>2, NoneFacts DEF BodyInv

\* The item at hand of a writer of bodies.
LEMMA BodyItem ==
  ASSUME JournalInv, NEW r \in Requests, req[r].pc = "body"
  PROVE  LET x == req[r]
             m == Item(r)
         IN  /\ m = x.job[x.at] /\ x.at \in Items(x) /\ m.s \in Sessions /\ m.c \in Contents
             /\ Kept(m) \/ (InPlace(r, x, x.at, m) /\ body[m.s] # m.c)
             /\ Holds(m.s, m.c)
             /\ \/ m.c = head[m.s].c
                \/ \E f \in Cand(m.s) : f.c = m.c /\ Named(event[m.s], f) # {}
<1> DEFINE x == req[r]
           m == Item(r)
<1>1. JournalTypes /\ ShapesInv /\ FilesInv /\ x.pc \in Busy \cup {"claim"}
  BY InvParts DEF Busy
<1>2. /\ x \in Request /\ JobShape(x) /\ Len(x.job) \in 1..2 /\ x.at \in Items(x)
      /\ m = x.job[x.at] /\ m.s \in Sessions /\ m.c \in Contents
  BY <1>1, AtItem DEF Items
<1>3. ItemInv(r, x, x.at) /\ Made(x, x.at) /\ Told(x, x.at) /\ x.at \in 1..2
  BY <1>2, OwnParts DEF Made, Told, Request
<1>4. ~Embodied(x, x.at)
  <2>1. ~(x.at < x.at)
    BY <1>3
  <2> QED
    BY <2>1 DEF Embodied
<1> HIDE DEF m, x
<1>5. Kept(m) \/ (InPlace(r, x, x.at, m) /\ body[m.s] # m.c)
  BY <1>2, <1>3, <1>4 DEF ItemInv, InPlace
<1>6. CASE Kept(m)
  <2>1. head[m.s].c = m.c /\ head[m.s].v > 0
    BY <1>6 DEF Kept, AtHead
  <2>2. Holds(m.s, m.c)
    BY <1>1, <1>2, <2>1 DEF FilesInv, Holds
  <2> QED
    BY <1>2, <1>5, <2>1, <2>2 DEF m, x
<1>7. CASE InPlace(r, x, x.at, m) /\ body[m.s] # m.c
  <2> DEFINE f == File(r, m)
  <2>1. f.c = m.c /\ f.v = m.v
    BY DEF File
  <2>2. f \in ckpt[m.s] /\ f.v = head[m.s].v + 1 /\ Named(event[m.s], f) # {}
    BY <1>3, <1>7, <2>1 DEF InPlace
  <2>3. head[m.s].v \in Nat
    BY <1>1, <1>2, HeadFacts
  <2>4. f \in Cand(m.s)
    BY <2>2, <2>3 DEF Cand
  <2>5. Holds(m.s, m.c)
    BY <2>1, <2>2 DEF Holds
  <2> HIDE DEF f
  <2>6. \E g \in Cand(m.s) : g.c = m.c /\ Named(event[m.s], g) # {}
    BY <2>1, <2>2, <2>4
  <2> QED
    BY <1>2, <1>5, <2>5, <2>6 DEF m, x
<1> QED
  BY <1>5, <1>6, <1>7

\* A source is written only while there is no draft.
LEMMA SourceBody ==
  ASSUME JournalInv, NEW r \in Requests, req[r].pc = "body", HasItem(req[r], Source)
  PROVE  body[Draft] = None
<1> DEFINE x == req[r]
<1>1. x \in Request /\ JobShape(x) /\ JobFiles(x) /\ ApprovalInv
  BY OwnParts, InvParts
<1>2. CASE Len(x.job) = 2
  BY <1>1, <1>2 DEF JobFiles
<1>3. CASE Len(x.job) # 2
  <2>1. Len(x.job) = 1
    BY <1>1, <1>3 DEF JobShape, Busy
  <2>2. x.job[1].s = Source
    <3>1. \A k \in 1..1 : k = 1
      OBVIOUS
    <3> QED
      BY <2>1, <3>1 DEF HasItem, Items
  <2>3. body[Source] \notin Approved
    BY <1>1, <2>1, <2>2 DEF JobFiles
  <2> QED
    BY <1>1, <2>3 DEF ApprovalInv, ApprovalStands
<1> QED
  BY <1>2, <1>3

\* A draft is written only beside its approval.
LEMMA DraftBody ==
  ASSUME JournalInv, NEW r \in Requests, req[r].pc = "body", Item(r).s = Draft
  PROVE  ApprovalStands
<1> DEFINE x == req[r]
<1>1. /\ x \in Request /\ JobShape(x) /\ JobFiles(x) /\ ApprovalInv /\ BodyInv
      /\ JournalTypes
      /\ \A i \in Items(x) : ItemInv(r, x, i)
  BY OwnParts, InvParts
<1>2. Item(r) = x.job[x.at] /\ x.at \in Items(x)
  BY BodyItem
<1>3. CASE Len(x.job) = 1
  <2>1. x.at = 1
    <3>1. \A k \in 1..1 : k = 1
      OBVIOUS
    <3> QED
      BY <1>2, <1>3, <3>1 DEF Items
  <2>2. head[Draft].v > 0
    BY <1>1, <1>2, <1>3, <2>1 DEF JobFiles
  <2>3. body[Draft] # None
    BY <1>1, <2>2, NoneFacts, CommittedBody
  <2> QED
    BY <1>1, <2>3 DEF ApprovalInv
<1>4. CASE Len(x.job) = 2
  <2>0. \A k \in 1..2 : k = 1 \/ k = 2
    OBVIOUS
  <2>1. 1 \in Items(x) /\ x.job[1].s = Source /\ x.job[1].c \in Approved
        /\ x.job[2].s = Draft
    BY <1>1, <1>4 DEF Items, JobShape
  <2>2. x.at = 2
    BY <1>2, <1>4, <2>0, <2>1, NoneFacts DEF Items
  <2>3. Made(x, 1) /\ Told(x, 1) /\ Embodied(x, 1)
    BY <2>2 DEF Made, Told, Embodied
  <2>4. PICK m : m = x.job[1]
    OBVIOUS
  <2>5. head[Source].c \notin Approved
    BY <2>1, SourceOpen DEF HasItem, Busy
  <2>6. InPlace(r, x, 1, m)
    BY <1>1, <2>1, <2>3, <2>4, <2>5 DEF ItemInv, Kept, AtHead
  <2>7. head[Source].v > 0
    <3>1. head[Source].c # None
      BY <1>1, <1>4 DEF JobFiles, JobShape, Busy
    <3> QED
      BY <1>1, <3>1, HeadFacts, NoneFacts
  <2>8. /\ File(r, m) \in ckpt[Source] /\ Named(event[Source], File(r, m)) # {}
        /\ body[Source] = m.c /\ File(r, m).c = m.c
    BY <2>1, <2>3, <2>4, <2>6 DEF InPlace, File
  <2> QED
    BY <2>1, <2>4, <2>7, <2>8 DEF ApprovalStands
<1> QED
  BY <1>1, <1>3, <1>4 DEF JobShape, Busy

\* WriteBody keeps the invariant.
LEMMA WriteBodyInv ==
  ASSUME JournalInv, NEW r \in Requests, WriteBody(r)
  PROVE  JournalInv'
<1> DEFINE x == req[r]
           m == Item(r)
           s == Item(r).s
<1>0. /\ JournalTypes /\ ShapesInv /\ JobsInv /\ FilesInv /\ DiskInv
      /\ x.pc = "body" /\ x.pc \in Busy
  BY InvParts DEF WriteBody, At, Busy
<1>1. /\ UNCHANGED <<head, ckpt, event>> /\ UNCHANGED <<claim, deaths>>
      /\ UNCHANGED event /\ UNCHANGED head /\ UNCHANGED ckpt
  BY DEF WriteBody
<1>4. /\ x \in Request /\ JobShape(x) /\ Len(x.job) \in 1..2 /\ x.at \in Items(x)
      /\ m = x.job[x.at] /\ s = m.s /\ s \in Sessions /\ m.c \in Contents
  BY <1>0, AtItem DEF Items
<1>5. JobFiles(x) /\ \A i \in Items(x) : ItemInv(r, x, i)
  BY OwnParts
<1>9. HasItem(x, s) /\ x.at \in 1..2
  BY <1>4 DEF HasItem, Request
<1>2. /\ Moves(r) /\ body' \in [Sessions -> Contents \cup {None}]
      /\ failures' \in 0..MaxFailures /\ req'[r].job = req[r].job
      /\ req'[r].goal = req[r].goal /\ req'[r].orig = req[r].orig
      /\ req'[r].seen = req[r].seen
      /\ \/ /\ UNCHANGED body /\ req'[r].pc = "undoBodies"
            /\ req'[r].at = req[r].at
         \/ /\ body' = [body EXCEPT ![s] = m.c]
            /\ \/ Last(r) /\ req'[r].pc = "head" /\ req'[r].at = req[r].at
               \/ /\ ~Last(r) /\ req'[r].pc = "body"
                  /\ req'[r].at = req[r].at + 1
  BY <1>0, WriteBodyShape
<1>3. JournalTypes'
  BY <1>0, <1>1, <1>2, TypesStep DEF JournalTypes
<1>6. PICK y : y = req'[r]
  OBVIOUS
<1>7. y \in Request /\ y.orig = x.orig /\ y.seen = x.seen /\ y.job = x.job
  BY <1>2, <1>6 DEF Moves
<1>8. UndoingKept(r)
  BY <1>0 DEF UndoingKept
<1>11. CASE UNCHANGED body /\ y.pc = "undoBodies"
  <2>1. UNCHANGED <<body, head, ckpt, event>> /\ UNCHANGED claim
    BY <1>1, <1>11
  <2> QED
    BY <1>0, <1>2, <1>3, <1>6, <1>7, <1>11, <2>1, FailInv
<1>12. ASSUME body' = [body EXCEPT ![s] = m.c],
              \/ Last(r) /\ y.pc = "head" /\ y.at = x.at
              \/ ~Last(r) /\ y.pc = "body" /\ y.at = x.at + 1
       PROVE  JournalInv'
  <2>0. PICK a : a = x.at
    OBVIOUS
  <2>a. PICK k : k = x.job[a]
    OBVIOUS
  <2>1. SameItems(x, y) /\ Items(y) = Items(x) /\ y.pc \in Busy
    BY <1>7, <1>12 DEF SameItems, Items, Busy
  <2>3. \A i \in Items(x) : i \in 1..2 /\ (Last(r) => i < a \/ i = a)
                                  /\ (~Last(r) => a = 1 /\ (i = 1 \/ i = 2))
    <3>1. Last(r) <=> a = Len(x.job)
      BY <2>0 DEF Last
    <3>2. a \in 1..Len(x.job)
      BY <1>4, <2>0 DEF Items
    <3>3. \A n \in 1..2 : \A b, i \in 1..n : i \in 1..2 /\ (b = n => i < b \/ i = b)
                                              /\ (b # n => b = 1 /\ (i = 1 \/ i = 2))
      OBVIOUS
    <3> QED
      BY <1>4, <3>1, <3>2, <3>3 DEF Items
  <2>4. ASSUME NEW i \in Items(x)
        PROVE  /\ Made(x, i) /\ Made(y, i) /\ Told(x, i) /\ Told(y, i)
               /\ ~Before(y, i) /\ (Embodied(y, i) <=> Embodied(x, i) \/ i = a)
    <3>1. CASE Last(r)
      <4>1. (i < x.at \/ i = a) /\ i <= x.at /\ y.pc = "head" /\ y.at = x.at
        BY <1>9, <1>12, <2>0, <2>3, <3>1
      <4> QED
        BY <1>0, <4>1 DEF Made, Told, Embodied, Before, Recovering, Listed
    <3>2. CASE ~Last(r)
      <4>1. x.at = 1 /\ a = 1 /\ y.pc = "body" /\ y.at = 2 /\ (i = 1 \/ i = 2)
        BY <1>12, <2>0, <2>3, <3>2
      <4>2. (i < y.at <=> i = a) /\ ~(i < x.at)
        BY <4>1
      <4> QED
        BY <1>0, <4>1, <4>2 DEF Made, Told, Embodied, Before, Recovering, Listed
    <3> QED
      BY <3>1, <3>2
  <2>5. y.pc \notin Undoing /\ (~Last(r) => a = 1)
    BY <1>4, <1>12, <2>0, <2>3 DEF Undoing
  <2>b. \A i \in Items(x) : i # a => ItemInv(r, y, i)
    <3> SUFFICES ASSUME NEW i \in Items(x), i # a
                 PROVE  ItemInv(r, y, i)
      OBVIOUS
    <3>1. PICK n : n = x.job[i]
      OBVIOUS
    <3>2. Kept(n) \/ InPlace(r, x, i, n)
      BY <1>5, <2>4, <3>1 DEF ItemInv
    <3>3. Kept(n) \/ InPlace(r, y, i, n)
      BY <2>4, <3>2 DEF InPlace
    <3>4. y.job[i] = n
      BY <1>7, <3>1
    <3> QED
      BY <2>4, <2>5, <3>3, <3>4 DEF ItemInv
  <2>6. k.s = s /\ k = m /\ k = y.job[a] /\ a \in Items(x)
    BY <1>4, <1>7, <2>0, <2>a
  <2>7. /\ Kept(k) \/ (InPlace(r, x, a, k) /\ body[s] # k.c)
        /\ Holds(s, k.c)
        /\ \/ k.c = head[s].c
           \/ \E f \in Cand(s) : f.c = k.c /\ Named(event[s], f) # {}
    BY <1>0, <2>0, <2>6, BodyItem
  <2>c. s = Source => head[Source].c \notin Approved /\ body[Draft] = None
    BY <1>0, <1>9, SourceOpen, SourceBody
  <2>d. s = Draft => ApprovalStands
    BY <1>0, DraftBody
  <2>e. \A q \in Requests :
            req[q].pc \in Chosen /\ req[q].s = s /\ Aim(req[q]).v > head[s].v
            => Aim(req[q]).c # k.c
    <3> SUFFICES ASSUME NEW q \in Requests, req[q].pc \in Chosen, req[q].s = s,
                        Aim(req[q]).v > head[s].v
                 PROVE  Aim(req[q]).c # k.c
      OBVIOUS
    <3>1. ChosenOf(req[q])
      BY OwnParts
    <3> QED
      BY <1>0, <2>6, <2>a, <3>1 DEF ChosenOf
  <2>f. k.c \in Contents /\ k.c # None
    BY <1>4, <2>6, NoneFacts
  <2>g. k.s = Source /\ Len(x.job) = 1 => k.c \notin Approved
    <3>1. \A n \in 1..1 : n = 1
      OBVIOUS
    <3> QED
      BY <1>4, <2>6, <2>a, <3>1 DEF JobShape, Items
  <2>h. y.pc # "head" => k.s = Source
    <3> SUFFICES ASSUME y.pc # "head"
                 PROVE  k.s = Source
      OBVIOUS
    <3>1. ~Last(r) /\ a = 1
      BY <1>12, <2>5
    <3>2. Len(x.job) = 2
      BY <1>4, <2>0, <3>1 DEF Last
    <3> QED
      BY <1>4, <2>a, <3>1, <3>2 DEF JobShape
  <2>i. body' = [body EXCEPT ![s] = k.c]
    BY <1>12, <2>6
  <2> HIDE DEF m, s, x
  <2>8. body'[s] = k.c /\ \A t \in Sessions : t # s => SameAt(t)
    BY <1>0, <1>1, <1>4, <2>i DEF JournalTypes, SameAt
  <2>10. DiskInv'
    BY <1>0, <1>1, <1>4, <2>7, <2>c, <2>d, <2>f, <2>i, BodyDisk
  <2>11. \A t, d : Torn(t, d) => Torn(t, d)'
    BY <1>2, <1>8, TornStep DEF Moves
  <2>12. \A q \in Requests : \A z \in Request : q # r /\ z = req[q] =>
           /\ z.pc \in Listed => \A t \in Sessions : SeenOf(z, t)'
           /\ z.pc \in Dropping /\ z.s = s /\ Aim(z) \in ckpt'[s] =>
                Aim(z).v > head'[s].v /\ body'[s] # Aim(z).c
    <3> SUFFICES ASSUME NEW q \in Requests, NEW z \in Request, q # r, z = req[q]
                 PROVE  /\ z.pc \in Listed => \A t \in Sessions : SeenOf(z, t)'
                        /\ z.pc \in Dropping /\ z.s = s /\ Aim(z) \in ckpt'[s] =>
                             Aim(z).v > head'[s].v /\ body'[s] # Aim(z).c
      OBVIOUS
    <3>1. z.pc \in Listed => \A t \in Sessions : SeenOf(z, t)'
      <4> SUFFICES ASSUME z.pc \in Listed, NEW t \in Sessions
                   PROVE  SeenOf(z, t)'
        OBVIOUS
      <4>1. SeenOf(z, t)
        BY OwnParts
      <4>2. UNCHANGED <<head, ckpt>>
        BY <1>1
      <4> QED
        BY <1>0, <1>4, <2>7, <2>11, <2>i, <4>1, <4>2, BodySeen
    <3>2. z.pc \in Dropping => ChosenOf(z) /\ z.pc \in Chosen
      BY OwnParts DEF Dropping, Chosen
    <3>3. z.pc \in Dropping /\ z.s = s /\ Aim(z) \in ckpt'[s] =>
            Aim(z).v > head'[s].v /\ body'[s] # Aim(z).c
      BY <1>1, <2>8, <2>e, <3>2 DEF ChosenOf
    <3> QED
      BY <3>1, <3>3
  <2>13. ItemInv(r, y, a)'
    <3>0. ~Before(y, a) /\ Embodied(y, a) /\ Told(x, a)
      BY <2>4, <2>6
    <3>1. Kept(k) => Kept(k)'
      BY <1>1, <2>6, <2>8 DEF Kept, AtHead, Cand
    <3>2. InPlace(r, x, a, k) => InPlace(r, y, a, k)'
      BY <1>1, <2>6, <2>8, <3>0 DEF InPlace
    <3> QED
      BY <2>5, <2>6, <2>7, <3>0, <3>1, <3>2 DEF ItemInv
  <2>14. NothingNewSeen
    BY <1>2 DEF NothingNewSeen, Moves, OthersKept
  <2>15. \A i \in Items(y) : ItemInv(r, y, i)'
    <3> SUFFICES ASSUME NEW i \in Items(y), i # a
                 PROVE  ItemInv(r, y, i)'
      BY <2>13
    <3>1. ItemInv(r, y, i) /\ y.job = x.job
      BY <1>7, <2>1, <2>b
    <3>2. y.job[i].s # s /\ y.job[i].s \in Sessions
      BY <1>4, <2>1, <2>6, <2>a, <3>1, DistinctItems, ItemType DEF Items
    <3> QED
      BY <2>8, <2>14, <3>1, <3>2, ItemKept
  <2>16. JobFiles(y)'
    <3>1. Len(y.job) = 1 /\ y.job[1].s = Source => body'[Source] \notin Approved
      <4> SUFFICES ASSUME Len(y.job) = 1, y.job[1].s = Source
                   PROVE  body'[Source] \notin Approved
        OBVIOUS
      <4>1. \A n \in 1..1 : n = 1
        OBVIOUS
      <4>2. a = 1
        BY <1>7, <2>6, <4>1 DEF Items
      <4> QED
        BY <1>7, <2>6, <2>8, <2>g, <4>2
    <3>2. Len(y.job) = 1 /\ y.job[1].s = Draft => head[Draft].v > 0
      BY <1>5, <1>7 DEF JobFiles
    <3>3. Len(y.job) = 2 => y.orig = head[Source].c
      BY <1>0, <1>5, <1>7 DEF JobFiles
    <3>4. Len(y.job) = 2 /\ y.pc \notin {"head", "release"} => body'[Draft] = None
      <4> SUFFICES ASSUME Len(y.job) = 2, y.pc \notin {"head", "release"}
                   PROVE  body'[Draft] = None
        OBVIOUS
      <4>1. body[Draft] = None /\ s = Source
        BY <2>6, <2>c, <2>h
      <4> QED
        BY <2>8, <4>1, NoneFacts DEF SameAt
    <3> QED
      BY <1>1, <3>1, <3>2, <3>3, <3>4 DEF JobFiles
  <2>17. head'[s].v >= head[s].v /\ (body[Draft] # None => body'[Draft] # None)
    <3>1. head'[s].v >= head[s].v
      BY <1>0, <1>1, <1>4, HeadFacts
    <3> QED
      BY <2>8, <2>f, <3>1, NoneFacts DEF SameAt
  <2>18. /\ Moves(r) /\ UNCHANGED claim /\ s \in Sessions /\ HasItem(req[r], s)
         /\ req[r].pc \in Busy /\ SameItems(req[r], req'[r]) /\ req'[r].seen = req[r].seen
         /\ y.pc \in Busy \cup {"release"}
    BY <1>0, <1>1, <1>2, <1>4, <1>6, <1>9, <2>1 DEF x
  <2> QED
    BY <1>3, <1>6, <2>8, <2>10, <2>12, <2>15, <2>16, <2>17, <2>18, WriterInv
<1> QED
  BY <1>2, <1>6, <1>11, <1>12

\* WriteHead keeps the invariant.
LEMMA WriteHeadInv ==
  ASSUME JournalInv, NEW r \in Requests, WriteHead(r)
  PROVE  JournalInv'
<1> DEFINE x == req[r]
           m == Item(r)
           s == Item(r).s
           published == [head EXCEPT ![Item(r).s] = [v |-> Item(r).v, c |-> Item(r).c]]
<1>0. /\ JournalTypes /\ ShapesInv /\ JobsInv /\ FilesInv /\ DiskInv
      /\ x.pc = "head" /\ x.pc \in Busy
  BY InvParts DEF WriteHead, At, Busy
<1>1. /\ UNCHANGED <<body, ckpt, event>> /\ UNCHANGED <<claim, deaths>>
      /\ UNCHANGED event /\ UNCHANGED body /\ UNCHANGED ckpt
  BY DEF WriteHead
<1>4. /\ x \in Request /\ JobShape(x) /\ Len(x.job) \in 1..2 /\ x.at \in Items(x)
      /\ m = x.job[x.at] /\ s = m.s /\ s \in Sessions /\ m.c \in Contents
  BY <1>0, AtItem DEF Items
<1>5. JobFiles(x) /\ \A i \in Items(x) : ItemInv(r, x, i)
  BY OwnParts
<1>9. HasItem(x, s) /\ x.at \in 1..2 /\ Made(x, x.at) /\ Told(x, x.at) /\ Embodied(x, x.at)
  <2>1. x.at \in 1..2 /\ x.at <= x.at
    BY <1>4 DEF Request
  <2> QED
    BY <1>0, <1>4, <2>1 DEF Made, Told, Embodied, HasItem
<1>10. m.v > 0
  BY <1>0, <1>4, <1>5, <1>9, MadeVersion
<1>2. /\ Moves(r) /\ head' \in [Sessions -> Heads]
      /\ failures' \in 0..MaxFailures /\ req'[r].job = req[r].job
      /\ req'[r].orig = req[r].orig
      /\ req'[r].seen = req[r].seen
      /\ \/ head' \in {head, published} /\ req'[r].pc = "release"
         \/ /\ head' = published
            /\ req'[r].pc = "head" /\ req[r].at # 1 /\ req'[r].at = req[r].at - 1
            /\ req'[r].goal = req[r].goal
  BY <1>0, <1>10, WriteHeadShape
<1>3. JournalTypes'
  BY <1>0, <1>1, <1>2, TypesStep DEF JournalTypes
<1>6. PICK y : y = req'[r]
  OBVIOUS
<1>7. y \in Request /\ y.orig = x.orig /\ y.seen = x.seen /\ y.job = x.job
  BY <1>2, <1>6 DEF Moves
<1>8. UndoingKept(r)
  BY <1>0 DEF UndoingKept
<1>11. PICK a : a = x.at
  OBVIOUS
<1>12. PICK k : k = x.job[a]
  OBVIOUS
<1>13. SameItems(x, y) /\ Items(y) = Items(x)
       /\ (y.pc = "release" \/ (y.pc = "head" /\ a = 2 /\ y.at = 1 /\ head' = published))
  BY <1>2, <1>6, <1>7, <1>9, <1>11 DEF SameItems, Items
<1>14. \A i \in Items(x) : i # a => ItemInv(r, y, i)
  <2> SUFFICES ASSUME NEW i \in Items(x), i # a
               PROVE  ItemInv(r, y, i)
    OBVIOUS
  <2>1. CASE y.pc = "release"
    BY <2>1, ReleaseItem
  <2>2. CASE y.pc = "head" /\ a = 2 /\ y.at = 1
    <3>1. i \in 1..2
      BY <1>4, ItemType DEF Items
    <3>2. i <= x.at
      BY <1>11, <2>2, <3>1
    <3>3. Made(x, i) /\ ~Before(y, i) /\ y.pc \notin Undoing /\ Told(x, i) /\ Embodied(x, i)
          /\ Embodied(y, i)
      BY <1>0, <2>2, <3>2 DEF Made, Before, Undoing, Recovering, Listed, Told, Embodied
    <3>4. PICK n : n = x.job[i]
      OBVIOUS
    <3>5. Kept(n) \/ InPlace(r, y, i, n)
      BY <1>5, <3>3, <3>4 DEF ItemInv, InPlace
    <3>6. y.job[i] = n
      BY <1>7, <3>4
    <3> QED
      BY <3>3, <3>5, <3>6 DEF ItemInv
  <2> QED
    BY <1>13, <2>1, <2>2
<1>15. ~Before(y, a) /\ ~Made(y, a) /\ y.pc \notin Undoing
  <2>1. y.pc = "head" => ~(a <= y.at)
    BY <1>13
  <2> QED
    BY <1>13, <2>1 DEF Made, Before, Undoing, Recovering, Listed
<1>16. ItemInv(r, y, a) /\ ItemInv(r, y, a)'
  BY <1>15 DEF ItemInv
<1>17. JobFiles(y) /\ y.pc \in Busy \cup {"release"}
  BY <1>0, <1>5, <1>7, <1>13 DEF JobFiles, Busy
<1>18. CASE head' = head
  <2>1. UNCHANGED <<body, head, ckpt, event>> /\ UNCHANGED claim
    BY <1>1, <1>18
  <2>2. \A i \in Items(y) : ItemInv(r, y, i)
    BY <1>13, <1>14, <1>16
  <2> QED
    BY <1>0, <1>2, <1>3, <1>6, <1>7, <1>8, <1>13, <1>17, <2>1, <2>2, WriterLocal
<1>19. CASE head' = published /\ head' # head
  <2>6. k.s = s /\ k = m /\ k = y.job[a] /\ a \in Items(x)
    BY <1>4, <1>7, <1>11, <1>12
  <2>i. head' = [head EXCEPT ![s] = [v |-> k.v, c |-> k.c]]
    BY <1>19, <2>6
  <2>1. InPlace(r, x, a, k)
    <3> SUFFICES ASSUME Kept(k)
                 PROVE  FALSE
      BY <1>5, <1>9, <1>11, <1>12, <2>6 DEF ItemInv
    <3>1. head[s].v = k.v /\ head[s].c = k.c /\ head[s] \in Heads /\ head[s].v > 0
      BY <1>0, <1>4, <2>6 DEF Kept, AtHead, JournalTypes
    <3>2. head[s] = [v |-> k.v, c |-> k.c]
      BY <3>1 DEF Heads, NoHead
    <3>3. head' = head
      BY <1>0, <1>4, <2>i, <3>2 DEF JournalTypes
    <3> QED
      BY <1>19, <3>3
  <2>2. PICK f : f = File(r, k)
    OBVIOUS
  <2>3. f \in Cand(s) /\ f.v = k.v /\ f.c = k.c /\ body[s] = f.c
    <3>1. f.v = k.v /\ f.c = k.c
      BY <2>2 DEF File
    <3>2. f \in ckpt[s] /\ f.v = head[s].v + 1 /\ body[s] = f.c
      BY <1>9, <1>11, <2>1, <2>2, <2>6, <3>1 DEF InPlace
    <3>3. head[s].v \in Nat
      BY <1>0, <1>4, HeadFacts
    <3> QED
      BY <3>1, <3>2, <3>3 DEF Cand
  <2>e. \A q \in Requests :
            req[q].pc \in Chosen /\ req[q].s = s /\ Aim(req[q]).v > head[s].v
            => Aim(req[q]).c # k.c
    <3> SUFFICES ASSUME NEW q \in Requests, req[q].pc \in Chosen, req[q].s = s,
                        Aim(req[q]).v > head[s].v
                 PROVE  Aim(req[q]).c # k.c
      OBVIOUS
    <3>1. ChosenOf(req[q])
      BY OwnParts
    <3> QED
      BY <1>0, <1>12, <2>6, <3>1 DEF ChosenOf
  <2>f. y.pc = "head" => s = Draft
      <3> SUFFICES ASSUME y.pc = "head"
                 PROVE  s = Draft
      OBVIOUS
    <3>1. a = 2 /\ 2 \in 1..Len(x.job)
      BY <1>13, <2>6 DEF Items
    <3>2. \A n \in 1..2 : 2 \in 1..n => n = 2
      OBVIOUS
    <3>3. Len(x.job) = 2
      BY <1>4, <3>1, <3>2
    <3> QED
      BY <1>4, <1>12, <2>6, <3>1, <3>3 DEF JobShape
  <2> HIDE DEF m, s, x, published
  <2>4. head' = [head EXCEPT ![s] = [v |-> f.v, c |-> f.c]]
    BY <2>3, <2>i
  <2>5. head'[s].v = f.v /\ f.v > head[s].v /\ f.v \in Nat /\ head[s].v \in Nat
    BY <1>0, <1>4, <2>3, <2>4, CandVersion, HeadFacts, CkptFacts DEF JournalTypes
  <2>8. \A t \in Sessions : t # s => SameAt(t)
    BY <1>0, <1>1, <1>4, <2>4 DEF JournalTypes, SameAt
  <2>10. DiskInv'
    BY <1>0, <1>1, <1>4, <2>3, <2>4, PublishDisk
  <2>11. \A t, d : Torn(t, d) => Torn(t, d)'
    BY <1>2, <1>8, TornStep DEF Moves
  <2>12. \A q \in Requests : \A z \in Request : q # r /\ z = req[q] =>
           /\ z.pc \in Listed => \A t \in Sessions : SeenOf(z, t)'
           /\ z.pc \in Dropping /\ z.s = s /\ Aim(z) \in ckpt'[s] =>
                Aim(z).v > head'[s].v /\ body'[s] # Aim(z).c
    <3> SUFFICES ASSUME NEW q \in Requests, NEW z \in Request, q # r, z = req[q]
                 PROVE  /\ z.pc \in Listed => \A t \in Sessions : SeenOf(z, t)'
                        /\ z.pc \in Dropping /\ z.s = s /\ Aim(z) \in ckpt'[s] =>
                             Aim(z).v > head'[s].v /\ body'[s] # Aim(z).c
      OBVIOUS
    <3>1. z.pc \in Listed => \A t \in Sessions : SeenOf(z, t)'
      <4> SUFFICES ASSUME z.pc \in Listed, NEW t \in Sessions
                   PROVE  SeenOf(z, t)'
        OBVIOUS
      <4>1. SeenOf(z, t)
        BY OwnParts
      <4>2. UNCHANGED <<body, ckpt>>
        BY <1>1
      <4> QED
        BY <1>0, <1>4, <2>3, <2>4, <2>11, <4>1, <4>2, PublishSeen
    <3>2. z.pc \in Dropping => ChosenOf(z) /\ z.pc \in Chosen
      BY OwnParts DEF Dropping, Chosen
    <3>3. z.pc \in Dropping /\ z.s = s /\ Aim(z) \in ckpt'[s] => FALSE
      <4> SUFFICES ASSUME z.pc \in Dropping, z.s = s, Aim(z) \in ckpt[s]
                   PROVE  FALSE
        BY <1>1
      <4>1. Aim(z).v > head[s].v
        BY <3>2 DEF ChosenOf
      <4>2. Aim(z) \in Cand(s)
        BY <4>1 DEF Cand
      <4>3. Aim(z) = f
        BY <1>0, <1>4, <2>3, <4>2, CandVersion
      <4> QED
        BY <2>3, <2>e, <3>2, <4>1, <4>3
    <3> QED
      BY <3>1, <3>3
  <2>14. NothingNewSeen
    BY <1>2 DEF NothingNewSeen, Moves, OthersKept
  <2>15. \A i \in Items(y) : ItemInv(r, y, i)'
    <3> SUFFICES ASSUME NEW i \in Items(y), i # a
                 PROVE  ItemInv(r, y, i)'
      BY <1>16
    <3>1. ItemInv(r, y, i) /\ y.job = x.job
      BY <1>7, <1>13, <1>14
    <3>2. y.job[i].s # s /\ y.job[i].s \in Sessions
      BY <1>4, <1>12, <1>13, <2>6, <3>1, DistinctItems, ItemType DEF Items
    <3> QED
      BY <2>8, <2>14, <3>1, <3>2, ItemKept
  <2>16. JobFiles(y)'
    <3>1. JobShape(y)
      BY <1>2, <1>6 DEF Moves
    <3>2. head'[Source].c = head[Source].c \/ y.pc \notin Busy \cup {"claim"}
      BY <1>13, <2>8, <2>f, NoneFacts DEF SameAt, Busy
    <3>3. head'[Draft].v >= head[Draft].v
      <4>1. head[Draft].v \in Nat
        BY <1>0, HeadFacts, NoneFacts
      <4> QED
        BY <2>5, <2>8, <4>1, NoneFacts DEF SameAt
    <3> QED
      BY <1>0, <1>1, <1>2, <1>7, <1>17, <3>1, <3>2, <3>3, JobFilesKept
  <2>17. head'[s].v >= head[s].v /\ (body[Draft] # None => body'[Draft] # None)
    BY <1>1, <2>5
  <2>18. /\ Moves(r) /\ UNCHANGED claim /\ s \in Sessions /\ HasItem(req[r], s)
         /\ req[r].pc \in Busy /\ SameItems(req[r], req'[r]) /\ req'[r].seen = req[r].seen
         /\ y.pc \in Busy \cup {"release"}
    BY <1>0, <1>1, <1>2, <1>4, <1>6, <1>9, <1>13, <1>17 DEF x
  <2> QED
    BY <1>3, <1>6, <2>8, <2>10, <2>12, <2>15, <2>16, <2>17, <2>18, WriterInv
<1> QED
  BY <1>2, <1>18, <1>19

\* What a writer removes while it is undoing its item m is no head, and its
\* body only in an approval whose rollback restores it.
LEMMA CreatedFacts ==
  ASSUME JournalInv, NEW r \in Requests, req[r].pc \in Undoing, NEW i \in Items(req[r]),
         NEW g, g.c = req[r].job[i].c, g.v > head[req[r].job[i].s].v,
         g \in ckpt[req[r].job[i].s]
  PROVE  body[req[r].job[i].s] = g.c => Torn(req[r].job[i].s, g.c)
<1> DEFINE x == req[r]
<1>1. /\ x \in Request /\ JobShape(x) /\ ItemInv(r, x, i) /\ JournalTypes /\ FilesInv
  BY OwnParts, InvParts
<1>2. PICK m : m = x.job[i]
  OBVIOUS
<1>3. Undone(r, x, m) /\ m.s \in Sessions
  BY <1>1, <1>2, ItemType DEF ItemInv, Items
<1>4. SUFFICES ASSUME body[m.s] = m.c
               PROVE  Torn(m.s, m.c)
  BY <1>2
<1>5. m.c # head[m.s].c
  <2> SUFFICES ASSUME m.c = head[m.s].c
               PROVE  FALSE
    OBVIOUS
  <2>1. g.v = head[m.s].v
    BY <1>1, <1>2, <1>3, HeadFile
  <2> QED
    BY <1>1, <1>2, <1>3, <2>1, HeadFacts
<1>6. x.pc = "undoBodies" /\ Len(x.job) = 2 /\ m.s = Source
  BY <1>3, <1>4, <1>5 DEF Undone
<1>7. i = 1
  <2>1. \A k \in 1..2 : k = 1 \/ k = 2
    OBVIOUS
  <2> QED
    BY <1>1, <1>2, <1>6, <2>1, NoneFacts DEF Items, JobShape
<1> QED
  BY <1>2, <1>6, <1>7 DEF Torn

\* A step of a writer that removes files of one of its items.
LEMMA RemovingInv ==
  ASSUME JournalInv, NEW r \in Requests,
         UNCHANGED <<body, head, claim, req, deaths, failures>>,
         JournalTypes', DiskInv', req[r].pc \in Undoing,
         NEW i \in Items(req[r]), NEW s, s = req[r].job[i].s,
         \A t \in Sessions : t # s => SameAt(t),
         ckpt'[s] \subseteq ckpt[s],
         \A z \in Request : \A t \in Sessions : SeenOf(z, t) => SeenOf(z, t)'
  PROVE  JournalInv'
<1>1. PICK x \in Request : x = req[r] /\ x = req'[r]
  BY OwnParts
<1>2. /\ JobShape(x) /\ JobFiles(x) /\ JournalTypes /\ FilesInv
      /\ \A j \in Items(x) : ItemInv(r, x, j)
      /\ UNCHANGED body /\ UNCHANGED head
  BY <1>1, OwnParts, InvParts
<1>3. s \in Sessions /\ HasItem(x, s)
  BY <1>1, ItemType DEF Items, HasItem
<1>4. Moves(r)
  BY <1>1, <1>2 DEF Moves, OthersKept, JournalTypes
<1>5. SameItems(x, x) /\ x.pc \in Busy
  BY <1>1 DEF SameItems, Undoing, Busy
<1>6. \A q \in Requests : \A z \in Request : q # r /\ z = req[q] =>
        /\ z.pc \in Listed => \A t \in Sessions : SeenOf(z, t)'
        /\ z.pc \in Dropping /\ z.s = s /\ Aim(z) \in ckpt'[s] =>
             Aim(z).v > head'[s].v /\ body'[s] # Aim(z).c
  <2> SUFFICES ASSUME NEW q \in Requests, NEW z \in Request, q # r, z = req[q]
               PROVE  /\ z.pc \in Listed => \A t \in Sessions : SeenOf(z, t)'
                      /\ z.pc \in Dropping /\ z.s = s /\ Aim(z) \in ckpt'[s] =>
                           Aim(z).v > head'[s].v /\ body'[s] # Aim(z).c
    OBVIOUS
  <2>1. z.pc \in Listed => \A t \in Sessions : SeenOf(z, t)'
    BY OwnParts
  <2>2. z.pc \in Dropping => ChosenOf(z)
    BY OwnParts DEF Dropping, Chosen
  <2> QED
    BY <1>2, <2>1, <2>2 DEF ChosenOf
<1>7. NothingNewSeen
  BY DEF NothingNewSeen
<1>8. ASSUME NEW j \in Items(x)
      PROVE  ItemInv(r, x, j)'
  <2>1. x.job[j].s \in Sessions
    BY ItemType DEF Items
  <2>2. CASE x.job[j].s # s
    BY <1>2, <1>7, <2>1, <2>2, ItemKept
  <2>3. CASE x.job[j].s = s
    <3>1. PICK m : m = x.job[j]
      OBVIOUS
    <3>2. Undone(r, x, m)
      BY <1>1, <1>2, <3>1 DEF ItemInv
    <3>3. Cand(s)' \subseteq Cand(s)
      BY <1>2 DEF Cand
    <3>4. Undone(r, x, m)'
      BY <1>2, <2>3, <3>1, <3>2, <3>3 DEF Undone
    <3>5. ~Before(x, j) /\ ~Made(x, j)
      BY <1>1 DEF Before, Made, Undoing, Recovering, Listed
    <3> QED
      BY <3>1, <3>4, <3>5 DEF ItemInv
  <2> QED
    BY <2>2, <2>3
<1>9. JobFiles(x)'
  <2>1. head' \in [Sessions -> Heads] /\ head'[Draft].v >= head[Draft].v
    BY <1>2, HeadFacts, NoneFacts DEF JournalTypes
  <2> QED
    BY <1>2, <2>1, JobFilesKept
<1>10. head'[s].v >= head[s].v /\ (body[Draft] # None => body'[Draft] # None)
  BY <1>2, <1>3, HeadFacts
<1>11. /\ UNCHANGED claim /\ HasItem(req[r], s) /\ req[r].pc \in Busy
       /\ SameItems(req[r], req'[r]) /\ req'[r].seen = req[r].seen
  BY <1>1, <1>3, <1>5
<1> QED
  BY <1>1, <1>3, <1>4, <1>5, <1>6, <1>8, <1>9, <1>10, <1>11, WriterInv

\* Undo keeps the invariant.
LEMMA UndoInv ==
  ASSUME JournalInv, NEW r \in Requests, Undo(r)
  PROVE  JournalInv'
<1> DEFINE x == req[r]
<1>0. /\ JournalTypes /\ ShapesInv /\ JobsInv /\ FilesInv /\ DiskInv
      /\ x.pc \in Undoing /\ x.pc \in Busy
  BY InvParts DEF Undo, Undoing, Busy
<1>1. UNCHANGED <<head, claim, deaths, failures>> /\ UNCHANGED head /\ UNCHANGED claim
  BY DEF Undo
<1>2. /\ Moves(r) /\ req'[r].job = req[r].job /\ req'[r].seen = req[r].seen
      /\ body' \in [Sessions -> Contents \cup {None}]
      /\ ckpt' \in [Sessions -> SUBSET Files] /\ event' \in [Sessions -> SUBSET Files]
      /\ \/ /\ UNCHANGED <<body, ckpt, req>>
            /\ \E i \in 1..Len(req[r].job) :
                 event' = [event EXCEPT ![req[r].job[i].s] = @ \ Created(r, i, event)]
         \/ /\ UNCHANGED <<body, event, req>>
            /\ \E i \in 1..Len(req[r].job) :
                 ckpt' = [ckpt EXCEPT ![req[r].job[i].s] = @ \ Created(r, i, ckpt)]
         \/ /\ req'[r].pc = "release" /\ UNCHANGED <<ckpt, event>>
            /\ IF At(r, "undoBodies") /\ req[r].goal = "approve"
               THEN body' = [body EXCEPT ![Source] = req[r].orig]
               ELSE UNCHANGED body
  BY <1>0, UndoShape
<1>3. JournalTypes'
  BY <1>0, <1>1, <1>2, TypesStep DEF JournalTypes
<1>4. /\ x \in Request /\ JobShape(x) /\ JobFiles(x) /\ Len(x.job) \in 1..2
  BY <1>0, AtItem, OwnParts
<1>5. ASSUME UNCHANGED <<body, ckpt, req>>, NEW i \in Items(x),
             event' = [event EXCEPT ![x.job[i].s] = @ \ Created(r, i, event)]
      PROVE  JournalInv'
  <2>1. PICK s : s = x.job[i].s
    OBVIOUS
  <2>2. PICK D : D = Created(r, i, event)
    OBVIOUS
  <2>3. s \in Sessions
    BY <1>4, <2>1, ItemType DEF Items
  <2>4. event' = [event EXCEPT ![s] = @ \ D]
    BY <1>5, <2>1, <2>2
  <2>5. \A e \in D : \A g \in ckpt[s] : g.v = e.v /\ g.c = e.c /\ body[s] = g.c =>
          body[s] = head[s].c \/ Torn(s, g.c)
    <3> SUFFICES ASSUME NEW e \in D, NEW g \in ckpt[s], g.v = e.v, g.c = e.c, body[s] = g.c
                 PROVE  Torn(s, g.c)
      OBVIOUS
    <3>1. e.c = x.job[i].c /\ e.v > head[s].v
      BY <2>1, <2>2 DEF Created
    <3> QED
      BY <1>0, <2>1, <3>1, CreatedFacts
  <2>6. UNCHANGED <<body, head, ckpt>> /\ UNCHANGED body /\ UNCHANGED ckpt
    BY <1>1, <1>5
  <2>7. DiskInv'
    BY <1>0, <2>3, <2>4, <2>5, <2>6, ForgetDisk
  <2>8. \A t \in Sessions : t # s => SameAt(t)
    BY <1>0, <1>1, <2>4, <2>6 DEF JournalTypes, SameAt
  <2>9. \A t, d : Torn(t, d) => Torn(t, d)'
    BY <1>5 DEF Torn
  <2>10. \A z \in Request : \A t \in Sessions : SeenOf(z, t) => SeenOf(z, t)'
    BY <2>6, <2>9, SameSeen
  <2>11. UNCHANGED <<body, head, claim, req, deaths, failures>>
         /\ ckpt'[s] \subseteq ckpt[s]
    BY <1>1, <1>5, <2>6
  <2> QED
    BY <1>0, <1>3, <2>1, <2>7, <2>8, <2>10, <2>11, RemovingInv
<1>6. ASSUME UNCHANGED <<body, event, req>>, NEW i \in Items(x),
             ckpt' = [ckpt EXCEPT ![x.job[i].s] = @ \ Created(r, i, ckpt)]
      PROVE  JournalInv'
  <2>1. PICK s : s = x.job[i].s
    OBVIOUS
  <2>2. PICK D : D = Created(r, i, ckpt)
    OBVIOUS
  <2>3. s \in Sessions
    BY <1>4, <2>1, ItemType DEF Items
  <2>4. ckpt' = [ckpt EXCEPT ![s] = @ \ D]
    BY <1>6, <2>1, <2>2
  <2>5. \A g \in ckpt[s] : g \in D => g.v > head[s].v /\ (body[s] = g.c => Torn(s, g.c))
    <3> SUFFICES ASSUME NEW g \in ckpt[s], g \in D
                 PROVE  g.v > head[s].v /\ (body[s] = g.c => Torn(s, g.c))
      OBVIOUS
    <3>1. g.c = x.job[i].c /\ g.v > head[s].v
      BY <2>1, <2>2 DEF Created
    <3> QED
      BY <1>0, <2>1, <3>1, CreatedFacts
  <2>6. UNCHANGED <<body, head, event>> /\ UNCHANGED body /\ UNCHANGED event
        /\ UNCHANGED <<body, head>>
    BY <1>1, <1>6
  <2>7. DiskInv'
    BY <1>0, <2>3, <2>4, <2>5, <2>6, RemoveDisk
  <2>8. \A t \in Sessions : t # s => SameAt(t)
    BY <1>0, <1>1, <2>4, <2>6 DEF JournalTypes, SameAt
  <2>9. \A t, d : Torn(t, d) => Torn(t, d)'
    BY <1>6 DEF Torn
  <2>10. \A z \in Request : \A t \in Sessions : SeenOf(z, t) => SeenOf(z, t)'
    BY <1>0, <2>3, <2>4, <2>5, <2>6, <2>9, RemoveSeen
  <2>11. UNCHANGED <<body, head, claim, req, deaths, failures>>
         /\ ckpt'[s] \subseteq ckpt[s]
    BY <1>0, <1>1, <1>6, <2>3, <2>4 DEF JournalTypes
  <2> QED
    BY <1>0, <1>3, <2>1, <2>7, <2>8, <2>10, <2>11, RemovingInv
<1>7. ASSUME req'[r].pc = "release", UNCHANGED <<ckpt, event>>,
             IF At(r, "undoBodies") /\ x.goal = "approve"
             THEN body' = [body EXCEPT ![Source] = x.orig]
             ELSE UNCHANGED body
      PROVE  JournalInv'
  <2>1. PICK y : y = req'[r]
    OBVIOUS
  <2>2. /\ y \in Request /\ y.job = x.job /\ y.pc = "release" /\ SameItems(x, y)
        /\ y.pc \in Busy \cup {"release"}
    BY <1>2, <1>7, <2>1 DEF SameItems, Moves
  <2>3. \A i : ItemInv(r, y, i) /\ ItemInv(r, y, i)'
    BY <2>2 DEF ItemInv, Before, Made, Undoing, Recovering, Listed
  <2>4. JobFiles(y)
    BY <1>4, <2>2, ReleaseJob
  <2>5. CASE UNCHANGED body /\ ~(At(r, "undoBodies") /\ x.goal = "approve")
    <3>1. UNCHANGED <<body, head, ckpt, event>>
      BY <1>1, <1>7, <2>5
    <3>2. UndoingKept(r)
      BY <1>4, <2>5 DEF UndoingKept, At, JobShape, Busy
    <3> QED
      BY <1>0, <1>1, <1>2, <1>3, <2>1, <2>2, <2>3, <2>4, <3>1, <3>2, WriterLocal
  <2>6. CASE At(r, "undoBodies") /\ x.goal = "approve"
             /\ body' = [body EXCEPT ![Source] = x.orig]
    <3>1. Len(x.job) = 2 /\ x.pc = "undoBodies"
      BY <1>4, <2>6 DEF At, JobShape, Busy
    <3>2. HasItem(x, Source) /\ x.orig = head[Source].c /\ x.orig \in Contents
          /\ body[Draft] = None /\ x.orig \notin Approved
      BY <1>0, <1>4, <3>1, PairItems, NoneFacts DEF JobFiles, JobShape, Request
    <3>3. PICK c : c = x.orig
      OBVIOUS
    <3>4. c \in Contents /\ c = head[Source].c /\ head[Source].v > 0
          /\ head[Source].c \notin Approved
          /\ Source \in Sessions /\ body' = [body EXCEPT ![Source] = c]
      BY <1>0, <2>6, <3>2, <3>3, HeadFacts, NoneFacts
    <3>5. Holds(Source, c)
      BY <1>0, <3>4 DEF FilesInv, Holds
    <3>6. /\ UNCHANGED <<head, ckpt, event>> /\ UNCHANGED <<head, ckpt>>
          /\ UNCHANGED ckpt /\ UNCHANGED event
      BY <1>1, <1>7
    <3>7. DiskInv'
      BY <1>0, <3>2, <3>4, <3>6, NoneFacts, BodyDisk
    <3>8. body'[Source] = c /\ \A t \in Sessions : t # Source => SameAt(t)
      BY <1>0, <1>1, <3>4, <3>6 DEF JournalTypes, SameAt
    <3>9. \A q \in Requests : \A z \in Request : q # r /\ z = req[q] =>
           /\ z.pc \in Listed => \A t \in Sessions : SeenOf(z, t)'
           /\ z.pc \in Dropping /\ z.s = Source /\ Aim(z) \in ckpt'[Source] =>
                Aim(z).v > head'[Source].v /\ body'[Source] # Aim(z).c
      <4> SUFFICES ASSUME NEW q \in Requests, NEW z \in Request, q # r, z = req[q]
                   PROVE  /\ z.pc \in Listed => \A t \in Sessions : SeenOf(z, t)'
                          /\ z.pc \in Dropping /\ z.s = Source
                             /\ Aim(z) \in ckpt'[Source] =>
                               Aim(z).v > head'[Source].v /\ body'[Source] # Aim(z).c
        OBVIOUS
      <4>1. z.pc \in Listed => \A t \in Sessions : SeenOf(z, t)'
        <5> SUFFICES ASSUME z.pc \in Listed, NEW t \in Sessions
                     PROVE  SeenOf(z, t)'
          OBVIOUS
        <5>1. SeenOf(z, t)
          BY OwnParts
        <5>2. \A d : Torn(t, d) => Torn(t, d)' \/ t = Source
          BY DEF Torn
        <5> QED
          BY <1>0, <3>4, <3>5, <3>6, <5>1, <5>2, BodySeen
      <4>2. ASSUME z.pc \in Dropping, z.s = Source, Aim(z) \in ckpt'[Source]
            PROVE  Aim(z).v > head'[Source].v /\ body'[Source] # Aim(z).c
        <5>1. ChosenOf(z)
          BY <4>2, OwnParts DEF Dropping, Chosen
        <5>2. Aim(z) \in ckpt[Source] /\ Aim(z).v > head[Source].v
          BY <3>6, <4>2, <5>1 DEF ChosenOf
        <5>3. Aim(z).c # head[Source].c
          <6> SUFFICES ASSUME Aim(z).c = head[Source].c
                       PROVE  FALSE
            OBVIOUS
          <6>1. Aim(z).v = head[Source].v
            BY <1>0, <3>4, <5>2, HeadFile
          <6> QED
            BY <1>0, <3>4, <5>2, <6>1, HeadFacts
        <5> QED
          BY <1>1, <3>4, <3>8, <5>2, <5>3
      <4> QED
        BY <4>1, <4>2
    <3>10. JobFiles(y)'
      <4>1. Len(y.job) = 2
        BY <2>2, <3>1
      <4> QED
        BY <2>2, <4>1 DEF JobFiles, Busy
    <3>11. head'[Source].v >= head[Source].v /\ (body[Draft] # None => body'[Draft] # None)
      BY <1>0, <1>1, <3>2, <3>4, HeadFacts
    <3>12. /\ Moves(r) /\ UNCHANGED claim /\ HasItem(req[r], Source)
           /\ req[r].pc \in Busy /\ SameItems(req[r], req'[r]) /\ req'[r].seen = req[r].seen
      BY <1>0, <1>1, <1>2, <2>1, <2>2, <3>2
    <3> HIDE DEF x
    <3> QED
      BY <1>3, <2>1, <2>2, <2>3, <3>4, <3>7, <3>8, <3>9, <3>10, <3>11, <3>12, WriterInv
  <2> QED
    BY <1>7, <2>5, <2>6
<1> QED
  BY <1>2, <1>5, <1>6, <1>7 DEF Items

-----------------------------------------------------------------------------
(* Deaths.                                                                 *)

\* The rollback of an approval that reached its bodies dies nowhere but with the only
\* server: the hypothesis of the theorems about the journal.
NoTornRollback ==
  \/ \A r, q \in Requests : ServerOf[r] = ServerOf[q]
  \/ MaxFailures = 0
  \/ MaxDeaths = 0

\* A death tears nothing that another server goes on with.
LEMMA DieTorn ==
  ASSUME JournalInv, NoTornRollback, NEW x \in Servers, Die(x),
         NEW q \in Requests, ServerOf[q] # x
  PROVE  \A t, d : Torn(t, d) => Torn(t, d)'
<1>1. ShapesInv /\ JournalTypes
  BY InvParts
<1>2. deaths \in Nat /\ deaths < MaxDeaths
  BY <1>1, JournalAssumption DEF Die, JournalTypes
<1>3. MaxDeaths # 0
  BY <1>2
<1>4. \E r \in Requests : ServerOf[r] = x
  BY DEF Die
<1>5. MaxFailures = 0
  BY <1>3, <1>4 DEF NoTornRollback
<1>6. ~(MaxFailures > 0)
  BY <1>5
<1>7. \A t, d : ~Torn(t, d)
  BY <1>1, <1>6 DEF Torn, ShapesInv, JobShape
<1> QED
  BY <1>7

\* Die keeps the invariant, unless it tears the rollback of an approval.
LEMMA DieInv ==
  ASSUME JournalInv, NoTornRollback, NEW x \in Servers, Die(x)
  PROVE  JournalInv'
<1>0. JournalTypes /\ ShapesInv /\ DiskInv /\ Exclusive /\ FilesInv
  BY InvParts
<1>1. UNCHANGED <<body, head, ckpt, event>> /\ UNCHANGED failures
  BY DEF Die
<1>2. /\ req' \in [Requests -> Request] /\ ShapesInv'
      /\ claim' \in [Sessions -> Requests \cup {None, Dead}]
      /\ deaths' \in 0..MaxDeaths
      /\ \A r \in Requests : req'[r] = IF ServerOf[r] = x THEN Idle ELSE req[r]
  BY <1>0, DieShape
<1>3. \A r \in Requests : \/ ServerOf[r] = x /\ req'[r] = Idle
                          \/ ServerOf[r] # x /\ req'[r] = req[r]
  BY <1>2
<1>4. JournalTypes'
  BY <1>0, <1>1, <1>2 DEF JournalTypes
<1>5. DiskInv'
  BY <1>0, <1>1, SameDisk
<1>6. NothingNewSeen
  BY <1>3, IdleFacts DEF NothingNewSeen
<1>7. \A s : SameAt(s)
  BY <1>1 DEF SameAt
<1>8. /\ Items(Idle) = {} /\ Len(Idle.job) = 0 /\ Idle.pc = "idle"
      /\ Idle.pc \notin Listed \cup Chosen \cup Busy \cup Publishing
  BY IdleFacts DEF Listed, Chosen, Busy, Publishing
<1>9. ItemsInv'
  <2> SUFFICES ASSUME NEW r \in Requests, NEW i \in Items(req'[r])
               PROVE  ItemInv(r, req[r], i)'
    BY DEF ItemsInv, Items
  <2>1. ServerOf[r] # x /\ req'[r] = req[r]
    BY <1>3, <1>8
  <2>2. ItemInv(r, req[r], i) /\ req[r] \in Request
    BY <2>1, OwnParts
  <2>3. req[r].job[i].s \in Sessions
    BY <2>1, <2>2, ItemType DEF Items
  <2>4. PICK y : y = req[r]
    OBVIOUS
  <2>5. ItemInv(r, y, i)'
    BY <1>6, <1>7, <2>2, <2>3, <2>4, ItemKept
  <2> QED
    BY <2>1, <2>4, <2>5
<1>10. JobsInv'
  <2> SUFFICES ASSUME NEW r \in Requests
               PROVE  JobFiles(req[r])'
    BY DEF JobsInv
  <2>1. JobFiles(req[r])
    BY OwnParts
  <2>2. CASE req'[r] = Idle
    BY <1>8, <2>2 DEF JobFiles
  <2>3. CASE req'[r] = req[r]
    BY <1>1, <2>1, <2>3 DEF JobFiles
  <2> QED
    BY <1>3, <2>2, <2>3
<1>11. Exclusive'
  <2> SUFFICES ASSUME NEW r \in Requests, NEW q \in Requests, r # q,
                      NEW i \in Items(req'[r]), NEW j \in Items(req'[q])
               PROVE  req'[r].job[i].s # req'[q].job[j].s
    BY DEF Exclusive, Items
  <2>1. req'[r] = req[r] /\ req'[q] = req[q]
    BY <1>3, <1>8
  <2> QED
    BY <1>0, <2>1 DEF Exclusive
<1>12. ClaimInv'
  <2> SUFFICES ASSUME NEW r \in Requests
               PROVE  ClaimOf(r, req[r])'
    BY DEF ClaimInv
  <2>1. \A s \in Sessions :
          claim'[s] = IF claim[s] \in Requests /\ ServerOf[claim[s]] = x
                      THEN Dead ELSE claim[s]
    BY DEF Die
  <2>2. r # Dead
    BY NoneFacts
  <2>3. CASE ServerOf[r] = x /\ req'[r] = Idle
    <3>1. \A s \in Sessions : claim'[s] # r
      BY <2>1, <2>2, <2>3
    <3> QED
      BY <1>8, <2>3, <3>1 DEF ClaimOf
  <2>4. CASE ServerOf[r] # x /\ req'[r] = req[r]
    <3>1. \A s \in Sessions : claim'[s] = r <=> claim[s] = r
      BY <2>1, <2>2, <2>4
    <3>2. ClaimOf(r, req[r]) /\ req[r] \in Request /\ JobShape(req[r])
      BY OwnParts
    <3>3. \A i \in Items(req[r]) : req[r].job[i].s \in Sessions
      BY <3>2, ItemType DEF Items
    <3>4. req[r].pc \in Publishing => req[r].s \in Sessions
      BY <3>2 DEF JobShape, Publishing, Chosen
    <3> QED
      BY <2>4, <3>1, <3>2, <3>3, <3>4 DEF ClaimOf
  <2> QED
    BY <1>3, <2>3, <2>4
<1>13. SeenInv'
  <2> SUFFICES ASSUME NEW r \in Requests, req'[r].pc \in Listed, NEW s \in Sessions
               PROVE  SeenOf(req[r], s)'
    BY DEF SeenInv
  <2>1. ServerOf[r] # x /\ req'[r] = req[r]
    BY <1>3, <1>8
  <2>2. SeenOf(req[r], s)
    BY <2>1, OwnParts
  <2>3. \A t, d : Torn(t, d) => Torn(t, d)'
    BY <2>1, DieTorn
  <2>4. PICK y : y = req[r]
    OBVIOUS
  <2>5. \A d : Torn(s, d) => Torn(s, d)'
    BY <2>3
  <2>6. SeenOf(y, s)
    BY <2>2, <2>4
  <2>7. SeenOf(y, s)'
    BY <1>1, <2>5, <2>6, SameSeen
  <2> QED
    BY <2>1, <2>4, <2>7
<1>14. ChosenInv'
  <2> SUFFICES ASSUME NEW r \in Requests, req'[r].pc \in Chosen
               PROVE  ChosenOf(req[r])'
    BY DEF ChosenInv
  <2>1. ServerOf[r] # x /\ req'[r] = req[r]
    BY <1>3, <1>8
  <2>2. ChosenOf(req[r])
    BY <2>1, OwnParts
  <2>3. PICK y : y = req[r]
    OBVIOUS
  <2>4. \A q \in Requests : req'[q].pc \in Busy => req'[q] = req[q]
    BY <1>3, <1>8
  <2>5. ChosenOf(y)
    BY <2>2, <2>3
  <2>6. /\ Aim(y)' \in Ahead(y, y.s)'
        /\ y.pc \in Dropping /\ Aim(y) \in ckpt'[y.s] =>
             Aim(y).v > head'[y.s].v /\ body'[y.s] # Aim(y).c
        /\ y.pc = "dropEvent" => Named(y.seen.event[y.s], Aim(y)) # {}
    BY <1>1, <2>5 DEF ChosenOf, Aim, Ahead
  <2>7. Aim(y).v > head'[y.s].v =>
          \A q \in Requests : req'[q].pc \in Busy =>
            \A i \in Items(req'[q]) : req'[q].job[i].s = y.s => req'[q].job[i].c # Aim(y).c
    BY <1>1, <2>4, <2>5 DEF ChosenOf
  <2>8. ChosenOf(y)'
    BY <2>6, <2>7 DEF ChosenOf, Named, Aim, Ahead, Items
  <2> QED
    BY <2>1, <2>3, <2>8
<1>15. PageInv'
  <2> SUFFICES ASSUME NEW r \in Requests
               PROVE  PageOf(req[r])'
    BY DEF PageInv
  <2>1. PageOf(req[r])
    BY OwnParts
  <2>2. CASE req'[r] = Idle
    BY <1>8, <2>2 DEF PageOf
  <2>3. CASE req'[r] = req[r]
    BY <1>1, <2>1, <2>3 DEF PageOf
  <2> QED
    BY <1>3, <2>2, <2>3
<1> QED
  BY <1>2, <1>4, <1>5, <1>9, <1>10, <1>11, <1>12, <1>13, <1>14, <1>15
  DEF JournalInv, DiskInv

-----------------------------------------------------------------------------
(* The invariant.                                                          *)

\* The initial states have the invariant.
LEMMA InitInv == Init => JournalInv
<1> SUFFICES ASSUME Init
             PROVE  JournalInv
  OBVIOUS
<1>1. /\ \A s \in Sessions : /\ body[s] = None /\ head[s] = NoHead /\ ckpt[s] = {}
                             /\ event[s] = {} /\ claim[s] = None
      /\ \A r \in Requests : req[r] = Idle
  BY DEF Init
<1>2. NoHead.v = 0 /\ NoHead.c = None
  BY DEF NoHead
<1>3. \A s \in Sessions : Cand(s) = {}
  BY <1>1 DEF Cand
<1>4. JournalTypes
  <2>1. NoHead \in Heads
    BY DEF Heads
  <2>2. 0 \in 0..MaxDeaths /\ 0 \in 0..MaxFailures
    BY JournalAssumption
  <2> QED
    BY <2>1, <2>2, IdleFacts DEF Init, JournalTypes
<1>5. FilesInv /\ BodyInv /\ ApprovalInv
  <2>1. FilesInv
    BY <1>1, <1>2 DEF FilesInv
  <2>2. BodyInv
    BY <1>1, <1>2 DEF BodyInv
  <2>3. ApprovalInv
    BY <1>1, <1>2, NoneFacts DEF ApprovalInv
  <2> QED
    BY <2>1, <2>2, <2>3
<1>6. ShapesInv
  BY <1>1, IdleIsRequest DEF ShapesInv
<1>7. \A r \in Requests : /\ Items(req[r]) = {} /\ Len(req[r].job) = 0
                          /\ req[r].pc \notin Listed \cup Chosen \cup Busy \cup Publishing
                          /\ req[r].pc # "show"
  BY <1>1, IdleFacts DEF Listed, Chosen, Busy, Publishing
<1>8. ItemsInv /\ Exclusive
  BY <1>7 DEF ItemsInv, Exclusive
<1>9. JobsInv
  BY <1>7 DEF JobsInv, JobFiles
<1>10. ClaimInv
  BY <1>1, <1>7, NoneFacts DEF ClaimInv, ClaimOf
<1>11. SeenInv /\ ChosenInv /\ PageInv
  BY <1>7 DEF SeenInv, ChosenInv, PageInv, PageOf
<1> QED
  BY <1>4, <1>5, <1>6, <1>8, <1>9, <1>10, <1>11 DEF JournalInv

\* A step that changes nothing keeps the invariant.
LEMMA StutterInv ==
  ASSUME JournalInv, UNCHANGED vars
  PROVE  JournalInv'
<1>1. /\ body' = body /\ head' = head /\ ckpt' = ckpt /\ event' = event /\ claim' = claim
      /\ req' = req /\ deaths' = deaths /\ failures' = failures
  BY DEF vars
<1>2. /\ UNCHANGED <<body, head, ckpt, event>> /\ UNCHANGED <<body, head, ckpt>>
      /\ \A s : SameAt(s)
  BY <1>1 DEF SameAt
<1>3. DiskInv'
  BY <1>2, InvParts, SameDisk
<1>4. JournalTypes' /\ ShapesInv' /\ Exclusive'
  BY <1>1, InvParts DEF JournalTypes, ShapesInv, Exclusive, Items
<1>5. NothingNewSeen
  BY <1>1 DEF NothingNewSeen
<1>6. ItemsInv'
  <2> SUFFICES ASSUME NEW r \in Requests, NEW i \in Items(req[r])
               PROVE  ItemInv(r, req[r], i)'
    BY <1>1 DEF ItemsInv, Items
  <2>1. PICK y : y = req[r]
    OBVIOUS
  <2>2. ItemInv(r, y, i) /\ y.job[i].s \in Sessions
    BY <2>1, OwnParts, ItemType DEF Items
  <2>3. ItemInv(r, y, i)'
    BY <1>2, <1>5, <2>2, ItemKept
  <2> QED
    BY <1>1, <2>1, <2>3
<1>7. JobsInv' /\ ClaimInv'
  BY <1>1, InvParts DEF JobsInv, JobFiles, ClaimInv, ClaimOf, HasItem, Items
<1>8. SeenInv'
  <2> SUFFICES ASSUME NEW r \in Requests, req[r].pc \in Listed, NEW s \in Sessions
               PROVE  SeenOf(req[r], s)'
    BY <1>1 DEF SeenInv
  <2>1. PICK y : y = req[r]
    OBVIOUS
  <2>2. SeenOf(y, s)
    BY <2>1, OwnParts
  <2>3. \A d : Torn(s, d) => Torn(s, d)'
    BY <1>1 DEF Torn
  <2>4. SeenOf(y, s)'
    BY <1>2, <2>2, <2>3, SameSeen
  <2> QED
    BY <1>1, <2>1, <2>4
<1>9. ChosenInv'
  <2> SUFFICES ASSUME NEW r \in Requests, req[r].pc \in Chosen
               PROVE  ChosenOf(req[r])'
    BY <1>1 DEF ChosenInv
  <2>1. PICK y : y = req[r]
    OBVIOUS
  <2>2. ChosenOf(y)
    BY <2>1, OwnParts
  <2>3. Aim(y)' = Aim(y) /\ Ahead(y, y.s)' = Ahead(y, y.s)
    BY DEF Aim, Ahead
  <2>4. ChosenOf(y)'
    BY <1>1, <2>2, <2>3 DEF ChosenOf, Named, Items
  <2> QED
    BY <1>1, <2>1, <2>4
<1>10. PageInv'
  BY <1>1, InvParts DEF PageInv, PageOf
<1> QED
  BY <1>3, <1>4, <1>6, <1>7, <1>8, <1>9, <1>10 DEF JournalInv, DiskInv

\* Every step keeps the invariant, one lemma per action.
LEMMA NextInv ==
  ASSUME JournalInv, ~Rollback, NoTornRollback, [Next]_vars
  PROVE  JournalInv'
<1>1. CASE UNCHANGED vars
  BY <1>1, StutterInv
<1>2. ASSUME NEW r \in Requests, BeginLoad(r) \/ BeginSave(r) \/ BeginApprove(r)
      PROVE  JournalInv'
  BY <1>2, BeginLoadInv, BeginSaveInv, BeginApproveInv
<1>3. ASSUME NEW r \in Requests, Recover(r)
      PROVE  JournalInv'
  <2>1. CASE List(r) \/ Check(r) \/ Compare(r) \/ Recheck(r)
    BY <2>1, ListInv, CheckInv, CompareInv, RecheckInv
  <2>2. CASE DropEvent(r) \/ DropCheckpoint(r)
    BY <2>2, DropEventInv, DropCheckpointInv
  <2>3. CASE PublishClaim(r) \/ PublishHead(r) \/ PublishEnd(r)
    BY <2>3, PublishClaimInv, PublishHeadInv, PublishEndInv
  <2>4. CASE Records(r) \/ Index(r) \/ Show(r)
    BY <2>4, RecordsInv, IndexInv, ShowInv
  <2> QED
    BY <1>3, <2>1, <2>2, <2>3, <2>4 DEF Recover
<1>4. ASSUME NEW r \in Requests, Write(r)
      PROVE  JournalInv'
  <2>1. CASE AcquireClaim(r) \/ Release(r)
    BY <2>1, AcquireClaimInv, ReleaseInv
  <2>2. CASE WriteCheckpoint(r) \/ WriteEvent(r)
    BY <2>2, WriteCheckpointInv, WriteEventInv
  <2>3. CASE WriteBody(r) \/ WriteHead(r)
    BY <2>3, WriteBodyInv, WriteHeadInv
  <2>4. CASE Undo(r)
    BY <2>4, UndoInv
  <2> QED
    BY <1>4, <2>1, <2>2, <2>3, <2>4 DEF Write
<1>5. ASSUME NEW x \in Servers, Die(x)
      PROVE  JournalInv'
  BY <1>5, DieInv
<1> QED
  BY <1>1, <1>2, <1>3, <1>4, <1>5 DEF Next

\* The files, the claims and the requests keep the inductive invariant, whatever the
\* number of requests, servers, versions, failures and deaths.
THEOREM JournalInvariant ==
  ASSUME ~Rollback, NoTornRollback
  PROVE  Spec => []JournalInv
<1>1. Init => JournalInv
  BY InitInv
<1>2. JournalInv /\ [Next]_vars => JournalInv'
  BY NextInv
<1> QED
  BY <1>1, <1>2, PTL DEF Spec

-----------------------------------------------------------------------------
(* What the invariant means for readers.                                   *)

\* A set numbered without gap or repetition has as many elements as numbers.
LEMMA Counted ==
  ASSUME NEW K, NEW n \in Nat, \A f \in K : f.v \in 1..n,
         \A v \in 1..n : \E f \in K : f.v = v,
         \A f, g \in K : f.v = g.v => f = g
  PROVE  {f.v : f \in K} = 1..Cardinality(K)
<1>1. {f.v : f \in K} = 1..n
  OBVIOUS
<1> DEFINE F == [f \in K |-> f.v]
<1>2. F \in Injection(K, 1..n)
  BY DEF Injection, IsInjective
<1>3. F \in Surjection(K, 1..n)
  BY DEF Surjection
<1>4. IsFiniteSet(1..n) /\ Cardinality(1..n) = n
  <2>1. /\ IsFiniteSet(1..n) /\ Cardinality(1..n) = IF 1 > n THEN 0 ELSE n - 1 + 1
    BY FS_Interval
  <2> QED
    BY <2>1
<1> HIDE DEF F
<1>5. Cardinality(K) = Cardinality(1..n)
  BY <1>2, <1>3, <1>4, FS_Injection
<1> QED
  BY <1>1, <1>4, <1>5

\* A set whose elements are all the same has one at most.
LEMMA AtMostOne ==
  ASSUME NEW K, \A f, g \in K : f = g
  PROVE  Cardinality(K) <= 1
<1>1. CASE K = {}
  BY <1>1, FS_EmptySet
<1>2. CASE K # {}
  <2>1. PICK f \in K : TRUE
    BY <1>2
  <2>2. K = {f}
    BY <2>1
  <2> QED
    BY <2>2, FS_Singleton
<1> QED
  BY <1>1, <1>2

\* The invariant of the files, as Unambiguous counts it.
LEMMA InvUnambiguous ==
  ASSUME JournalTypes, FilesInv
  PROVE  Unambiguous
<1> SUFFICES ASSUME NEW s \in Sessions
             PROVE  Contiguous(ckpt[s]) /\ Cardinality(Cand(s)) <= 1
  BY DEF Unambiguous, Cand
<1>1. head[s].v \in Nat /\ \A f \in ckpt[s] : f.v \in Nat /\ f.v > 0
  BY HeadFacts, CkptFacts
<1>2. /\ \A f, g \in ckpt[s] : f.v = g.v \/ f.c = g.c => f = g
      /\ \A f \in ckpt[s] : f.v <= head[s].v + 1
      /\ \A v \in 1..head[s].v : \E f \in ckpt[s] : f.v = v
  BY DEF FilesInv
<1>3. \A f, g \in Cand(s) : f = g
  BY CandVersion
<1>4. Contiguous(ckpt[s])
  <2>1. CASE Cand(s) = {}
    <3>1. \A f \in ckpt[s] : f.v \in 1..head[s].v
      BY <1>1, <1>2, <2>1 DEF Cand
    <3> QED
      BY <1>1, <1>2, <3>1, Counted DEF Contiguous
  <2>2. CASE Cand(s) # {}
    <3>1. PICK f \in Cand(s) : TRUE
      BY <2>2
    <3>2. f \in ckpt[s] /\ f.v = head[s].v + 1
      BY <3>1, CandVersion
    <3>3. PICK n \in Nat : n = head[s].v + 1
      BY <1>1
    <3>4. \A g \in ckpt[s] : g.v \in 1..n
      BY <1>1, <1>2, <3>3
    <3>5. \A v \in 1..n : v = n \/ v \in 1..head[s].v
      BY <1>1, <3>3
    <3>6. \A v \in 1..n : \E g \in ckpt[s] : g.v = v
      BY <1>2, <3>2, <3>3, <3>5
    <3> QED
      BY <1>2, <3>4, <3>6, Counted DEF Contiguous
  <2> QED
    BY <2>1, <2>2
<1> QED
  BY <1>3, <1>4, AtMostOne

\* The invariant of the bodies implies Readable.
LEMMA InvReadable ==
  ASSUME JournalTypes, FilesInv, BodyInv
  PROVE  Readable
<1> SUFFICES ASSUME NEW s \in Sessions, body[s] \notin {None} \cup Approved
             PROVE  \/ body[s] = head[s].c
                    \/ \E f \in ckpt[s] : /\ f.v = head[s].v + 1 /\ f.c = body[s]
                                          /\ Named(event[s], f) # {}
  BY DEF Readable
<1>1. CASE \E f \in Cand(s) : f.c = body[s] /\ Named(event[s], f) # {}
  BY <1>1, CandVersion
<1> QED
  BY <1>1 DEF BodyInv

\* The invariant implies DraftHasApproval.
LEMMA InvDraftHasApproval ==
  ASSUME JournalInv
  PROVE  DraftHasApproval
<1>0. JournalTypes /\ BodyInv /\ ApprovalInv /\ Draft \in Sessions
  BY InvParts, NoneFacts
<1>1. CommittedAfterApproval
  <2> SUFFICES ASSUME head[Draft].v > 0
               PROVE  \E f \in ckpt[Source] :
                        /\ f.c \in Approved
                        /\ \/ f.v <= head[Source].v
                           \/ body[Source] = f.c /\ Named(event[Source], f) # {}
    BY DEF CommittedAfterApproval
  <2>1. body[Draft] # None
    BY <1>0, CommittedBody
  <2> QED
    BY <1>0, <2>1 DEF ApprovalInv, ApprovalStands
<1>2. ShownAfterApproval
  <2> SUFFICES ASSUME NEW r \in Requests, Shown(r), req[r].seen.head[Draft].v > 0
               PROVE  req[r].seen.head[Source].c \in Approved
    BY DEF ShownAfterApproval
  <2>1. PageOf(req[r])
    BY OwnParts
  <2> QED
    BY <2>1 DEF PageOf, Shown, At
<1> QED
  BY <1>1, <1>2 DEF DraftHasApproval

\* The types of the invariant are those of TypeOK.
LEMMA InvTypeOK ==
  ASSUME JournalTypes
  PROVE  TypeOK
<1> SUFFICES ASSUME NEW r \in Requests
             PROVE  req[r].job \in Jobs
  BY DEF JournalTypes, Request, TypeOK
<1>1. req[r].job \in Seq(JobItem) /\ Len(req[r].job) \in 0..2
  BY JobType DEF JournalTypes
<1>2. req[r].job \in [1..Len(req[r].job) -> JobItem]
  BY <1>1
<1> QED
  BY <1>1, <1>2 DEF Jobs, JobItem

\* Records, heads, journal files, claims and requests have their types.
THEOREM JournalTypeOK ==
  ASSUME ~Rollback, NoTornRollback
  PROVE  Spec => []TypeOK
<1>1. JournalInv => TypeOK
  BY InvTypeOK, InvParts
<1> QED
  BY <1>1, JournalInvariant, PTL

\* A draft is committed, and a page shows it, only beside the approval that created it:
\* approveFeatureEvolveApproach writes the approval first, and listSessionPageOnce
\* compares what it read with the heads.
THEOREM DraftFollowsApproval ==
  ASSUME ~Rollback, NoTornRollback
  PROVE  Spec => []DraftHasApproval
<1>1. JournalInv => DraftHasApproval
  BY InvDraftHasApproval
<1> QED
  BY <1>1, JournalInvariant, PTL

\* The checkpoints of a session stay contiguous with one candidate at most, and a record
\* nobody is writing is the committed one or the one the next recoverSessionCommits
\* commits: readers never meet a journal they refuse for good.
THEOREM JournalRecoverable ==
  ASSUME ~Rollback, NoTornRollback
  PROVE  Spec => []Recoverable
<1>1. JournalInv => Recoverable
  BY InvUnambiguous, InvReadable, InvParts DEF Recoverable
<1> QED
  BY <1>1, JournalInvariant, PTL

-----------------------------------------------------------------------------
(* The refinement of CommittedSessions.                                    *)

\* A step removes no committed checkpoint.
CommittedKept == \A s \in Sessions : \A f \in ckpt[s] : f.v <= head[s].v => f \in ckpt'[s]

\* A step moves one head, if any, and to the next version.
HeadsFollow ==
  \/ UNCHANGED head
  \/ \E s \in Sessions, c \in Contents :
       head' = [head EXCEPT ![s] = [v |-> head[s].v + 1, c |-> c]]

\* A step that leaves heads and checkpoints commits nothing.
LEMMA SameFollow ==
  ASSUME UNCHANGED head, UNCHANGED ckpt
  PROVE  CommittedKept /\ HeadsFollow
BY DEF CommittedKept, HeadsFollow

\* A recovery drops a candidate, never a committed checkpoint.
LEMMA DropCheckpointFollow ==
  ASSUME JournalInv, NEW r \in Requests, DropCheckpoint(r)
  PROVE  CommittedKept /\ HeadsFollow
<1>1. UNCHANGED head
  BY DEF DropCheckpoint
<1>2. req[r].pc \in Chosen /\ req[r].pc \in Dropping /\ JournalTypes
  BY InvParts DEF DropCheckpoint, At, Chosen, Dropping
<1>3. PICK f : f = Aim(req[r])
  OBVIOUS
<1>4. PICK s \in Sessions : s = req[r].s
  BY <1>2, ChosenFacts
<1>5. ckpt' = [ckpt EXCEPT ![s] = @ \ {f}]
  BY <1>2, <1>3, <1>4, ChosenFacts DEF DropCheckpoint
<1>6. f \in ckpt[s] => f.v > head[s].v
  BY <1>2, <1>3, <1>4, ChosenFacts DEF ChosenOf
<1>7. ASSUME NEW t \in Sessions, NEW g \in ckpt[t], g.v <= head[t].v
      PROVE  g \in ckpt'[t]
  <2>1. g.v \in Nat /\ head[t].v \in Nat
    BY <1>2, CkptFacts, HeadFacts
  <2>2. g # f \/ t # s
    BY <1>6, <1>7, <2>1
  <2> QED
    BY <1>2, <1>5, <2>2 DEF JournalTypes
<1> QED
  BY <1>1, <1>7 DEF CommittedKept, HeadsFollow

\* A recovery publishes the next version.
LEMMA PublishHeadFollow ==
  ASSUME JournalInv, NEW r \in Requests, PublishHead(r)
  PROVE  CommittedKept /\ HeadsFollow
<1>1. UNCHANGED ckpt
  BY DEF PublishHead
<1>2. req[r].pc = "publishHead" /\ req[r].pc \in Chosen /\ JournalTypes /\ FilesInv
  BY InvParts DEF PublishHead, At, Chosen
<1>3. PICK f : f = Aim(req[r])
  OBVIOUS
<1>4. PICK s \in Sessions : s = req[r].s
  BY <1>2, ChosenFacts
<1>5. Candidate(r) = f
  BY <1>2, <1>3, ChosenFacts
<1>6. CASE UNCHANGED head
  BY <1>1, <1>6, SameFollow
<1>7. CASE /\ StillCandidate(r, s, f)
           /\ head' = [head EXCEPT ![s] = [v |-> f.v, c |-> f.c]]
  <2>1. f \in Cand(s)
    BY <1>2, <1>3, <1>4, <1>5, <1>7, PublishedCandidate
  <2>2. f.v = head[s].v + 1 /\ f.c \in Contents
    BY <1>2, <2>1, CandVersion, CkptFacts
  <2>3. HeadsFollow
    BY <1>7, <2>2 DEF HeadsFollow
  <2> QED
    BY <1>1, <2>3 DEF CommittedKept
<1> QED
  BY <1>3, <1>4, <1>5, <1>6, <1>7 DEF PublishHead

\* A writer adds its checkpoint.
LEMMA WriteCheckpointFollow ==
  ASSUME JournalInv, NEW r \in Requests, WriteCheckpoint(r)
  PROVE  CommittedKept /\ HeadsFollow
<1>1. UNCHANGED head
  BY DEF WriteCheckpoint
<1>2. JournalTypes
  BY InvParts
<1>3. UNCHANGED ckpt \/ \E s, f : ckpt' = [ckpt EXCEPT ![s] = @ \cup {f}]
  BY DEF WriteCheckpoint
<1>4. \A t \in Sessions : ckpt[t] \subseteq ckpt'[t]
  BY <1>2, <1>3 DEF JournalTypes
<1> QED
  BY <1>1, <1>4 DEF CommittedKept, HeadsFollow

\* A writer publishes the next version, or the current one again.
LEMMA WriteHeadFollow ==
  ASSUME JournalInv, NEW r \in Requests, WriteHead(r)
  PROVE  CommittedKept /\ HeadsFollow
<1>1. UNCHANGED ckpt
  BY DEF WriteHead
<1>2. /\ req[r].pc = "head" /\ req[r].pc \in Busy /\ JournalTypes /\ ShapesInv
      /\ req[r] \in Request
  BY InvParts, OwnParts DEF WriteHead, At, Busy
<1>3. PICK x \in Request : x = req[r]
  BY <1>2
<1>4. PICK a : a = x.at
  OBVIOUS
<1>5. PICK m : m = x.job[a]
  OBVIOUS
<1>6. a \in Items(x) /\ Item(r) = m /\ m.s \in Sessions /\ m.c \in Contents /\ a \in 1..2
  BY <1>2, <1>3, <1>4, <1>5, AtItem DEF Items, Request
<1>7. Kept(m) \/ InPlace(r, x, a, m)
  <2>1. a <= a
    BY <1>6
  <2>2. Made(x, a)
    BY <1>2, <1>3, <1>4, <2>1 DEF Made
  <2> QED
    BY <1>3, <1>5, <1>6, <2>2, OwnParts DEF ItemInv
<1>8. head' \in {head, [head EXCEPT ![m.s] = [v |-> m.v, c |-> m.c]]}
  BY <1>6 DEF WriteHead
<1>9. CASE head' = [head EXCEPT ![m.s] = [v |-> m.v, c |-> m.c]] /\ Kept(m)
  <2>1. head[m.s].v = m.v /\ head[m.s].c = m.c /\ head[m.s].v > 0
    BY <1>9 DEF Kept, AtHead
  <2>2. head[m.s] = [v |-> m.v, c |-> m.c]
    BY <1>2, <1>6, <2>1 DEF JournalTypes, Heads, NoHead
  <2>3. head' = head
    BY <1>2, <1>9, <2>2 DEF JournalTypes
  <2> QED
    BY <1>1, <2>3, SameFollow
<1>10. CASE head' = [head EXCEPT ![m.s] = [v |-> m.v, c |-> m.c]] /\ InPlace(r, x, a, m)
  <2>1. m.v = head[m.s].v + 1
    BY <1>10 DEF InPlace
  <2>2. HeadsFollow
    BY <1>6, <1>10, <2>1 DEF HeadsFollow
  <2> QED
    BY <1>1, <2>2 DEF CommittedKept
<1>11. CASE head' = head
  BY <1>1, <1>11, SameFollow
<1> QED
  BY <1>7, <1>8, <1>9, <1>10, <1>11

\* A writer that undoes removes what is beyond the head.
LEMMA UndoFollow ==
  ASSUME JournalInv, NEW r \in Requests, Undo(r)
  PROVE  CommittedKept /\ HeadsFollow
<1>1. UNCHANGED head
  BY DEF Undo
<1>2. JournalTypes /\ ShapesInv
  BY InvParts
<1>3. CASE UNCHANGED ckpt
  BY <1>1, <1>3, SameFollow
<1>4. ASSUME NEW i \in 1..Len(req[r].job),
             ckpt' = [ckpt EXCEPT ![req[r].job[i].s] = @ \ Created(r, i, ckpt)]
      PROVE  CommittedKept
  <2>1. PICK s : s = req[r].job[i].s
    OBVIOUS
  <2>2. PICK D : D = Created(r, i, ckpt)
    OBVIOUS
  <2>3. \A f \in D : f.v > head[s].v
    BY <2>1, <2>2 DEF Created
  <2>4. ckpt' = [ckpt EXCEPT ![s] = @ \ D]
    BY <1>4, <2>1, <2>2
  <2> SUFFICES ASSUME NEW t \in Sessions, NEW g \in ckpt[t], g.v <= head[t].v
               PROVE  g \in ckpt'[t]
    BY DEF CommittedKept
  <2>5. g.v \in Nat /\ head[t].v \in Nat
    BY <1>2, CkptFacts, HeadFacts
  <2>6. g \notin D \/ t # s
    BY <2>3, <2>5
  <2> QED
    BY <1>2, <2>4, <2>6 DEF JournalTypes
<1>5. UNCHANGED ckpt \/ \E i \in 1..Len(req[r].job) :
        ckpt' = [ckpt EXCEPT ![req[r].job[i].s] = @ \ Created(r, i, ckpt)]
  BY <1>2, UndoShape
<1> QED
  BY <1>1, <1>3, <1>4, <1>5 DEF HeadsFollow

\* Committed checkpoints stay, and heads advance one version at a time.
LEMMA NextFollow ==
  ASSUME JournalInv, [Next]_vars
  PROVE  CommittedKept /\ HeadsFollow
<1>1. CASE UNCHANGED vars
  BY <1>1, SameFollow DEF vars
<1>2. ASSUME NEW r \in Requests, BeginLoad(r) \/ BeginSave(r) \/ BeginApprove(r)
      PROVE  CommittedKept /\ HeadsFollow
  BY <1>2, SameFollow DEF BeginLoad, BeginSave, BeginApprove, files
<1>3. ASSUME NEW r \in Requests, Recover(r)
      PROVE  CommittedKept /\ HeadsFollow
  <2>1. CASE List(r) \/ Check(r) \/ Compare(r) \/ Recheck(r)
    BY <2>1, SameFollow DEF List, Check, Compare, Recheck, files
  <2>2. CASE DropEvent(r) \/ PublishClaim(r) \/ PublishEnd(r)
    BY <2>2, SameFollow DEF DropEvent, PublishClaim, PublishEnd
  <2>3. CASE DropCheckpoint(r) \/ PublishHead(r)
    BY <2>3, DropCheckpointFollow, PublishHeadFollow
  <2>4. CASE Records(r) \/ Index(r) \/ Show(r)
    BY <2>4, SameFollow DEF Records, Index, Show, files
  <2> QED
    BY <1>3, <2>1, <2>2, <2>3, <2>4 DEF Recover
<1>4. ASSUME NEW r \in Requests, Write(r)
      PROVE  CommittedKept /\ HeadsFollow
  <2>1. CASE AcquireClaim(r) \/ Release(r) \/ WriteEvent(r) \/ WriteBody(r)
    BY <2>1, SameFollow DEF AcquireClaim, Release, WriteEvent, WriteBody
  <2>2. CASE WriteCheckpoint(r) \/ WriteHead(r) \/ Undo(r)
    BY <2>2, WriteCheckpointFollow, WriteHeadFollow, UndoFollow
  <2> QED
    BY <1>4, <2>1, <2>2 DEF Write
<1>5. ASSUME NEW x \in Servers, Die(x)
      PROVE  CommittedKept /\ HeadsFollow
  BY <1>5, SameFollow DEF Die
<1> QED
  BY <1>1, <1>2, <1>3, <1>4, <1>5 DEF Next

\* The committed content of version v, by the checkpoints K and the head h.
CommittedIn(K, h, v) ==
  IF \E f \in K : f.v = v /\ (v = h.v => f.c = h.c)
  THEN (CHOOSE f \in K : f.v = v /\ (v = h.v => f.c = h.c)).c
  ELSE None

\* The committed content of a version is that of its one checkpoint.
LEMMA CommittedFile ==
  ASSUME NEW K, NEW h, NEW f \in K, \A g, k \in K : g.v = k.v => g = k,
         f.v = h.v => f.c = h.c
  PROVE  CommittedIn(K, h, f.v) = f.c
<1>1. f.v = f.v /\ (f.v = h.v => f.c = h.c)
  OBVIOUS
<1>2. \A g \in K : g.v = f.v /\ (f.v = h.v => g.c = h.c) => g = f
  OBVIOUS
<1>3. (CHOOSE g \in K : g.v = f.v /\ (f.v = h.v => g.c = h.c)) = f
  BY <1>1, <1>2
<1> QED
  BY <1>1, <1>3 DEF CommittedIn

\* The checkpoint of the version of the head has its content.
LEMMA HeadVersion ==
  ASSUME JournalTypes, FilesInv, NEW s \in Sessions, NEW f \in ckpt[s], f.v = head[s].v
  PROVE  f.c = head[s].c
<1>1. head[s].v > 0
  BY HeadFacts, CkptFacts
<1> QED
  BY <1>1 DEF FilesInv

\* A sequence one longer that agrees with the shorter one is the latter appended to.
LEMMA AppendOne ==
  ASSUME NEW S, NEW n \in Nat, NEW k, k = n + 1, NEW q \in [1..n -> S],
         NEW p \in [1..k -> S],
         \A i \in 1..n : p[i] = q[i]
  PROVE  p = Append(q, p[k]) /\ p[k] \in S
<1>1. q \in Seq(S) /\ Len(q) = n
  OBVIOUS
<1>2. k \in 1..k /\ \A i \in 1..k : i \in 1..n \/ i = k
  OBVIOUS
<1>3. p[k] \in S
  BY <1>2
<1>4. PICK c \in S : c = p[k]
  BY <1>3
<1>5. Append(q, c) \in Seq(S) /\ Len(Append(q, c)) = n + 1
  BY <1>1
<1>6. /\ \A i \in 1..n : Append(q, c)[i] = q[i]
      /\ Append(q, c)[n + 1] = c
  BY <1>1
<1>7. Append(q, c) \in [1..k -> S]
  <2>1. PICK z : z = Append(q, c)
    OBVIOUS
  <2>2. z \in Seq(S) /\ Len(z) = k
    BY <1>5, <2>1
  <2>3. z \in [1..Len(z) -> S]
    BY <2>2
  <2> QED
    BY <2>1, <2>2, <2>3
<1>8. \A i \in 1..k : Append(q, c)[i] = p[i]
  <2> TAKE i \in 1..k
  <2>1. CASE i \in 1..n
    BY <1>6, <2>1
  <2>2. CASE i = k
    BY <1>4, <1>6, <2>2
  <2> QED
    BY <1>2, <2>1, <2>2
<1> QED
  BY <1>3, <1>4, <1>7, <1>8

\* Checkpoints K and head h of one session, as FilesInv has them.
OneHistory(K, h) ==
  /\ \A f, g \in K : f.v = g.v => g = f
  /\ h.v > 0 => \E g \in K : g.v = h.v /\ g.c = h.c

\* The committed content of a version is that of its one checkpoint.
LEMMA OneHistoryFile ==
  ASSUME NEW K, NEW h, OneHistory(K, h), NEW f \in K, f.v > 0
  PROVE  CommittedIn(K, h, f.v) = f.c
<1>1. f.v = h.v => f.c = h.c
  BY DEF OneHistory
<1>2. \A g, k \in K : g.v = k.v => g = k
  BY DEF OneHistory
<1> QED
  BY <1>1, <1>2, CommittedFile

\* A version committed before and after the step keeps its content.
LEMMA VersionKept ==
  ASSUME JournalInv, FilesInv', CommittedKept, NEW s \in Sessions, NEW v \in 1..head[s].v
  PROVE  CommittedAt(s, v)' = CommittedAt(s, v) /\ CommittedAt(s, v) \in Contents
<1>1. JournalTypes /\ FilesInv /\ head[s].v \in Nat
  BY InvParts, HeadFacts
<1>2. PICK f \in ckpt[s] : f.v = v
  BY <1>1 DEF FilesInv
<1>3. f.v > 0 /\ f.c \in Contents /\ f.v <= head[s].v
  BY <1>1, <1>2, CkptFacts
<1>4. f \in ckpt'[s]
  BY <1>3 DEF CommittedKept
<1>5. OneHistory(ckpt[s], head[s])
  BY <1>1 DEF OneHistory, FilesInv
<1>6. OneHistory(ckpt'[s], head'[s])
  BY DEF OneHistory, FilesInv
<1>7. CommittedIn(ckpt[s], head[s], v) = f.c
  BY <1>2, <1>3, <1>5, OneHistoryFile
<1>8. CommittedIn(ckpt'[s], head'[s], v) = f.c
  BY <1>2, <1>3, <1>4, <1>6, OneHistoryFile
<1>9. CommittedAt(s, v) = CommittedIn(ckpt[s], head[s], v)
  BY DEF CommittedAt, CommittedIn
<1>10. CommittedAt(s, v)' = CommittedIn(ckpt'[s], head'[s], v)
  BY DEF CommittedAt, CommittedIn
<1> QED
  BY <1>3, <1>7, <1>8, <1>9, <1>10

\* The head's own version is in the checkpoints.
LEMMA NewVersion ==
  ASSUME JournalTypes', FilesInv', NEW s \in Sessions, NEW v, v = head'[s].v, v > 0,
         v \in Nat
  PROVE  CommittedAt(s, v)' \in Contents
<1>1. PICK f \in ckpt'[s] : f.v = v
  BY DEF FilesInv
<1>2. f.c \in Contents
  BY DEF JournalTypes, Files
<1>3. OneHistory(ckpt'[s], head'[s])
  BY DEF OneHistory, FilesInv
<1>4. CommittedIn(ckpt'[s], head'[s], v) = f.c
  BY <1>1, <1>3, OneHistoryFile
<1>5. CommittedAt(s, v)' = CommittedIn(ckpt'[s], head'[s], v)
  BY DEF CommittedAt, CommittedIn
<1> QED
  BY <1>2, <1>4, <1>5

\* The refinement, step by step: a stutter, or one content at one history's end.
LEMMA HistoryStep ==
  ASSUME JournalInv, JournalInv', [Next]_vars
  PROVE  [Committed!Next]_History
<1>0. JournalTypes /\ JournalTypes' /\ FilesInv' /\ CommittedKept /\ HeadsFollow
  BY InvParts, NextFollow DEF JournalInv
<1>1. \A s \in Sessions : \A v \in 1..head[s].v :
        CommittedAt(s, v)' = CommittedAt(s, v) /\ CommittedAt(s, v) \in Contents
  BY <1>0, VersionKept
<1>2. CASE UNCHANGED head
  <2>1. \A s \in Sessions : [v \in 1..head'[s].v |-> CommittedAt(s, v)'] =
                            [v \in 1..head[s].v |-> CommittedAt(s, v)]
    BY <1>1, <1>2
  <2>2. History' = History
    BY <2>1 DEF History
  <2> QED
    BY <2>2
<1>3. ASSUME NEW t \in Sessions, NEW d \in Contents,
             head' = [head EXCEPT ![t] = [v |-> head[t].v + 1, c |-> d]]
      PROVE  Committed!Next
  <2>1. PICK n \in Nat : n = head[t].v
    BY <1>0, HeadFacts
  <2>2. PICK k \in Nat : k = n + 1
    OBVIOUS
  <2>3. head'[t].v = k /\ \A s \in Sessions : s # t => head'[s] = head[s]
    BY <1>0, <1>3, <2>1, <2>2 DEF JournalTypes
  <2>4. PICK q : q = [v \in 1..n |-> CommittedAt(t, v)]
    OBVIOUS
  <2>5. PICK p : p = [v \in 1..k |-> CommittedAt(t, v)']
    OBVIOUS
  <2>6. q \in [1..n -> Contents] /\ \A v \in 1..n : q[v] = CommittedAt(t, v)
    BY <1>1, <2>1, <2>4
  <2>7. \A v \in 1..k : p[v] = CommittedAt(t, v)'
    BY <2>5
  <2>8. \A v \in 1..k : v \in 1..n \/ v = k
    BY <2>2
  <2>9. CommittedAt(t, k)' \in Contents
    BY <1>0, <2>2, <2>3, NewVersion
  <2>10. \A v \in 1..k : CommittedAt(t, v)' \in Contents
    <3> TAKE v \in 1..k
    <3>1. CASE v \in 1..n
      BY <1>1, <2>1, <3>1
    <3>2. CASE v = k
      BY <2>9, <3>2
    <3> QED
      BY <2>8, <3>1, <3>2
  <2>11. p \in [1..k -> Contents]
    BY <2>5, <2>10
  <2>12. \A v \in 1..n : v \in 1..k
    BY <2>2
  <2>13. \A v \in 1..n : p[v] = q[v]
    BY <1>1, <2>1, <2>6, <2>7, <2>12
  <2>14. p = Append(q, p[k]) /\ p[k] \in Contents
    BY <2>2, <2>6, <2>11, <2>13, AppendOne
  <2>15. History[t] = q /\ History'[t] = p
    BY <2>1, <2>3, <2>4, <2>5 DEF History
  <2>16. \A s \in Sessions : s # t => History'[s] = History[s]
    <3> SUFFICES ASSUME NEW s \in Sessions, s # t
                 PROVE  [v \in 1..head'[s].v |-> CommittedAt(s, v)'] =
                        [v \in 1..head[s].v |-> CommittedAt(s, v)]
      BY DEF History
    <3> QED
      BY <1>1, <2>3
  <2>17. /\ DOMAIN History = Sessions /\ DOMAIN History' = Sessions
         /\ History = [s \in DOMAIN History |-> History[s]]
         /\ History' = [s \in DOMAIN History' |-> History'[s]]
    BY DEF History
  <2>18. History' = [History EXCEPT ![t] = Append(History[t], p[k])]
    BY <2>14, <2>15, <2>16, <2>17
  <2>19. Committed!Commit(t, p[k])
    BY <2>18 DEF Committed!Commit
  <2> QED
    BY <2>14, <2>19 DEF Committed!Next
<1> QED
  BY <1>0, <1>2, <1>3 DEF HeadsFollow

\* The initial history is empty.
LEMMA HistoryInit == Init => Committed!Init
<1> SUFFICES ASSUME Init
             PROVE  History = [s \in Sessions |-> <<>>]
  BY DEF Committed!Init
<1>1. \A s \in Sessions : head[s].v = 0
  BY DEF Init, NoHead
<1>2. \A s \in Sessions : [v \in 1..head[s].v |-> CommittedAt(s, v)] = <<>>
  BY <1>1
<1> QED
  BY <1>2 DEF History

\* The journal implements CommittedSessions: the committed contents of the sessions only
\* grow, one at a time and at the end, whoever writes, recovers, fails or dies.
THEOREM JournalKeepsHistory ==
  ASSUME ~Rollback, NoTornRollback
  PROVE  Spec => HistoryKept
<1>1. Init => Committed!Init
  BY HistoryInit
<1>2. JournalInv /\ JournalInv' /\ [Next]_vars => [Committed!Next]_History
  BY HistoryStep
<1> QED
  BY <1>1, <1>2, JournalInvariant, PTL DEF Spec, HistoryKept, Committed!Spec

=============================================================================
