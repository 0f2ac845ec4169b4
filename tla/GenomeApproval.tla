---------------------------- MODULE GenomeApproval ----------------------------
(* The Design Genome of packages/governance/src/genome-store.ts: how it is    *)
(* initialized, read, and approved once by the local user.  An approval       *)
(* replaces two files, the evidence catalog in the machine directory and      *)
(* DESIGN-GENOME.md in the project's worktree, by a staged transaction that   *)
(* every later owner of the governance lock first completes or discards.      *)
(* Readers take no lock unless they see a transaction pending.  One step is   *)
(* one operation of the file system; a process may die before any of them,   *)
(* and a write may fail before or after its rename.                           *)
EXTENDS Naturals, FiniteSets, Sequences

CONSTANTS
  Procs,       \* requests, each served by a process of its own
  Claims,      \* draft rules that can be approved, one per transaction
  Free, Dead,  \* no lock; the lock of a process that died
  None,        \* no transaction
  Prompt,      \* a stale lock is compared and removed without interruption
  MaxFaults,   \* bound on deaths of a process and failing writes, together
  MaxEdits     \* bound on reverts of DESIGN-GENOME.md by the user

ASSUME GenomeAssumption ==
  /\ Free # Dead
  /\ {Free, Dead} \cap Procs = {}
  /\ {None, "none", "draft"} \cap Claims = {}
  /\ Prompt \in BOOLEAN
  /\ MaxFaults \in Nat
  /\ MaxEdits \in Nat

VARIABLES
  lock,     \* governance.lock: its owner, and whether the temporary is linked too
  genome,   \* DESIGN-GENOME.md: absent, the draft, or approved with a claim
  catalog,  \* governance-evidence.json: the claims it verifies, {None} if absent
  staged,   \* genome-approval-transaction/
  pointer,  \* pending-genome-approval.json
  head,     \* last-genome-approval.json
  req,      \* what each request is doing
  torn,     \* a removal of the staging directory, or the manifest's first
            \* write, was interrupted
  faults, edits

files == <<genome, catalog, staged, pointer, head>>
vars == <<lock, files, req, torn, faults, edits>>

Transactions == Claims \cup {None}
Parts == {"genome", "catalog", "manifest"}
Temporary == "the manifest's temporary file"
Absent == {None}
Catalogs == (SUBSET Claims) \cup {Absent}
Empty == [dir |-> FALSE, parts |-> {}, tx |-> None, base |-> {}]
Idle == [pc |-> "idle", op |-> "none", claim |-> None, again |-> FALSE,
         genome |-> "none", catalog |-> Absent]

Init ==
  /\ lock = [by |-> Free, linked |-> FALSE]
  /\ genome = "none"
  /\ catalog = Absent
  /\ staged = Empty
  /\ pointer = None
  /\ head = None
  /\ req = [p \in Procs |-> Idle]
  /\ torn = FALSE
  /\ faults = 0
  /\ edits = 0

At(p, pc) == req[p].pc = pc
Goes(p, pc) == req' = [req EXCEPT ![p].pc = pc] /\ UNCHANGED faults
Fails(p, pc) ==
  /\ faults < MaxFaults
  /\ faults' = faults + 1
  /\ req' = [req EXCEPT ![p].pc = pc]

-----------------------------------------------------------------------------
(* withMachineGovernanceLock                                                 *)

Ask(p, op, claim) ==
  /\ At(p, "idle")
  /\ req' = [req EXCEPT ![p] = [Idle EXCEPT !.op = op, !.claim = claim,
                                            !.pc = IF op = "read" THEN "peek" ELSE "lock"]]
  /\ UNCHANGED <<lock, files, torn, faults, edits>>

\* The complete claim is published by a hard link...
Link(p) ==
  /\ At(p, "lock")
  /\ lock.by = Free
  /\ lock' = [by |-> p, linked |-> TRUE]
  /\ Goes(p, "linked")
  /\ UNCHANGED <<files, torn, edits>>

\* ... and owned once it is the only link.
UnlinkTemporary(p) ==
  /\ At(p, "linked")
  /\ lock' = [lock EXCEPT !.linked = FALSE]
  /\ Goes(p, "reconcile")
  /\ UNCHANGED <<files, torn, edits>>

\* A hundred attempts later.
Busy(p) ==
  /\ At(p, "lock")
  /\ lock.by # Free
  /\ req' = [req EXCEPT ![p] = Idle]
  /\ UNCHANGED <<lock, files, torn, faults, edits>>

\* Older than 30 seconds, and its owner is gone.
FindStale(p) ==
  /\ At(p, "lock")
  /\ lock.by = Dead /\ ~lock.linked
  /\ Goes(p, "unlink")
  /\ UNCHANGED <<lock, files, torn, edits>>

\* Mutant of UnlinkStale: the lock is removed without a comparison.
UnlinkAny(p) ==
  /\ At(p, "unlink")
  /\ lock' = [by |-> Free, linked |-> FALSE]
  /\ Goes(p, "lock")
  /\ UNCHANGED <<files, torn, edits>>

\* Between the comparison and the unlink another claimant may have been faster.
UnlinkStale(p) ==
  /\ At(p, "unlink")
  /\ lock' = IF Prompt /\ lock.by # Dead THEN lock ELSE [by |-> Free, linked |-> FALSE]
  /\ Goes(p, "lock")
  /\ UNCHANGED <<files, torn, edits>>

\* The lock must still be the one this process published.
Release(p) ==
  /\ At(p, "release")
  /\ lock' = IF lock.by = p THEN [by |-> Free, linked |-> FALSE] ELSE lock
  /\ req' = [req EXCEPT ![p] = Idle]
  /\ UNCHANGED <<files, torn, faults, edits>>

-----------------------------------------------------------------------------
(* reconcileGenomeApprovalTransaction, at every acquisition of the lock and   *)
(* once more by the approval itself.                                          *)

Pending == IF pointer # None THEN pointer
           ELSE IF "manifest" \in staged.parts THEN staged.tx ELSE None
PendingExists == pointer # None \/ staged.dir

NewCatalog == staged.base \cup {staged.tx}

\* The live documents are those before, between or after the two promotions.
Recoverable ==
  <<genome, catalog>> \in {<<"draft", staged.base>>, <<"draft", NewCatalog>>, <<staged.tx, NewCatalog>>}

Proceed(p) ==
  IF req[p].again THEN "release"
  ELSE CASE req[p].op = "init" -> "check"
         [] req[p].op = "approve" -> "begin"
         [] req[p].op = "read" -> "genome"

\* What is due: nothing, a discard, a completion, a cleanup, or an error.
Verdict ==
  CASE Pending = None /\ Temporary \in staged.parts -> "error"
    [] Pending = None /\ Temporary \notin staged.parts ->
         IF staged.dir THEN "discard" ELSE "nothing"
    [] Pending # None /\ (~(Parts \subseteq staged.parts) \/ staged.tx # Pending) -> "error"
    [] Parts \subseteq staged.parts /\ head = Pending ->
         IF <<genome, catalog>> = <<staged.tx, NewCatalog>> THEN "cleanup" ELSE "error"
    [] OTHER -> IF Recoverable THEN "complete" ELSE "error"

\* Mutant of Plan: the consumed head is not looked at.
PlanAgain ==
  IF Pending # None /\ Recoverable /\ Parts \subseteq staged.parts THEN "complete" ELSE Verdict

\* Mutant of Plan: a consumed transaction needs no cleanup.
PlanConsumed == IF Verdict = "cleanup" THEN "nothing" ELSE Verdict

Plan == Verdict

Reconcile(p) ==
  /\ At(p, "reconcile")
  /\ req' = [req EXCEPT ![p].genome = genome, ![p].catalog = catalog,
               ![p].pc = CASE Plan = "nothing" -> Proceed(p)
                           [] Plan = "discard" -> "discard"
                           [] Plan = "cleanup" -> "unpoint"
                           [] Plan = "complete" -> "first"
                           [] Plan = "error" -> "release"]
  /\ UNCHANGED <<lock, files, torn, faults, edits>>

\* The two promotions, each unless the live document was found up to date.
Promote(p, pc, document, next) ==
  /\ At(p, pc)
  /\ \/ document = "catalog" /\ req[p].catalog # NewCatalog /\ catalog' = NewCatalog
        /\ Goes(p, next) /\ UNCHANGED genome
     \/ document = "catalog" /\ req[p].catalog # NewCatalog /\ catalog' \in {catalog, NewCatalog}
        /\ Fails(p, "release") /\ UNCHANGED genome
     \/ document = "genome" /\ req[p].genome # staged.tx /\ genome' = staged.tx
        /\ Goes(p, next) /\ UNCHANGED catalog
     \/ document = "genome" /\ req[p].genome # staged.tx /\ genome' \in {genome, staged.tx}
        /\ Fails(p, "release") /\ UNCHANGED catalog
     \/ /\ IF document = "catalog" THEN req[p].catalog = NewCatalog ELSE req[p].genome = staged.tx
        /\ Goes(p, next) /\ UNCHANGED <<genome, catalog>>
  /\ UNCHANGED <<lock, staged, pointer, head, torn, edits>>

\* Mutant of Order: the Genome is replaced before its evidence.
GenomeFirst == <<"genome", "catalog">>

Order == <<"catalog", "genome">>

PromoteFirst(p) == Promote(p, "first", Order[1], "second")
PromoteSecond(p) == Promote(p, "second", Order[2], "head")

WriteHead(p) ==
  /\ At(p, "head")
  /\ \/ Goes(p, "unpoint") /\ head' = staged.tx
     \/ Fails(p, "release") /\ head' \in {head, staged.tx}
  /\ UNCHANGED <<lock, genome, catalog, staged, pointer, torn, edits>>

Unpoint(p) ==
  /\ At(p, "unpoint")
  /\ pointer' = None
  /\ Goes(p, "discard")
  /\ UNCHANGED <<lock, genome, catalog, staged, head, torn, edits>>

\* rm of the staging directory; an error leaves some of it.
Removal(p, next, error) ==
  \/ staged' = Empty /\ Goes(p, next) /\ UNCHANGED torn
  \/ /\ \E rest \in (SUBSET staged.parts) \ {staged.parts} : staged' = [staged EXCEPT !.parts = rest]
     /\ torn' = TRUE
     /\ Fails(p, error)

Discard(p) ==
  /\ At(p, "discard")
  /\ Removal(p, Proceed(p), "release")
  /\ UNCHANGED <<lock, genome, catalog, pointer, head, edits>>

-----------------------------------------------------------------------------
(* initializeGovernance: its private staging directories are not modelled.   *)

Check(p) ==
  /\ At(p, "check")
  /\ IF genome # "none" THEN Goes(p, "release") /\ UNCHANGED catalog
     ELSE Goes(p, "evidence") /\ catalog' = Absent
  /\ UNCHANGED <<lock, genome, staged, pointer, head, torn, edits>>

WriteEvidence(p) ==
  /\ At(p, "evidence")
  /\ \/ catalog' = {} /\ Goes(p, "documents")
     \/ catalog' \in {catalog, {}} /\ Fails(p, "release")
  /\ UNCHANGED <<lock, genome, staged, pointer, head, torn, edits>>

\* One rename promotes the three documents.
PromoteDocuments(p) ==
  /\ At(p, "documents")
  /\ \/ genome' = "draft" /\ Goes(p, "release") /\ UNCHANGED catalog
     \/ catalog' = Absent /\ Fails(p, "release") /\ UNCHANGED genome
  /\ UNCHANGED <<lock, staged, pointer, head, torn, edits>>

-----------------------------------------------------------------------------
(* approveGenome                                                             *)

\* Only a draft, and only a rule that no evidence verifies yet.
Begin(p) ==
  /\ At(p, "begin")
  /\ IF genome = "draft" /\ req[p].claim \notin catalog /\ ~staged.dir
     THEN Goes(p, "stage genome") /\ staged' = [Empty EXCEPT !.dir = TRUE]
     ELSE Goes(p, "release") /\ UNCHANGED staged
  /\ UNCHANGED <<lock, genome, catalog, pointer, head, torn, edits>>

Stage(p, pc, part, next) ==
  LET written == [staged EXCEPT !.parts = @ \cup {part}, !.tx = req[p].claim, !.base = catalog]
  IN  /\ At(p, pc)
      /\ \/ staged' = written /\ Goes(p, next)
         \/ staged' \in {staged, written} /\ Fails(p, "abort")
      /\ UNCHANGED <<lock, genome, catalog, pointer, head, torn, edits>>

StageGenome(p) == Stage(p, "stage genome", "genome", "stage catalog")
StageCatalog(p) == Stage(p, "stage catalog", "catalog", "stage manifest")
StageManifest(p) == Stage(p, "stage manifest", "manifest", "publish")

\* The transaction is decided when its pointer is published.
Publish(p) ==
  /\ At(p, "publish")
  /\ \/ /\ pointer' = staged.tx
        /\ req' = [req EXCEPT ![p].pc = "reconcile", ![p].again = TRUE]
        /\ UNCHANGED faults
     \/ pointer' \in {pointer, staged.tx} /\ Fails(p, "abort")
  /\ UNCHANGED <<lock, genome, catalog, staged, head, torn, edits>>

\* Mutant of Abort: a failed publication is taken for no publication.
AbortBlindly(p) ==
  /\ At(p, "abort")
  /\ Removal(p, "release", "release")
  /\ UNCHANGED <<lock, genome, catalog, pointer, head, edits>>

\* The staged files are dropped, unless the pointer turns out to be there.
Abort(p) ==
  /\ At(p, "abort")
  /\ IF pointer = req[p].claim
     THEN Goes(p, "release") /\ UNCHANGED <<staged, torn>>
     ELSE Removal(p, "release", "release")
  /\ UNCHANGED <<lock, genome, catalog, pointer, head, edits>>

-----------------------------------------------------------------------------
(* readGenome: without the lock unless an approval is pending, and once more   *)
(* under the lock if one is pending afterwards.                               *)

Peek(p) ==
  /\ At(p, "peek")
  /\ Goes(p, IF PendingExists THEN "lock" ELSE "genome")
  /\ UNCHANGED <<lock, files, torn, edits>>

ReadGenome(p) ==
  /\ At(p, "genome")
  /\ IF genome = "none" THEN req' = [req EXCEPT ![p].pc = "return"]
     ELSE req' = [req EXCEPT ![p].pc = "catalog", ![p].genome = genome]
  /\ UNCHANGED <<lock, files, torn, faults, edits>>

ReadCatalog(p) ==
  /\ At(p, "catalog")
  /\ req' = [req EXCEPT ![p].pc = "related", ![p].catalog = catalog]
  /\ UNCHANGED <<lock, files, torn, faults, edits>>

Related(p) ==
  /\ At(p, "related")
  /\ Goes(p, "return")
  /\ UNCHANGED <<lock, files, torn, edits>>

\* An owner of the lock returns, another reader looks for an approval again.
Return(p) ==
  /\ At(p, "return")
  /\ IF lock.by = p THEN Goes(p, "release")
     ELSE IF PendingExists THEN Goes(p, "lock")
     ELSE req' = [req EXCEPT ![p] = Idle] /\ UNCHANGED faults
  /\ UNCHANGED <<lock, files, torn, edits>>

-----------------------------------------------------------------------------
\* The user restores the draft, from version control say.
Revert ==
  /\ genome \in Claims
  /\ edits < MaxEdits
  /\ edits' = edits + 1
  /\ genome' = "draft"
  /\ UNCHANGED <<lock, catalog, staged, pointer, head, req, torn, faults>>

\* A process dies; the lock it owned is nobody's.  A write it was in leaves a
\* temporary file, which only matters where the recovery does not know it; a
\* removal it was in may be half done.
Die(p) ==
  /\ ~At(p, "idle")
  /\ faults < MaxFaults
  /\ faults' = faults + 1
  /\ lock' = IF lock.by = p THEN [lock EXCEPT !.by = Dead] ELSE lock
  /\ req' = [req EXCEPT ![p] = Idle]
  /\ \/ UNCHANGED <<staged, torn>>
     \/ /\ At(p, "stage manifest")
        /\ staged' = [staged EXCEPT !.parts = @ \cup {Temporary}]
        /\ torn' = TRUE
     \/ /\ At(p, "discard")
        /\ \E rest \in SUBSET staged.parts : staged' = [staged EXCEPT !.parts = rest]
        /\ torn' = TRUE
  /\ UNCHANGED <<genome, catalog, pointer, head, edits>>

Step(p) ==
  \/ Link(p) \/ UnlinkTemporary(p) \/ Busy(p) \/ UnlinkStale(p) \/ Release(p)
  \/ Reconcile(p) \/ PromoteFirst(p) \/ PromoteSecond(p) \/ WriteHead(p) \/ Unpoint(p)
  \/ Discard(p) \/ Check(p) \/ WriteEvidence(p) \/ PromoteDocuments(p)
  \/ Begin(p) \/ StageGenome(p) \/ StageCatalog(p) \/ StageManifest(p)
  \/ Publish(p) \/ Abort(p) \/ Peek(p) \/ ReadGenome(p) \/ ReadCatalog(p)
  \/ Related(p) \/ Return(p)

Request(p) ==
  \/ Ask(p, "init", None)
  \/ Ask(p, "read", None)
  \/ \E c \in Claims : Ask(p, "approve", c)

Next ==
  \/ \E p \in Procs : Request(p) \/ Step(p) \/ FindStale(p) \/ Die(p)
  \/ Revert

Spec == Init /\ [][Next]_vars

\* Requests go on, pages keep reading, and a stale lock grows old.
FairSpec ==
  /\ Spec
  /\ \A p \in Procs :
       WF_vars(Step(p)) /\ WF_vars(Ask(p, "read", None)) /\ SF_vars(FindStale(p))

-----------------------------------------------------------------------------
(* Properties.                                                               *)

\* The documents and the machine files keep their types.
TypeOK ==
  /\ lock \in [by : Procs \cup {Free, Dead}, linked : BOOLEAN]
  /\ genome \in Claims \cup {"none", "draft"}
  /\ catalog \in Catalogs
  /\ staged \in [dir : BOOLEAN, parts : SUBSET (Parts \cup {Temporary}), tx : Transactions, base : Catalogs]
  /\ {pointer, head} \subseteq Transactions

\* An approved Genome is always backed by the evidence catalog beside it, also
\* for a reader that comes between the two files of an approval.
ApprovedIsBacked ==
  /\ genome \in Claims => genome \in catalog
  /\ genome # "none" => catalog # Absent
  /\ \A p \in Procs : At(p, "related") /\ req[p].genome \in Claims => req[p].genome \in req[p].catalog

\* However an approval is interrupted, the next owner of the lock can complete
\* or discard it, as long as nobody edits the Genome, no removal is torn and the
\* manifest's first write is not cut off.
NeverWedged == ~torn /\ edits = 0 => Verdict # "error"

\* Only the owner of the lock is between taking and releasing it.
Working == {"linked", "reconcile", "first", "second", "head", "unpoint", "discard", "check",
            "evidence", "documents", "begin", "stage genome", "stage catalog",
            "stage manifest", "publish", "abort", "release"}
OneOwner == \A p \in Procs : req[p].pc \in Working => lock.by = p

\* An approval the head records as consumed never takes effect again.
NeverReplayed == [][\A c \in Claims : genome' = c /\ genome # c => head # c]_vars

\* What an interrupted approval left is completed or discarded, unless the lock
\* died while it was linked twice, a removal was torn or the Genome edited.
Settles ==
  PendingExists ~> \/ ~PendingExists
                   \/ torn \/ edits > 0
                   \/ lock.by = Dead /\ lock.linked
=============================================================================
