--------------------------- MODULE AuditGenerations ---------------------------
(* The audit generations of packages/governance/src/genome-store.ts: a drift   *)
(* audit replaces three documents, the Screen Registry, the Drift Report and   *)
(* the evidence catalog, by committing a directory that holds all three; an     *)
(* edit of the registry invalidates the audit before it.  Writers hold the     *)
(* governance lock, which GenomeApproval models: here it is a mutex that the   *)
(* death of its owner frees.  Readers take no lock and resolve the active      *)
(* generation once per document.  One step is one file written or read.        *)
EXTENDS Naturals, Sequences, FiniteSets

CONSTANTS
  Writers, Readers,  \* requests that audit or edit, requests that read
  Free,              \* nobody owns the lock
  MaxGenerations,    \* MAX_AUDIT_GENERATIONS, 16 in the code
  MaxOps,            \* bound on audits and edits begun
  MaxFaults          \* bound on deaths of a process and failing writes, together

ASSUME AuditAssumption ==
  /\ Free \notin Writers
  /\ MaxGenerations \in Nat \ {0}
  /\ MaxOps \in Nat
  /\ MaxFaults \in Nat

VARIABLES
  owner,         \* the governance lock
  generations,   \* the generation directories, by sequence number
  pointer,       \* active-audit-generation.json: a generation, or 0
  invalidation,  \* the generation a registry edit invalidated, or 0
  live,          \* the three documents outside the generations
  writer,        \* what each writer is doing
  reader,        \* what each reader is doing
  ops, faults

files == <<generations, pointer, invalidation, live>>
vars == <<owner, files, writer, reader, ops, faults>>

NoReport == [rev |-> 0, by |-> 0, registry |-> 0]
Resting == [pc |-> "idle", op |-> "none", id |-> 0, base |-> 0]
Quiet == [pc |-> "idle", document |-> "none", pointer |-> 0, invalidation |-> 0,
          report |-> NoReport, registry |-> [rev |-> 0, by |-> 0], since |-> 0]

\* An approved Genome with its first registry, not audited yet.
Init ==
  /\ owner = Free
  /\ generations = <<>>
  /\ pointer = 0
  /\ invalidation = 0
  /\ live = [registry |-> [rev |-> 1, by |-> 0], report |-> NoReport, catalog |-> {}]
  /\ writer = [p \in Writers |-> Resting]
  /\ reader = [r \in Readers |-> Quiet]
  /\ ops = 0
  /\ faults = 0

-----------------------------------------------------------------------------
(* readActiveAuditGeneration                                                 *)

In(stages) == {i \in DOMAIN generations : generations[i].stage \in stages}

\* Activated generations come first, and the last of them is the head.
OutOfOrder ==
  \E i, j \in DOMAIN generations :
    i < j /\ generations[i].stage # "activated" /\ generations[j].stage = "activated"
Activated == In({"activated"})
Latest == Cardinality(Activated)
Complete == Cardinality(In({"committed", "activated"}))
Id(i) == IF i = 0 THEN 0 ELSE generations[i].id

\* The cases in which it throws.
Broken(ptr, inv) ==
  \/ In({"torn"}) # {}
  \/ OutOfOrder
  \/ Latest = 0 /\ (inv # 0 \/ ptr \notin {0, Id(Complete)})
  \/ Latest > 0 /\ inv # Id(Latest) /\ ptr \notin {Id(Latest), Id(Complete)}

\* The active generation, 0 if the live documents count.
Active(inv) == IF inv = Id(Latest) THEN 0 ELSE Latest

Documents(active) == IF active = 0 THEN live ELSE generations[active].documents

\* The documents as anybody should read them now.
Truth == Documents(Active(invalidation))

-----------------------------------------------------------------------------
Goes(p, pc) == writer' = [writer EXCEPT ![p].pc = pc] /\ UNCHANGED faults
At(p, pc) == writer[p].pc = pc /\ owner = p
Fails(p, pc) ==
  /\ faults < MaxFaults
  /\ faults' = faults + 1
  /\ writer' = [writer EXCEPT ![p].pc = pc]

\* An audit, or an edit, starts from the registry it read.
Begin(p, op) ==
  /\ writer[p].pc = "idle"
  /\ ops < MaxOps
  /\ ~Broken(pointer, invalidation)
  /\ ops' = ops + 1
  /\ writer' = [writer EXCEPT ![p] = [pc |-> "lock", op |-> op, id |-> ops + 1,
                                      base |-> Truth.registry.rev]]
  /\ UNCHANGED <<owner, files, reader, faults>>

Busy(p) ==
  /\ writer[p].pc = "lock" /\ owner # Free
  /\ writer' = [writer EXCEPT ![p] = Resting]
  /\ UNCHANGED <<owner, files, reader, ops, faults>>

\* What was never committed: nothing is added behind it before it is removed.
Settled == SubSeq(generations, 1, Len(generations) - Cardinality(In({"staged"})))

\* reconcileAuditGenerations: what was never committed is removed.
Lock(p) ==
  /\ writer[p].pc = "lock" /\ owner = Free
  /\ owner' = p
  /\ IF pointer # 0 /\ Broken(pointer, invalidation)
     THEN Goes(p, "release") /\ UNCHANGED generations
     ELSE Goes(p, "check") /\ generations' = Settled
  /\ UNCHANGED <<pointer, invalidation, live, reader, ops>>

Unlock(p) ==
  /\ At(p, "release")
  /\ owner' = Free
  /\ writer' = [writer EXCEPT ![p] = Resting]
  /\ UNCHANGED <<files, reader, ops, faults>>

\* Mutant of Expected: the revision is not looked at.
AnyRevision(p) == ~Broken(pointer, invalidation)

\* Nobody may have changed the registry since it was read.
Expected(p) == ~Broken(pointer, invalidation) /\ Truth.registry.rev = writer[p].base

Pending == Complete > Latest

Check(p) ==
  /\ At(p, "check")
  /\ Goes(p, CASE ~Expected(p) -> "release"
               [] Expected(p) /\ writer[p].op = "edit" ->
                    IF Active(invalidation) = 0 THEN "edit" ELSE "copy registry"
               [] Expected(p) /\ writer[p].op = "audit" ->
                    IF Pending THEN "repoint" ELSE "stage")
  /\ UNCHANGED <<owner, files, reader, ops>>

-----------------------------------------------------------------------------
(* commitAuditGenerationUnderLock, first discardUnactivatedAuditGenerations-  *)
(* UnderLock: the pointer of the active generation is restored, or removed,    *)
(* before the generation it may name.                                         *)

\* Mutant of Repoint: the pending generation goes first.
LeavePointer(p) ==
  /\ At(p, "repoint")
  /\ Goes(p, "discard")
  /\ UNCHANGED <<owner, files, reader, ops>>

Repoint(p) ==
  /\ At(p, "repoint")
  /\ \/ pointer' = Id(Active(invalidation)) /\ Goes(p, "discard")
     \/ pointer' \in {pointer, Id(Active(invalidation))} /\ Fails(p, "release")
  /\ UNCHANGED <<owner, generations, invalidation, live, reader, ops>>

\* What an interrupted rm leaves of a committed generation: its commit may go
\* after some of the members it commits.
Remains == {[generations EXCEPT ![Len(generations)].stage = stage] : stage \in {"staged", "torn"}}

Discard(p) ==
  /\ At(p, "discard")
  /\ \/ generations' = SubSeq(generations, 1, Latest) /\ Goes(p, "stage")
     \/ generations' \in Remains /\ Fails(p, "release")
  /\ UNCHANGED <<owner, pointer, invalidation, live, reader, ops>>

Retained == Len(generations) < MaxGenerations

\* What saveDriftReport commits: the registry with the verification, the report
\* on that registry, and the catalog with the new evidence.
Audited(w) ==
  [registry |-> [rev |-> w.base + 1, by |-> w.id],
   report |-> [rev |-> Truth.report.rev + 1, by |-> w.id, registry |-> w.base + 1],
   catalog |-> Truth.catalog \cup {w.id}]

\* The directory with its three documents and its manifest.
Stage(p) ==
  LET next == Append(generations, [id |-> writer[p].id, documents |-> Audited(writer[p]),
                                   stage |-> "staged"])
  IN  /\ At(p, "stage")
      /\ \/ ~Retained /\ Goes(p, "release") /\ UNCHANGED generations
         \/ Retained /\ generations' = next /\ Goes(p, "commit")
         \/ Retained /\ generations' \in {generations, next} /\ Fails(p, "release")
      /\ UNCHANGED <<owner, pointer, invalidation, live, reader, ops>>

Reaches(stage) == [generations EXCEPT ![Len(generations)].stage = stage]

\* An error up to here removes the directory, an error from here on does not.
Commit(p) ==
  /\ At(p, "commit")
  /\ \/ generations' = Reaches("committed") /\ Goes(p, "pointer")
     \/ generations' = SubSeq(generations, 1, Len(generations) - 1) /\ Fails(p, "release")
  /\ UNCHANGED <<owner, pointer, invalidation, live, reader, ops>>

WritePointer(p) ==
  /\ At(p, "pointer")
  /\ \/ pointer' = writer[p].id /\ Goes(p, "activate")
     \/ pointer' \in {pointer, writer[p].id} /\ Fails(p, "release")
  /\ UNCHANGED <<owner, generations, invalidation, live, reader, ops>>

\* Only now does the generation count.
Activate(p) ==
  /\ At(p, "activate")
  /\ \/ generations' = Reaches("activated") /\ Goes(p, "copy registry")
     \/ generations' \in {generations, Reaches("activated")} /\ Fails(p, "release")
  /\ UNCHANGED <<owner, pointer, invalidation, live, reader, ops>>

\* The live documents follow the active generation: after its activation, and in
\* materializeActiveAuditGenerationUnderLock before an edit.
Copy(p, pc, document, next) ==
  LET copied == [live EXCEPT ![document] = generations[Latest].documents[document]]
  IN  /\ At(p, pc)
      /\ \/ live' = copied /\ Goes(p, next)
         \/ live' \in {live, copied} /\ Fails(p, "release")
      /\ UNCHANGED <<owner, generations, pointer, invalidation, reader, ops>>

CopyRegistry(p) == Copy(p, "copy registry", "registry", "copy report")
CopyReport(p) == Copy(p, "copy report", "report", "copy catalog")
CopyCatalog(p) == Copy(p, "copy catalog", "catalog", IF writer[p].op = "edit" THEN "edit" ELSE "release")

-----------------------------------------------------------------------------
(* saveScreenRegistry and clearActiveAuditGenerationUnderLock                *)

EditRegistry(p) ==
  LET edited == [live EXCEPT !.registry = [rev |-> writer[p].base + 1, by |-> writer[p].id]]
  IN  /\ At(p, "edit")
      /\ \/ live' = edited /\ Goes(p, IF Active(invalidation) = 0 THEN "release" ELSE "invalidate")
         \/ live' \in {live, edited} /\ Fails(p, "release")
      /\ UNCHANGED <<owner, generations, pointer, invalidation, reader, ops>>

Invalidate(p) ==
  /\ At(p, "invalidate")
  /\ \/ invalidation' = Id(Latest) /\ Goes(p, "unpoint")
     \/ invalidation' \in {invalidation, Id(Latest)} /\ Fails(p, "release")
  /\ UNCHANGED <<owner, generations, pointer, live, reader, ops>>

Unpoint(p) ==
  /\ At(p, "unpoint")
  /\ \/ pointer' = 0 /\ Goes(p, "release")
     \/ pointer' \in {pointer, 0} /\ Fails(p, "release")
  /\ UNCHANGED <<owner, generations, invalidation, live, reader, ops>>

\* The lock of a process that died is taken over later.
Die(p) ==
  /\ writer[p].pc # "idle"
  /\ faults < MaxFaults
  /\ faults' = faults + 1
  /\ owner' = IF owner = p THEN Free ELSE owner
  /\ writer' = [writer EXCEPT ![p] = Resting]
  /\ IF writer[p].pc = "discard" THEN generations' \in Remains \cup {generations}
     ELSE UNCHANGED generations
  /\ UNCHANGED <<pointer, invalidation, live, reader, ops>>

-----------------------------------------------------------------------------
(* readDriftReport: the report, then the registry and the catalog, each from   *)
(* the generation that is active when it is read.                             *)

Reads(r, pc) == reader[r].pc = pc /\ UNCHANGED <<owner, files, writer, ops, faults>>

StartRead(r) ==
  /\ Reads(r, "idle")
  /\ reader' = [reader EXCEPT ![r] = [Quiet EXCEPT !.pc = "pointer", !.document = "report",
                                                   !.since = Truth.registry.rev]]

ReadPointer(r) ==
  /\ Reads(r, "pointer")
  /\ reader' = [reader EXCEPT ![r].pointer = pointer, ![r].pc = "invalidation"]

ReadInvalidation(r) ==
  /\ Reads(r, "invalidation")
  /\ reader' = [reader EXCEPT ![r].invalidation = invalidation, ![r].pc = "generations"]

\* Mutant of Related: the revisions are not compared.
InCatalog(got, catalog) == got.report.by \in catalog

\* The report is on this registry, and its evidence is in the catalog.
Related(got, catalog) == got.report.registry = got.registry.rev /\ got.report.by \in catalog

\* No report, or an unrelated one, is an error.
Take(r, documents) ==
  reader' = [reader EXCEPT ![r] =
    CASE @.document = "report" ->
           IF documents.report = NoReport THEN Quiet
           ELSE [@ EXCEPT !.report = documents.report, !.document = "registry", !.pc = "pointer"]
      [] @.document = "registry" ->
           [@ EXCEPT !.registry = documents.registry, !.document = "catalog", !.pc = "pointer"]
      [] @.document = "catalog" ->
           IF Related(@, documents.catalog) THEN [@ EXCEPT !.pc = "accepted"] ELSE Quiet]

ReadGenerations(r) ==
  LET got == reader[r]
      active == Active(got.invalidation)
  IN  /\ Reads(r, "generations")
      /\ \/ Broken(got.pointer, got.invalidation) /\ reader' = [reader EXCEPT ![r] = Quiet]
         \/ ~Broken(got.pointer, got.invalidation) /\ active = 0
            /\ reader' = [reader EXCEPT ![r].pc = "live"]
         \/ ~Broken(got.pointer, got.invalidation) /\ active # 0
            /\ Take(r, generations[active].documents)

ReadLive(r) == Reads(r, "live") /\ Take(r, live)

Answer(r) ==
  /\ Reads(r, "accepted")
  /\ reader' = [reader EXCEPT ![r] = Quiet]

-----------------------------------------------------------------------------
Write(p) ==
  \/ Busy(p) \/ Lock(p) \/ Unlock(p) \/ Check(p) \/ Repoint(p) \/ Discard(p)
  \/ Stage(p) \/ Commit(p) \/ WritePointer(p) \/ Activate(p)
  \/ CopyRegistry(p) \/ CopyReport(p) \/ CopyCatalog(p)
  \/ EditRegistry(p) \/ Invalidate(p) \/ Unpoint(p)

Read(r) ==
  StartRead(r) \/ ReadPointer(r) \/ ReadInvalidation(r) \/ ReadGenerations(r)
  \/ ReadLive(r) \/ Answer(r)

Next ==
  \/ \E p \in Writers : Begin(p, "audit") \/ Begin(p, "edit") \/ Write(p) \/ Die(p)
  \/ \E r \in Readers : Read(r)

Spec == Init /\ [][Next]_vars

-----------------------------------------------------------------------------
(* Properties.                                                               *)

Registries == [rev : 0..(MaxOps + 1), by : 0..MaxOps]
Reports == [rev : 0..MaxOps, by : 0..MaxOps, registry : 0..(MaxOps + 1)]
DocumentSets == [registry : Registries, report : Reports, catalog : SUBSET (1..MaxOps)]

\* At most MaxGenerations generations are ever kept, and the files have their types.
TypeOK ==
  /\ owner \in Writers \cup {Free}
  /\ Len(generations) <= MaxGenerations
  /\ \A i \in DOMAIN generations :
       generations[i] \in [id : 1..MaxOps, documents : DocumentSets,
                           stage : {"staged", "committed", "activated", "torn"}]
  /\ {pointer, invalidation} \subseteq 0..MaxOps
  /\ live \in DocumentSets

\* Whatever was interrupted, the active generation can be resolved, unless the
\* removal of a committed generation was torn.
Readable == In({"torn"}) = {} => ~Broken(pointer, invalidation)

\* A report a reader accepts is on the very registry it read, and neither was
\* replaced before the read began.
AcceptedPair ==
  \A r \in Readers : reader[r].pc = "accepted" =>
    /\ reader[r].report.by = reader[r].registry.by
    /\ reader[r].registry.rev >= reader[r].since

\* The three documents change together, each change on top of the last.
Promised == INSTANCE GovernanceTruth
              WITH Ids <- 1..MaxOps, registry <- Truth.registry,
                   report <- Truth.report, catalog <- Truth.catalog
OneTruth == Promised!Spec
=============================================================================
