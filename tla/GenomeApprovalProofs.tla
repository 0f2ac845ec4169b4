------------------------- MODULE GenomeApprovalProofs -------------------------
(* Proofs about GenomeApproval, for every number of requests and rules and    *)
(* any number of deaths, failing writes and reverts: the types, exclusion by  *)
(* the governance lock, that an approved Genome is always backed by the       *)
(* evidence catalog, that a consumed approval never takes effect again, and   *)
(* that an interrupted approval can be completed or discarded.                *)
EXTENDS GenomeApproval, TLAPS

Staging == {"stage genome", "stage catalog", "stage manifest", "publish"}
Approving == Staging \cup {"begin", "abort"}
Steps == Working \cup {"idle", "lock", "unlink", "peek", "genome", "catalog", "related",
     "return"}
Asked == [pc : Steps, op : {"none", "init", "read", "approve"}, claim : Transactions,
          again : BOOLEAN, genome : Claims \cup {"none", "draft"}, catalog : Catalogs]

\* A request under way has its operation, and an approval its rule.
Typed ==
  /\ TypeOK
  /\ req \in [Procs -> Asked]
  /\ torn \in BOOLEAN /\ faults \in Nat /\ edits \in Nat
  /\ \A p \in Procs :
       /\ req[p].pc # "idle" => req[p].op # "none"
       /\ req[p].op = "approve" => req[p].claim \in Claims
       /\ req[p].pc \in Approving => req[p].claim \in Claims

\* Until it is initialized, nothing is approved or staged.
Fresh ==
  genome = "none" =>
    /\ catalog \in {Absent, {}}
    /\ pointer = None /\ head = None /\ ~staged.dir /\ staged.parts = {}

\* What is approved or was consumed by now is in the live catalog.
Backed ==
  /\ genome \in Claims => genome \in catalog
  /\ genome # "none" => catalog # Absent
  /\ head # None => head \in catalog

\* What was read, too: the catalog only grows.
Reads ==
  \A p \in Procs :
    /\ req[p].pc \in {"catalog", "related"} => genome # "none"
    /\ At(p, "catalog") /\ req[p].genome \in Claims => req[p].genome \in catalog
    /\ At(p, "related") /\ req[p].genome \in Claims => req[p].genome \in req[p].catalog

\* A transaction staged as a whole: before its head record it can be completed,
\* and afterwards it has been.
WholeTransaction ==
  Parts \subseteq staged.parts =>
    /\ staged.tx \in Claims /\ staged.base \in SUBSET Claims
    /\ catalog \in {staged.base, NewCatalog}
    /\ head = staged.tx => catalog = NewCatalog
    /\ edits = 0 => IF head = staged.tx THEN genome = staged.tx ELSE Recoverable

\* Only a whole transaction is pending, unless a removal or write was torn.
PendingIsWhole ==
  /\ pointer # None => Parts \subseteq staged.parts /\ staged.tx = pointer
  /\ "manifest" \in staged.parts => Parts \subseteq staged.parts \/ torn
  /\ Temporary \in staged.parts => torn

\* What the owner of the lock has found or done so far, step by step.
Initializing(p) ==
  /\ req[p].pc \in {"evidence", "documents"} => genome = "none"
  /\ At(p, "documents") => catalog = {}
Stages(p) ==
  /\ req[p].pc \in Staging => genome = "draft" /\ req[p].claim \notin catalog
  /\ At(p, "stage genome") => staged.parts = {}
  /\ At(p, "stage catalog") => staged.parts = {"genome"}
  /\ At(p, "stage manifest") => staged.parts = {"genome", "catalog"}
  /\ At(p, "publish") => staged.parts = Parts
  /\ req[p].pc \in {"stage catalog", "stage manifest", "publish"} =>
       staged.tx = req[p].claim /\ staged.base = catalog
  /\ req[p].pc \in Staging \cup {"begin", "discard"} => pointer = None
  /\ At(p, "abort") => pointer \in {None, req[p].claim}
Completes(p) ==
  /\ req[p].pc \in {"first", "second", "head"} => Parts \subseteq staged.parts
  /\ req[p].pc \in {"first", "second"} =>
       head # staged.tx /\ (edits = 0 => req[p].genome = genome)
  /\ At(p, "first") => req[p].catalog = catalog
  /\ req[p].pc \in {"second", "head"} => catalog = NewCatalog
  /\ At(p, "head") /\ edits = 0 => genome = staged.tx
Progress == \A p \in Procs : Initializing(p) /\ Stages(p) /\ Completes(p)

ApprovalInv ==
  /\ Typed /\ OneOwner /\ Fresh /\ Backed /\ Reads
  /\ WholeTransaction /\ PendingIsWhole /\ Progress

-----------------------------------------------------------------------------
(* Single operations.                                                         *)

(* A step of a request that goes on, or fails, changes its step only.         *)
LEMMA Moved ==
  ASSUME req \in [Procs -> Asked], NEW p \in Procs, NEW next, Goes(p, next) \/ Fails(p,
         next)
  PROVE  /\ req'[p].pc = next /\ req'[p].op = req[p].op /\ req'[p].claim = req[p].claim
         /\ req'[p].again = req[p].again /\ req'[p].genome = req[p].genome
         /\ req'[p].catalog = req[p].catalog
<1>1. req' = [req EXCEPT ![p].pc = next]
  BY DEF Goes, Fails
<1>2. req[p] \in Asked
  OBVIOUS
<1>3. req'[p] = [req[p] EXCEPT !.pc = next]
  BY <1>1
<1> QED BY <1>2, <1>3 DEF Asked

(* ... and keeps its type.                                                    *)
LEMMA MovedTyped ==
  ASSUME req \in [Procs -> Asked], NEW p \in Procs, NEW next \in Steps, Goes(p,
         next) \/ Fails(p, next)
  PROVE  req' \in [Procs -> Asked]
<1>1. req' = [req EXCEPT ![p].pc = next]
  BY DEF Goes, Fails
<1>2. [req[p] EXCEPT !.pc = next] \in Asked
  BY DEF Asked
<1> QED BY <1>1, <1>2

(* After a reconciliation every request goes on with its own operation.       *)
LEMMA ProceedTyped ==
  ASSUME Typed, NEW p \in Procs, req[p].pc # "idle"
  PROVE  /\ Proceed(p) \in {"release", "check", "begin", "genome"}
         /\ Proceed(p) = "begin" => req[p].op = "approve"
<1>1. req[p].op \in {"init", "read", "approve"}
  BY DEF Typed, Asked
<1> QED BY <1>1 DEF Proceed

StagedType == [dir : BOOLEAN, parts : SUBSET (Parts \cup {Temporary}), tx : Transactions,
     base : Catalogs]

(* What a staging, a removal and a death leave in the staging directory.    *)
LEMMA StageEffect ==
  ASSUME staged \in StagedType, NEW p \in Procs, NEW pc, NEW part, NEW next,
         Stage(p, pc, part, next)
  PROVE  /\ req[p].pc = pc
         /\ \/ staged' = staged
            \/ /\ staged'.parts = staged.parts \cup {part} /\ staged'.dir = staged.dir
               /\ staged'.tx = req[p].claim /\ staged'.base = catalog
         /\ UNCHANGED <<lock, genome, catalog, pointer, head, torn, edits>>
BY DEF Stage, At, Goes, Fails, StagedType

(* The staging directory keeps its type through these three.                  *)
LEMMA StageTyped ==
  ASSUME staged \in StagedType, NEW p \in Procs, NEW pc, NEW part \in Parts, NEW next,
         Stage(p, pc, part, next), req[p].claim \in Transactions, catalog \in Catalogs
  PROVE  staged' \in StagedType
<1>. DEFINE w1 == [staged EXCEPT !.parts = staged.parts \cup {part}]
            w2 == [w1 EXCEPT !.tx = req[p].claim]
            w3 == [w2 EXCEPT !.base = catalog]
<1>1. staged.parts \cup {part} \in SUBSET (Parts \cup {Temporary})
  BY DEF StagedType
<1>2. staged' = staged \/ staged' = w3
  BY DEF Stage, Goes, Fails
<1>3. w1 \in StagedType
  BY <1>1 DEF StagedType
<1>. HIDE DEF w1
<1>4. w2 \in StagedType
  BY <1>3 DEF StagedType
<1>. HIDE DEF w2
<1>5. w3 \in StagedType
  BY <1>4 DEF StagedType
<1> QED BY <1>2, <1>5

LEMMA RemovalEffect ==
  ASSUME staged \in StagedType, NEW p \in Procs, NEW next, NEW error, Removal(p, next,
         error)
  PROVE  \/ staged' = Empty /\ torn' = torn
         \/ /\ staged'.parts \subseteq staged.parts /\ staged'.dir = staged.dir
            /\ staged'.tx = staged.tx /\ staged'.base = staged.base
            /\ torn' = TRUE
BY DEF Removal, StagedType, Goes, Fails

LEMMA RemovalTyped ==
  ASSUME staged \in StagedType, NEW p \in Procs, NEW next, NEW error, Removal(p, next,
         error)
  PROVE  staged' \in StagedType
<1>1. Empty \in StagedType
  BY DEF Empty, StagedType, Transactions, Catalogs
<1> QED BY <1>1 DEF Removal, StagedType, Goes, Fails

LEMMA DieEffect ==
  ASSUME staged \in StagedType, NEW p \in Procs, Die(p)
  PROVE  /\ UNCHANGED <<genome, catalog, pointer, head, edits>>
         /\ \/ staged' = staged /\ torn' = torn
            \/ /\ staged'.parts = staged.parts \cup {Temporary} /\ staged'.dir = staged.dir
               /\ staged'.tx = staged.tx /\ staged'.base = staged.base
               /\ req[p].pc = "stage manifest" /\ torn' = TRUE
            \/ /\ staged'.parts \subseteq staged.parts /\ staged'.dir = staged.dir
               /\ staged'.tx = staged.tx /\ staged'.base = staged.base
               /\ req[p].pc = "discard" /\ torn' = TRUE
BY DEF Die, At, StagedType

LEMMA DieTyped ==
  ASSUME staged \in StagedType, NEW p \in Procs, Die(p)
  PROVE  staged' \in StagedType
BY DEF Die, At, StagedType

(* A revert of the Genome is counted.                                         *)
LEMMA RevertCounts ==
  ASSUME edits \in Nat, Revert
  PROVE  edits' # 0
BY DEF Revert

(* A step of one request leaves the others where they are.                    *)
LEMMA OthersWait ==
  ASSUME req \in [Procs -> Asked], NEW p \in Procs,
         Request(p) \/ Step(p) \/ FindStale(p) \/ Die(p)
  PROVE  \A q \in Procs \ {p} : req'[q] = req[q]
<1>. USE DEF Goes, Fails
<1>1. Link(p) => \A q \in Procs \ {p} : req'[q] = req[q]
  BY DEF Link
<1>2. UnlinkTemporary(p) => \A q \in Procs \ {p} : req'[q] = req[q]
  BY DEF UnlinkTemporary
<1>3. Busy(p) => \A q \in Procs \ {p} : req'[q] = req[q]
  BY DEF Busy
<1>4. UnlinkStale(p) => \A q \in Procs \ {p} : req'[q] = req[q]
  BY DEF UnlinkStale
<1>5. Release(p) => \A q \in Procs \ {p} : req'[q] = req[q]
  BY DEF Release
<1>6. Reconcile(p) => \A q \in Procs \ {p} : req'[q] = req[q]
  BY DEF Reconcile
<1>7. PromoteFirst(p) => \A q \in Procs \ {p} : req'[q] = req[q]
  BY DEF PromoteFirst, Promote, Order
<1>8. PromoteSecond(p) => \A q \in Procs \ {p} : req'[q] = req[q]
  BY DEF PromoteSecond, Promote, Order
<1>9. WriteHead(p) => \A q \in Procs \ {p} : req'[q] = req[q]
  BY DEF WriteHead
<1>10. Unpoint(p) => \A q \in Procs \ {p} : req'[q] = req[q]
  BY DEF Unpoint
<1>11. Discard(p) => \A q \in Procs \ {p} : req'[q] = req[q]
  BY DEF Discard, Removal
<1>12. Check(p) => \A q \in Procs \ {p} : req'[q] = req[q]
  BY DEF Check
<1>13. WriteEvidence(p) => \A q \in Procs \ {p} : req'[q] = req[q]
  BY DEF WriteEvidence
<1>14. PromoteDocuments(p) => \A q \in Procs \ {p} : req'[q] = req[q]
  BY DEF PromoteDocuments
<1>15. Begin(p) => \A q \in Procs \ {p} : req'[q] = req[q]
  BY DEF Begin
<1>16. StageGenome(p) => \A q \in Procs \ {p} : req'[q] = req[q]
  BY DEF StageGenome, Stage
<1>17. StageCatalog(p) => \A q \in Procs \ {p} : req'[q] = req[q]
  BY DEF StageCatalog, Stage
<1>18. StageManifest(p) => \A q \in Procs \ {p} : req'[q] = req[q]
  BY DEF StageManifest, Stage
<1>19. Publish(p) => \A q \in Procs \ {p} : req'[q] = req[q]
  BY DEF Publish
<1>20. Abort(p) => \A q \in Procs \ {p} : req'[q] = req[q]
  BY DEF Abort, Removal
<1>21. Peek(p) => \A q \in Procs \ {p} : req'[q] = req[q]
  BY DEF Peek
<1>22. ReadGenome(p) => \A q \in Procs \ {p} : req'[q] = req[q]
  BY DEF ReadGenome
<1>23. ReadCatalog(p) => \A q \in Procs \ {p} : req'[q] = req[q]
  BY DEF ReadCatalog
<1>24. Related(p) => \A q \in Procs \ {p} : req'[q] = req[q]
  BY DEF Related
<1>25. Return(p) => \A q \in Procs \ {p} : req'[q] = req[q]
  BY DEF Return
<1>26. FindStale(p) => \A q \in Procs \ {p} : req'[q] = req[q]
  BY DEF FindStale
<1>27. Die(p) => \A q \in Procs \ {p} : req'[q] = req[q]
  BY DEF Die
<1>28. ASSUME NEW op, NEW c, Ask(p, op, c) PROVE \A q \in Procs \ {p} : req'[q] = req[q]
  BY <1>28 DEF Ask
<1> QED BY <1>1, <1>2, <1>3, <1>4, <1>5, <1>6, <1>7, <1>8, <1>9, <1>10, <1>11,
     <1>12, <1>13, <1>14, <1>15, <1>16, <1>17, <1>18, <1>19, <1>20, <1>21,
     <1>22, <1>23, <1>24, <1>25, <1>26, <1>27, <1>28 DEF Request, Step

(* Who does not own the lock leaves every file alone.                         *)
LEMMA OwnersWrite ==
  ASSUME NEW p \in Procs, req[p].pc \notin Working,
         Request(p) \/ Step(p) \/ FindStale(p) \/ Die(p)
  PROVE  UNCHANGED <<files, torn, edits>>
<1>. USE DEF At, Working, files
<1>1. Link(p) => UNCHANGED <<files, torn, edits>>
  BY DEF Link
<1>2. Busy(p) => UNCHANGED <<files, torn, edits>>
  BY DEF Busy
<1>3. UnlinkStale(p) => UNCHANGED <<files, torn, edits>>
  BY DEF UnlinkStale
<1>4. Peek(p) => UNCHANGED <<files, torn, edits>>
  BY DEF Peek
<1>5. ReadGenome(p) => UNCHANGED <<files, torn, edits>>
  BY DEF ReadGenome
<1>6. ReadCatalog(p) => UNCHANGED <<files, torn, edits>>
  BY DEF ReadCatalog
<1>7. Related(p) => UNCHANGED <<files, torn, edits>>
  BY DEF Related
<1>8. Return(p) => UNCHANGED <<files, torn, edits>>
  BY DEF Return
<1>9. FindStale(p) => UNCHANGED <<files, torn, edits>>
  BY DEF FindStale
<1>10. Request(p) => UNCHANGED <<files, torn, edits>>
  BY DEF Request, Ask
<1>11. Die(p) => UNCHANGED <<files, torn, edits>>
  BY DEF Die
<1>12. ~UnlinkTemporary(p)
  BY DEF UnlinkTemporary
<1>13. ~Release(p)
  BY DEF Release
<1>14. ~Reconcile(p)
  BY DEF Reconcile
<1>15. ~PromoteFirst(p)
  BY DEF PromoteFirst, Promote
<1>16. ~PromoteSecond(p)
  BY DEF PromoteSecond, Promote
<1>17. ~WriteHead(p)
  BY DEF WriteHead
<1>18. ~Unpoint(p)
  BY DEF Unpoint
<1>19. ~Discard(p)
  BY DEF Discard
<1>20. ~Check(p)
  BY DEF Check
<1>21. ~WriteEvidence(p)
  BY DEF WriteEvidence
<1>22. ~PromoteDocuments(p)
  BY DEF PromoteDocuments
<1>23. ~Begin(p)
  BY DEF Begin
<1>24. ~StageGenome(p)
  BY DEF StageGenome, Stage
<1>25. ~StageCatalog(p)
  BY DEF StageCatalog, Stage
<1>26. ~StageManifest(p)
  BY DEF StageManifest, Stage
<1>27. ~Publish(p)
  BY DEF Publish
<1>28. ~Abort(p)
  BY DEF Abort
<1> QED BY <1>1, <1>2, <1>3, <1>4, <1>5, <1>6, <1>7, <1>8, <1>9, <1>10, <1>11,
     <1>12, <1>13, <1>14, <1>15, <1>16, <1>17, <1>18, <1>19, <1>20, <1>21,
     <1>22, <1>23, <1>24, <1>25, <1>26, <1>27, <1>28 DEF Step

-----------------------------------------------------------------------------
(* The files: from one transaction to the next.                               *)

(* The steps that change a file, a counter or the history.                    *)
LEMMA FilesStep ==
  ASSUME Next
  PROVE  \/ UNCHANGED <<files, torn, edits>>
         \/ Revert
         \/ \E p \in Procs : \/ PromoteFirst(p) \/ PromoteSecond(p) \/ WriteHead(p) \/ Unpoint(p)
                             \/ Discard(p) \/ Check(p) \/ WriteEvidence(p) \/ PromoteDocuments(p)
                             \/ Begin(p) \/ StageGenome(p) \/ StageCatalog(p) \/ StageManifest(p)
                             \/ Publish(p) \/ Abort(p) \/ Die(p)
BY DEF Next, Request, Step, Ask, FindStale, Link, UnlinkTemporary, Busy, UnlinkStale,
     Release, Reconcile, Peek, ReadGenome, ReadCatalog, Related, Return, FindStale

(* Removal of the staging directory: all of it, or part of it and torn.       *)
LEMMA DiscardKeeps ==
  ASSUME Typed, OneOwner, Fresh, Backed, WholeTransaction, PendingIsWhole, Progress,
         NEW p \in Procs, Discard(p)
  PROVE  WholeTransaction' /\ PendingIsWhole' /\ Fresh'
<1>. USE GenomeAssumption
<1>1. staged \in StagedType
  BY DEF Typed, TypeOK, StagedType
<1>2. /\ UNCHANGED <<genome, catalog, pointer, head, edits>>
      /\ pointer # None => staged' = staged /\ torn' = torn
      /\ \/ staged' = Empty /\ torn' = torn
         \/ /\ staged'.parts \subseteq staged.parts /\ staged'.dir = staged.dir
            /\ staged'.tx = staged.tx /\ staged'.base = staged.base
            /\ torn' = TRUE
         \/ staged' = staged /\ torn' = torn
  BY <1>1, RemovalEffect DEF Discard, At, Progress, Stages
<1>3. CASE staged' = staged /\ torn' = torn
  BY <1>2, <1>3 DEF WholeTransaction, PendingIsWhole, Fresh, NewCatalog, Recoverable
<1>4. CASE staged' = Empty /\ torn' = torn
  BY <1>2, <1>4 DEF WholeTransaction, PendingIsWhole, Fresh, Empty, Parts, Temporary
<1>5. CASE /\ staged'.parts \subseteq staged.parts /\ staged'.dir = staged.dir
           /\ staged'.tx = staged.tx /\ staged'.base = staged.base
           /\ torn' = TRUE
  BY <1>2, <1>5 DEF WholeTransaction, PendingIsWhole, Fresh, NewCatalog, Recoverable
<1> QED BY <1>2, <1>3, <1>4, <1>5

LEMMA AbortKeeps ==
  ASSUME Typed, OneOwner, Fresh, Backed, WholeTransaction, PendingIsWhole, Progress,
         NEW p \in Procs, Abort(p)
  PROVE  WholeTransaction' /\ PendingIsWhole' /\ Fresh'
<1>. USE GenomeAssumption
<1>1. staged \in StagedType
  BY DEF Typed, TypeOK, StagedType
<1>2. /\ UNCHANGED <<genome, catalog, pointer, head, edits>>
      /\ pointer # None => staged' = staged /\ torn' = torn
      /\ \/ staged' = Empty /\ torn' = torn
         \/ /\ staged'.parts \subseteq staged.parts /\ staged'.dir = staged.dir
            /\ staged'.tx = staged.tx /\ staged'.base = staged.base
            /\ torn' = TRUE
         \/ staged' = staged /\ torn' = torn
  BY <1>1, RemovalEffect DEF Abort, At, Progress, Stages
<1>3. CASE staged' = staged /\ torn' = torn
  BY <1>2, <1>3 DEF WholeTransaction, PendingIsWhole, Fresh, NewCatalog, Recoverable
<1>4. CASE staged' = Empty /\ torn' = torn
  BY <1>2, <1>4 DEF WholeTransaction, PendingIsWhole, Fresh, Empty, Parts, Temporary
<1>5. CASE /\ staged'.parts \subseteq staged.parts /\ staged'.dir = staged.dir
           /\ staged'.tx = staged.tx /\ staged'.base = staged.base
           /\ torn' = TRUE
  BY <1>2, <1>5 DEF WholeTransaction, PendingIsWhole, Fresh, NewCatalog, Recoverable
<1> QED BY <1>2, <1>3, <1>4, <1>5

(* The three files of a transaction are staged in order, the manifest last.   *)
LEMMA StageGenomeKeeps ==
  ASSUME Typed, OneOwner, Fresh, Backed, WholeTransaction, PendingIsWhole, Progress,
         NEW p \in Procs, StageGenome(p)
  PROVE  WholeTransaction' /\ PendingIsWhole' /\ Fresh'
<1>. USE GenomeAssumption
<1>1. staged \in StagedType
  BY DEF Typed, TypeOK, StagedType
<1>2. /\ req[p].pc = "stage genome"
      /\ UNCHANGED <<genome, catalog, pointer, head, torn, edits>>
      /\ \/ staged' = staged
         \/ /\ staged'.parts = staged.parts \cup {"genome"} /\ staged'.dir = staged.dir
            /\ staged'.tx = req[p].claim /\ staged'.base = catalog
  BY <1>1, StageEffect DEF StageGenome
<1>3. CASE staged' = staged
  BY <1>2, <1>3 DEF WholeTransaction, PendingIsWhole, Fresh, NewCatalog, Recoverable
<1>4. CASE /\ staged'.parts = staged.parts \cup {"genome"} /\ staged'.dir = staged.dir
           /\ staged'.tx = req[p].claim /\ staged'.base = catalog
  <2>0. genome = "draft" /\ req[p].claim \notin catalog /\ pointer = None
    BY <1>2 DEF Progress, Stages, Staging
  <2>a. req[p].claim \in Claims
    BY <1>2 DEF Typed, Approving, Staging
  <2>b. catalog \in SUBSET Claims
    BY <2>0 DEF Typed, TypeOK, Catalogs, Backed
  <2>1. /\ genome = "draft" /\ req[p].claim \notin catalog /\ pointer = None
        /\ req[p].claim \in Claims /\ catalog \in SUBSET Claims
    BY <2>0, <2>a, <2>b
  <2>2. staged.parts = {}
    BY <1>2 DEF Progress, Stages, At
  <2>3. head # req[p].claim
    BY <2>1 DEF Backed
  <2> QED
    <3>. USE <1>2, <1>4, <2>1, <2>2, <2>3
    <3>1. WholeTransaction'
      BY DEF WholeTransaction, NewCatalog, Recoverable
    <3>2. PendingIsWhole'
      BY DEF PendingIsWhole, Parts, Temporary
    <3>3. Fresh'
      BY DEF Fresh
    <3> QED BY <3>1, <3>2, <3>3
<1> QED BY <1>2, <1>3, <1>4

LEMMA StageCatalogKeeps ==
  ASSUME Typed, OneOwner, Fresh, Backed, WholeTransaction, PendingIsWhole, Progress,
         NEW p \in Procs, StageCatalog(p)
  PROVE  WholeTransaction' /\ PendingIsWhole' /\ Fresh'
<1>. USE GenomeAssumption
<1>1. staged \in StagedType
  BY DEF Typed, TypeOK, StagedType
<1>2. /\ req[p].pc = "stage catalog"
      /\ UNCHANGED <<genome, catalog, pointer, head, torn, edits>>
      /\ \/ staged' = staged
         \/ /\ staged'.parts = staged.parts \cup {"catalog"} /\ staged'.dir = staged.dir
            /\ staged'.tx = req[p].claim /\ staged'.base = catalog
  BY <1>1, StageEffect DEF StageCatalog
<1>3. CASE staged' = staged
  BY <1>2, <1>3 DEF WholeTransaction, PendingIsWhole, Fresh, NewCatalog, Recoverable
<1>4. CASE /\ staged'.parts = staged.parts \cup {"catalog"} /\ staged'.dir = staged.dir
           /\ staged'.tx = req[p].claim /\ staged'.base = catalog
  <2>0. genome = "draft" /\ req[p].claim \notin catalog /\ pointer = None
    BY <1>2 DEF Progress, Stages, Staging
  <2>a. req[p].claim \in Claims
    BY <1>2 DEF Typed, Approving, Staging
  <2>b. catalog \in SUBSET Claims
    BY <2>0 DEF Typed, TypeOK, Catalogs, Backed
  <2>1. /\ genome = "draft" /\ req[p].claim \notin catalog /\ pointer = None
        /\ req[p].claim \in Claims /\ catalog \in SUBSET Claims
    BY <2>0, <2>a, <2>b
  <2>2. staged.parts = {"genome"}
    BY <1>2 DEF Progress, Stages, At
  <2>3. head # req[p].claim
    BY <2>1 DEF Backed
  <2> QED
    <3>. USE <1>2, <1>4, <2>1, <2>2, <2>3
    <3>1. WholeTransaction'
      BY DEF WholeTransaction, NewCatalog, Recoverable
    <3>2. PendingIsWhole'
      BY DEF PendingIsWhole, Parts, Temporary
    <3>3. Fresh'
      BY DEF Fresh
    <3> QED BY <3>1, <3>2, <3>3
<1> QED BY <1>2, <1>3, <1>4

LEMMA StageManifestKeeps ==
  ASSUME Typed, OneOwner, Fresh, Backed, WholeTransaction, PendingIsWhole, Progress,
         NEW p \in Procs, StageManifest(p)
  PROVE  WholeTransaction' /\ PendingIsWhole' /\ Fresh'
<1>. USE GenomeAssumption
<1>1. staged \in StagedType
  BY DEF Typed, TypeOK, StagedType
<1>2. /\ req[p].pc = "stage manifest"
      /\ UNCHANGED <<genome, catalog, pointer, head, torn, edits>>
      /\ \/ staged' = staged
         \/ /\ staged'.parts = staged.parts \cup {"manifest"} /\ staged'.dir = staged.dir
            /\ staged'.tx = req[p].claim /\ staged'.base = catalog
  BY <1>1, StageEffect DEF StageManifest
<1>3. CASE staged' = staged
  BY <1>2, <1>3 DEF WholeTransaction, PendingIsWhole, Fresh, NewCatalog, Recoverable
<1>4. CASE /\ staged'.parts = staged.parts \cup {"manifest"} /\ staged'.dir = staged.dir
           /\ staged'.tx = req[p].claim /\ staged'.base = catalog
  <2>0. genome = "draft" /\ req[p].claim \notin catalog /\ pointer = None
    BY <1>2 DEF Progress, Stages, Staging
  <2>a. req[p].claim \in Claims
    BY <1>2 DEF Typed, Approving, Staging
  <2>b. catalog \in SUBSET Claims
    BY <2>0 DEF Typed, TypeOK, Catalogs, Backed
  <2>1. /\ genome = "draft" /\ req[p].claim \notin catalog /\ pointer = None
        /\ req[p].claim \in Claims /\ catalog \in SUBSET Claims
    BY <2>0, <2>a, <2>b
  <2>2. staged.parts = {"genome", "catalog"}
    BY <1>2 DEF Progress, Stages, At
  <2>3. head # req[p].claim
    BY <2>1 DEF Backed
  <2> QED
    <3>. USE <1>2, <1>4, <2>1, <2>2, <2>3
    <3>1. WholeTransaction'
      BY DEF WholeTransaction, NewCatalog, Recoverable
    <3>2. PendingIsWhole'
      BY DEF PendingIsWhole, Parts, Temporary
    <3>3. Fresh'
      BY DEF Fresh
    <3> QED BY <3>1, <3>2, <3>3
<1> QED BY <1>2, <1>3, <1>4

(* A death leaves a whole transaction, a part of one, or a temporary.         *)
LEMMA DieKeeps ==
  ASSUME Typed, OneOwner, Fresh, Backed, WholeTransaction, PendingIsWhole, Progress,
         NEW p \in Procs, Die(p)
  PROVE  WholeTransaction' /\ PendingIsWhole' /\ Fresh'
<1>. USE GenomeAssumption
<1>1. staged \in StagedType
  BY DEF Typed, TypeOK, StagedType
<1>2. UNCHANGED <<genome, catalog, pointer, head, edits>>
  BY DEF Die
<1>3. CASE staged' = staged /\ torn' = torn
  BY <1>2, <1>3 DEF WholeTransaction, PendingIsWhole, Fresh, NewCatalog, Recoverable
<1>4. CASE /\ staged'.parts = staged.parts \cup {Temporary} /\ staged'.dir = staged.dir
           /\ staged'.tx = staged.tx /\ staged'.base = staged.base
           /\ req[p].pc = "stage manifest" /\ torn' = TRUE
  <2>1. genome = "draft" /\ pointer = None /\ staged.parts = {"genome", "catalog"}
    BY <1>4 DEF Progress, Stages, Staging, At
  <2>2. "manifest" \notin staged'.parts
    BY <1>4, <2>1 DEF Temporary
  <2> QED BY <1>2, <1>4, <2>1, <2>2 DEF WholeTransaction, PendingIsWhole, Fresh, Parts
<1>5. CASE /\ staged'.parts \subseteq staged.parts /\ staged'.dir = staged.dir
           /\ staged'.tx = staged.tx /\ staged'.base = staged.base
           /\ req[p].pc = "discard" /\ torn' = TRUE
  <2>1. pointer = None
    BY <1>5 DEF Progress, Stages
  <2> QED
    BY <1>2, <1>5, <2>1 DEF WholeTransaction, PendingIsWhole, Fresh, NewCatalog,
         Recoverable
<1> QED BY <1>1, <1>3, <1>4, <1>5, DieEffect

(* Initialization is the first to write.                                      *)
LEMMA FreshStep ==
  ASSUME Typed, OneOwner, Fresh, Backed, WholeTransaction, PendingIsWhole, Progress, Next
  PROVE  Fresh'
<1>. USE GenomeAssumption DEF At, Goes, Fails, Typed, TypeOK, Progress, Fresh,
     Initializing, WholeTransaction, Completes, Empty, Parts
<1>1. ASSUME NEW p \in Procs, PromoteFirst(p) PROVE Fresh'
  BY <1>1 DEF PromoteFirst, Promote, Order
<1>2. ASSUME NEW p \in Procs, PromoteSecond(p) PROVE Fresh'
  BY <1>2 DEF PromoteSecond, Promote, Order
<1>3. ASSUME NEW p \in Procs, WriteHead(p) PROVE Fresh'
  BY <1>3 DEF WriteHead
<1>4. ASSUME NEW p \in Procs, Unpoint(p) PROVE Fresh'
  BY <1>4 DEF Unpoint
<1>5. ASSUME NEW p \in Procs, Discard(p) PROVE Fresh'
  BY <1>5, DiscardKeeps
<1>6. ASSUME NEW p \in Procs, Check(p) PROVE Fresh'
  BY <1>6 DEF Check
<1>7. ASSUME NEW p \in Procs, WriteEvidence(p) PROVE Fresh'
  BY <1>7 DEF WriteEvidence
<1>8. ASSUME NEW p \in Procs, PromoteDocuments(p) PROVE Fresh'
  BY <1>8 DEF PromoteDocuments
<1>9. ASSUME NEW p \in Procs, Begin(p) PROVE Fresh'
  BY <1>9 DEF Begin
<1>10. ASSUME NEW p \in Procs, StageGenome(p) PROVE Fresh'
  BY <1>10, StageGenomeKeeps
<1>11. ASSUME NEW p \in Procs, StageCatalog(p) PROVE Fresh'
  BY <1>11, StageCatalogKeeps
<1>12. ASSUME NEW p \in Procs, StageManifest(p) PROVE Fresh'
  BY <1>12, StageManifestKeeps
<1>13. ASSUME NEW p \in Procs, Publish(p) PROVE Fresh'
  BY <1>13 DEF Publish, Stages, Staging
<1>14. ASSUME NEW p \in Procs, Abort(p) PROVE Fresh'
  BY <1>14, AbortKeeps
<1>15. ASSUME NEW p \in Procs, Die(p) PROVE Fresh'
  BY <1>15, DieKeeps
<1>16. CASE Revert
  BY <1>16 DEF Revert
<1>17. CASE UNCHANGED <<files, torn, edits>>
  BY <1>17 DEF files
<1> QED BY <1>1, <1>2, <1>3, <1>4, <1>5, <1>6, <1>7, <1>8, <1>9, <1>10, <1>11, <1>12,
     <1>13, <1>14, <1>15, <1>16, <1>17, FilesStep

(* The catalog is promoted before the Genome that needs it.                   *)
LEMMA BackedStep ==
  ASSUME Typed, OneOwner, Fresh, Backed, WholeTransaction, PendingIsWhole, Progress, Next
  PROVE  Backed'
<1>. USE GenomeAssumption DEF At, Goes, Fails, Typed, TypeOK, Progress, Fresh, Backed,
     WholeTransaction, Initializing, Completes, Parts, NewCatalog
<1>1. ASSUME NEW p \in Procs, PromoteFirst(p) PROVE Backed'
  <2>1. catalog' \in {catalog, NewCatalog} /\ UNCHANGED <<genome, head>>
    BY <1>1 DEF PromoteFirst, Promote, Order
  <2>2. staged.tx \in Claims /\ staged.base \in SUBSET Claims /\ catalog \in {staged.base, NewCatalog}
    BY <1>1 DEF PromoteFirst, Promote
  <2>3. NewCatalog # Absent /\ catalog \subseteq NewCatalog
    BY <2>2 DEF Absent
  <2> QED BY <2>1, <2>3
<1>2. ASSUME NEW p \in Procs, PromoteSecond(p) PROVE Backed'
  BY <1>2 DEF PromoteSecond, Promote, Order
<1>3. ASSUME NEW p \in Procs, WriteHead(p) PROVE Backed'
  BY <1>3 DEF WriteHead
<1>4. ASSUME NEW p \in Procs, Unpoint(p) PROVE Backed'
  BY <1>4 DEF Unpoint
<1>5. ASSUME NEW p \in Procs, Discard(p) PROVE Backed'
  BY <1>5 DEF Discard, Removal
<1>6. ASSUME NEW p \in Procs, Check(p) PROVE Backed'
  BY <1>6 DEF Check
<1>7. ASSUME NEW p \in Procs, WriteEvidence(p) PROVE Backed'
  BY <1>7 DEF WriteEvidence
<1>8. ASSUME NEW p \in Procs, PromoteDocuments(p) PROVE Backed'
  <2>1. At(p, "documents") /\ head' = head /\ genome = "none" /\ catalog = {}
    BY <1>8 DEF PromoteDocuments
  <2>2. genome' = "none" \/ (genome' = "draft" /\ catalog' = {})
    BY <1>8, <2>1 DEF PromoteDocuments
  <2> QED BY <2>1, <2>2 DEF Absent
<1>9. ASSUME NEW p \in Procs, Begin(p) PROVE Backed'
  BY <1>9 DEF Begin
<1>10. ASSUME NEW p \in Procs, StageGenome(p) PROVE Backed'
  BY <1>10 DEF StageGenome, Stage
<1>11. ASSUME NEW p \in Procs, StageCatalog(p) PROVE Backed'
  BY <1>11 DEF StageCatalog, Stage
<1>12. ASSUME NEW p \in Procs, StageManifest(p) PROVE Backed'
  BY <1>12 DEF StageManifest, Stage
<1>13. ASSUME NEW p \in Procs, Publish(p) PROVE Backed'
  BY <1>13 DEF Publish
<1>14. ASSUME NEW p \in Procs, Abort(p) PROVE Backed'
  BY <1>14 DEF Abort, Removal
<1>15. ASSUME NEW p \in Procs, Die(p) PROVE Backed'
  BY <1>15 DEF Die
<1>16. CASE Revert
  BY <1>16 DEF Revert
<1>17. CASE UNCHANGED <<files, torn, edits>>
  BY <1>17 DEF files
<1> QED BY <1>1, <1>2, <1>3, <1>4, <1>5, <1>6, <1>7, <1>8, <1>9, <1>10, <1>11, <1>12,
     <1>13, <1>14, <1>15, <1>16, <1>17, FilesStep

(* A whole transaction stays completable until its head is written.           *)
LEMMA WholeStep ==
  ASSUME Typed, OneOwner, Fresh, Backed, WholeTransaction, PendingIsWhole, Progress, Next
  PROVE  WholeTransaction'
<1>. USE GenomeAssumption DEF At, Goes, Fails, Typed, TypeOK, Progress, Fresh, Backed,
     WholeTransaction, Initializing, Stages, Completes, Empty, Parts, NewCatalog,
          Recoverable
<1>1. ASSUME NEW p \in Procs, PromoteFirst(p) PROVE WholeTransaction'
  BY <1>1 DEF PromoteFirst, Promote, Order
<1>2. ASSUME NEW p \in Procs, PromoteSecond(p) PROVE WholeTransaction'
  BY <1>2 DEF PromoteSecond, Promote, Order
<1>3. ASSUME NEW p \in Procs, WriteHead(p) PROVE WholeTransaction'
  BY <1>3 DEF WriteHead
<1>4. ASSUME NEW p \in Procs, Unpoint(p) PROVE WholeTransaction'
  BY <1>4 DEF Unpoint
<1>5. ASSUME NEW p \in Procs, Discard(p) PROVE WholeTransaction'
  BY <1>5, DiscardKeeps
<1>6. ASSUME NEW p \in Procs, Check(p) PROVE WholeTransaction'
  BY <1>6 DEF Check
<1>7. ASSUME NEW p \in Procs, WriteEvidence(p) PROVE WholeTransaction'
  BY <1>7 DEF WriteEvidence
<1>8. ASSUME NEW p \in Procs, PromoteDocuments(p) PROVE WholeTransaction'
  BY <1>8 DEF PromoteDocuments
<1>9. ASSUME NEW p \in Procs, Begin(p) PROVE WholeTransaction'
  BY <1>9 DEF Begin
<1>10. ASSUME NEW p \in Procs, StageGenome(p) PROVE WholeTransaction'
  BY <1>10, StageGenomeKeeps
<1>11. ASSUME NEW p \in Procs, StageCatalog(p) PROVE WholeTransaction'
  BY <1>11, StageCatalogKeeps
<1>12. ASSUME NEW p \in Procs, StageManifest(p) PROVE WholeTransaction'
  BY <1>12, StageManifestKeeps
<1>13. ASSUME NEW p \in Procs, Publish(p) PROVE WholeTransaction'
  BY <1>13 DEF Publish
<1>14. ASSUME NEW p \in Procs, Abort(p) PROVE WholeTransaction'
  BY <1>14, AbortKeeps
<1>15. ASSUME NEW p \in Procs, Die(p) PROVE WholeTransaction'
  BY <1>15, DieKeeps
<1>16. CASE Revert
  <2>1. edits' # 0
    BY <1>16, RevertCounts DEF Typed
  <2> QED BY <1>16, <2>1 DEF Revert
<1>17. CASE UNCHANGED <<files, torn, edits>>
  BY <1>17 DEF files
<1> QED BY <1>1, <1>2, <1>3, <1>4, <1>5, <1>6, <1>7, <1>8, <1>9, <1>10, <1>11, <1>12,
     <1>13, <1>14, <1>15, <1>16, <1>17, FilesStep

(* Only a whole transaction is ever published.                                *)
LEMMA PendingStep ==
  ASSUME Typed, OneOwner, Fresh, Backed, WholeTransaction, PendingIsWhole, Progress, Next
  PROVE  PendingIsWhole'
<1>. USE GenomeAssumption DEF At, Goes, Fails, Typed, TypeOK, Progress, PendingIsWhole,
     Completes, Stages, Empty, Parts
<1>1. ASSUME NEW p \in Procs, PromoteFirst(p) PROVE PendingIsWhole'
  BY <1>1 DEF PromoteFirst, Promote, Order
<1>2. ASSUME NEW p \in Procs, PromoteSecond(p) PROVE PendingIsWhole'
  BY <1>2 DEF PromoteSecond, Promote, Order
<1>3. ASSUME NEW p \in Procs, WriteHead(p) PROVE PendingIsWhole'
  BY <1>3 DEF WriteHead
<1>4. ASSUME NEW p \in Procs, Unpoint(p) PROVE PendingIsWhole'
  BY <1>4 DEF Unpoint
<1>5. ASSUME NEW p \in Procs, Discard(p) PROVE PendingIsWhole'
  BY <1>5, DiscardKeeps
<1>6. ASSUME NEW p \in Procs, Check(p) PROVE PendingIsWhole'
  BY <1>6 DEF Check
<1>7. ASSUME NEW p \in Procs, WriteEvidence(p) PROVE PendingIsWhole'
  BY <1>7 DEF WriteEvidence
<1>8. ASSUME NEW p \in Procs, PromoteDocuments(p) PROVE PendingIsWhole'
  BY <1>8 DEF PromoteDocuments
<1>9. ASSUME NEW p \in Procs, Begin(p) PROVE PendingIsWhole'
  BY <1>9 DEF Begin
<1>10. ASSUME NEW p \in Procs, StageGenome(p) PROVE PendingIsWhole'
  BY <1>10, StageGenomeKeeps
<1>11. ASSUME NEW p \in Procs, StageCatalog(p) PROVE PendingIsWhole'
  BY <1>11, StageCatalogKeeps
<1>12. ASSUME NEW p \in Procs, StageManifest(p) PROVE PendingIsWhole'
  BY <1>12, StageManifestKeeps
<1>13. ASSUME NEW p \in Procs, Publish(p) PROVE PendingIsWhole'
  BY <1>13 DEF Publish
<1>14. ASSUME NEW p \in Procs, Abort(p) PROVE PendingIsWhole'
  BY <1>14, AbortKeeps
<1>15. ASSUME NEW p \in Procs, Die(p) PROVE PendingIsWhole'
  BY <1>15, DieKeeps
<1>16. CASE Revert
  BY <1>16 DEF Revert
<1>17. CASE UNCHANGED <<files, torn, edits>>
  BY <1>17 DEF files
<1> QED BY <1>1, <1>2, <1>3, <1>4, <1>5, <1>6, <1>7, <1>8, <1>9, <1>10, <1>11, <1>12,
     <1>13, <1>14, <1>15, <1>16, <1>17, FilesStep

Grows == genome # "none" => genome' # "none" /\ catalog \subseteq catalog'

(* No step takes a claim out of the live catalog.                             *)
LEMMA CatalogGrows ==
  ASSUME Typed, OneOwner, Fresh, Backed, WholeTransaction, PendingIsWhole, Progress, Next
  PROVE  Grows
<1>. USE GenomeAssumption DEF Grows, At, Typed, TypeOK, Progress, Initializing
<1>1. ASSUME NEW p \in Procs, PromoteFirst(p) PROVE Grows
  <2>1. catalog' \in {catalog, NewCatalog} /\ genome' = genome
    BY <1>1 DEF PromoteFirst, Promote, Order
  <2>2. catalog \in {staged.base, NewCatalog}
    BY <1>1 DEF PromoteFirst, Promote, Completes, WholeTransaction
  <2> QED BY <2>1, <2>2 DEF NewCatalog
<1>2. ASSUME NEW p \in Procs, PromoteSecond(p) PROVE Grows
  <2>1. genome' \in {genome, staged.tx} /\ catalog' = catalog
    BY <1>2 DEF PromoteSecond, Promote, Order
  <2>2. staged.tx \in Claims
    BY <1>2 DEF PromoteSecond, Promote, Completes, WholeTransaction
  <2> QED BY <2>1, <2>2
<1>3. ASSUME NEW p \in Procs, WriteHead(p) PROVE Grows
  BY <1>3 DEF WriteHead
<1>4. ASSUME NEW p \in Procs, Unpoint(p) PROVE Grows
  BY <1>4 DEF Unpoint
<1>5. ASSUME NEW p \in Procs, Discard(p) PROVE Grows
  BY <1>5 DEF Discard, Removal
<1>6. ASSUME NEW p \in Procs, Check(p) PROVE Grows
  BY <1>6 DEF Check
<1>7. ASSUME NEW p \in Procs, WriteEvidence(p) PROVE Grows
  BY <1>7 DEF WriteEvidence
<1>8. ASSUME NEW p \in Procs, PromoteDocuments(p) PROVE Grows
  BY <1>8 DEF PromoteDocuments, Goes, Fails
<1>9. ASSUME NEW p \in Procs, Begin(p) PROVE Grows
  BY <1>9 DEF Begin
<1>10. ASSUME NEW p \in Procs, StageGenome(p) PROVE Grows
  BY <1>10 DEF StageGenome, Stage
<1>11. ASSUME NEW p \in Procs, StageCatalog(p) PROVE Grows
  BY <1>11 DEF StageCatalog, Stage
<1>12. ASSUME NEW p \in Procs, StageManifest(p) PROVE Grows
  BY <1>12 DEF StageManifest, Stage
<1>13. ASSUME NEW p \in Procs, Publish(p) PROVE Grows
  BY <1>13 DEF Publish
<1>14. ASSUME NEW p \in Procs, Abort(p) PROVE Grows
  BY <1>14 DEF Abort, Removal
<1>15. ASSUME NEW p \in Procs, Die(p) PROVE Grows
  BY <1>15 DEF Die
<1>16. CASE Revert
  BY <1>16 DEF Revert
<1>17. CASE UNCHANGED <<files, torn, edits>>
  BY <1>17 DEF files
<1> QED BY <1>1, <1>2, <1>3, <1>4, <1>5, <1>6, <1>7, <1>8, <1>9, <1>10, <1>11, <1>12,
     <1>13, <1>14, <1>15, <1>16, <1>17, FilesStep

-----------------------------------------------------------------------------
(* The requests.                                                              *)

(* Steps that promise nothing about the files.                                *)
Loose == {"idle", "lock", "unlink", "peek", "linked", "reconcile", "check", "unpoint",
          "release", "genome", "catalog", "related", "return"}

LEMMA LooseStep ==
  ASSUME NEW p \in Procs, req'[p].pc \in Loose
  PROVE  Initializing(p)' /\ Stages(p)' /\ Completes(p)'
BY DEF Loose, Initializing, Stages, Completes, Staging, At

(* The operations that lead to such a step.                                   *)
LEMMA LooseActions ==
  ASSUME req \in [Procs -> Asked], NEW p \in Procs,
         Link(p) \/ UnlinkTemporary(p) \/ Busy(p) \/ UnlinkStale(p) \/ Release(p) \/ WriteHead(p)
         \/ Peek(p) \/ ReadGenome(p) \/ ReadCatalog(p) \/ Related(p) \/ Return(p) \/ FindStale(p)
         \/ Die(p) \/ PromoteDocuments(p) \/ Request(p)
  PROVE  req'[p].pc \in Loose
<1>. USE Moved DEF Loose, Idle
<1>1. Link(p) => req'[p].pc \in Loose
  BY DEF Link
<1>2. UnlinkTemporary(p) => req'[p].pc \in Loose
  BY DEF UnlinkTemporary
<1>3. Busy(p) => req'[p].pc \in Loose
  BY DEF Busy
<1>4. UnlinkStale(p) => req'[p].pc \in Loose
  BY DEF UnlinkStale
<1>5. Release(p) => req'[p].pc \in Loose
  BY DEF Release
<1>6. WriteHead(p) => req'[p].pc \in Loose
  BY DEF WriteHead
<1>7. Peek(p) => req'[p].pc \in Loose
  BY DEF Peek
<1>8. ReadGenome(p) => req'[p].pc \in Loose
  BY DEF ReadGenome, Asked
<1>9. ReadCatalog(p) => req'[p].pc \in Loose
  BY DEF ReadCatalog
<1>10. Related(p) => req'[p].pc \in Loose
  BY DEF Related
<1>11. Return(p) => req'[p].pc \in Loose
  BY DEF Return
<1>12. FindStale(p) => req'[p].pc \in Loose
  BY DEF FindStale
<1>13. Die(p) => req'[p].pc \in Loose
  <2>1. Die(p) => req'[p] = Idle
    BY DEF Die
  <2> QED BY <2>1
<1>14. PromoteDocuments(p) => req'[p].pc \in Loose
  BY DEF PromoteDocuments
<1>15. ASSUME NEW op, NEW c, Ask(p, op, c) PROVE req'[p].pc \in Loose
  BY <1>15 DEF Ask
<1> QED BY <1>1, <1>2, <1>3, <1>4, <1>5, <1>6, <1>7, <1>8, <1>9, <1>10, <1>11, <1>12,
     <1>13, <1>14, <1>15 DEF Request

(* A request elsewhere satisfies each part of Progress.                       *)
LEMMA NotInitializing ==
  ASSUME NEW p \in Procs, req'[p].pc \notin {"evidence", "documents"}
  PROVE  Initializing(p)'
BY DEF Initializing, At

LEMMA NotStaging ==
  ASSUME NEW p \in Procs, req'[p].pc \notin Staging \cup {"begin", "discard", "abort"}
  PROVE  Stages(p)'
BY DEF Stages, Staging, At

LEMMA NotCompleting ==
  ASSUME NEW p \in Procs, req'[p].pc \notin {"first", "second", "head"}
  PROVE  Completes(p)'
BY DEF Completes, At

(* What the owner of the lock knows after each of its operations.             *)
LEMMA DoingPromoteFirst ==
  ASSUME Typed, OneOwner, Fresh, Backed, WholeTransaction, PendingIsWhole, Progress,
         NEW p \in Procs, PromoteFirst(p)
  PROVE  Initializing(p)' /\ Stages(p)' /\ Completes(p)'
<1>0. req \in [Procs -> Asked] /\ staged \in StagedType
  BY DEF Typed, TypeOK, StagedType
<1>. USE GenomeAssumption
<1>1. /\ req[p].pc = "first" /\ req'[p].genome = req[p].genome
      /\ UNCHANGED <<staged, head, edits, genome>>
      /\ \/ req'[p].pc = "second" /\ catalog' = NewCatalog
         \/ req'[p].pc = "second" /\ req[p].catalog = NewCatalog /\ catalog' = catalog
         \/ req'[p].pc = "release"
  BY <1>0, Moved DEF PromoteFirst, Promote, Order, At
<1>2. Initializing(p)' /\ Stages(p)'
  BY <1>1, NotInitializing, NotStaging DEF Staging
<1>3. Completes(p)'
  BY <1>1 DEF Progress, Completes, At, NewCatalog
<1> QED BY <1>2, <1>3

LEMMA DoingPromoteSecond ==
  ASSUME Typed, OneOwner, Fresh, Backed, WholeTransaction, PendingIsWhole, Progress,
         NEW p \in Procs, PromoteSecond(p)
  PROVE  Initializing(p)' /\ Stages(p)' /\ Completes(p)'
<1>0. req \in [Procs -> Asked] /\ staged \in StagedType
  BY DEF Typed, TypeOK, StagedType
<1>. USE GenomeAssumption
<1>1. /\ req[p].pc = "second"
      /\ UNCHANGED <<staged, head, edits, catalog>>
      /\ \/ req'[p].pc = "head" /\ genome' = staged.tx
         \/ req'[p].pc = "head" /\ req[p].genome = staged.tx /\ genome' = genome
         \/ req'[p].pc = "release"
  BY <1>0, Moved DEF PromoteSecond, Promote, Order, At
<1>2. Initializing(p)' /\ Stages(p)'
  BY <1>1, NotInitializing, NotStaging DEF Staging
<1>3. Completes(p)'
  BY <1>1 DEF Progress, Completes, At, NewCatalog
<1> QED BY <1>2, <1>3

LEMMA DoingUnpoint ==
  ASSUME Typed, OneOwner, Fresh, Backed, WholeTransaction, PendingIsWhole, Progress,
         NEW p \in Procs, Unpoint(p)
  PROVE  Initializing(p)' /\ Stages(p)' /\ Completes(p)'
<1>0. req \in [Procs -> Asked] /\ staged \in StagedType
  BY DEF Typed, TypeOK, StagedType
<1>. USE GenomeAssumption
<1>1. req'[p].pc = "discard" /\ pointer' = None
  BY <1>0, Moved DEF Unpoint
<1>2. Initializing(p)' /\ Completes(p)'
  BY <1>1, NotInitializing, NotCompleting
<1>3. Stages(p)'
  BY <1>1 DEF Stages, At, Staging
<1> QED BY <1>2, <1>3

LEMMA DoingCheck ==
  ASSUME Typed, OneOwner, Fresh, Backed, WholeTransaction, PendingIsWhole, Progress,
         NEW p \in Procs, Check(p)
  PROVE  Initializing(p)' /\ Stages(p)' /\ Completes(p)'
<1>0. req \in [Procs -> Asked] /\ staged \in StagedType
  BY DEF Typed, TypeOK, StagedType
<1>. USE GenomeAssumption
<1>1. genome' = genome /\ (req'[p].pc = "release" \/ (req'[p].pc = "evidence" /\ genome = "none"))
  BY <1>0, Moved DEF Check
<1>2. Stages(p)' /\ Completes(p)'
  BY <1>1, NotStaging, NotCompleting DEF Staging
<1>3. Initializing(p)'
  BY <1>1 DEF Initializing, At
<1> QED BY <1>2, <1>3

LEMMA DoingWriteEvidence ==
  ASSUME Typed, OneOwner, Fresh, Backed, WholeTransaction, PendingIsWhole, Progress,
         NEW p \in Procs, WriteEvidence(p)
  PROVE  Initializing(p)' /\ Stages(p)' /\ Completes(p)'
<1>0. req \in [Procs -> Asked] /\ staged \in StagedType
  BY DEF Typed, TypeOK, StagedType
<1>. USE GenomeAssumption
<1>1. req[p].pc = "evidence" /\ genome' = genome /\ (req'[p].pc = "release" \/ (req'[p].pc = "documents" /\ catalog' = {}))
  BY <1>0, Moved DEF WriteEvidence, At
<1>2. Stages(p)' /\ Completes(p)'
  BY <1>1, NotStaging, NotCompleting DEF Staging
<1>3. Initializing(p)'
  BY <1>1 DEF Initializing, At, Progress
<1> QED BY <1>2, <1>3

LEMMA DoingBegin ==
  ASSUME Typed, OneOwner, Fresh, Backed, WholeTransaction, PendingIsWhole, Progress,
         NEW p \in Procs, Begin(p)
  PROVE  Initializing(p)' /\ Stages(p)' /\ Completes(p)'
<1>0. req \in [Procs -> Asked] /\ staged \in StagedType
  BY DEF Typed, TypeOK, StagedType
<1>. USE GenomeAssumption
<1>1. /\ req[p].pc = "begin" /\ UNCHANGED <<genome, catalog, pointer>> /\ req'[p].claim = req[p].claim
      /\ \/ req'[p].pc = "release"
         \/ /\ req'[p].pc = "stage genome" /\ genome = "draft" /\ req[p].claim \notin catalog
            /\ staged'.parts = {}
  BY <1>0, Moved DEF Begin, At, Empty
<1>2. Initializing(p)' /\ Completes(p)'
  BY <1>1, NotInitializing, NotCompleting
<1>3. pointer = None
  BY <1>1 DEF Progress, Stages
<1>4. Stages(p)'
  BY <1>1, <1>3 DEF Stages, At, Staging
<1> QED BY <1>2, <1>4

LEMMA DoingStageGenome ==
  ASSUME Typed, OneOwner, Fresh, Backed, WholeTransaction, PendingIsWhole, Progress,
         NEW p \in Procs, StageGenome(p)
  PROVE  Initializing(p)' /\ Stages(p)' /\ Completes(p)'
<1>0. req \in [Procs -> Asked] /\ staged \in StagedType
  BY DEF Typed, TypeOK, StagedType
<1>. USE GenomeAssumption
<1>1. /\ req[p].pc = "stage genome" /\ UNCHANGED <<genome, catalog, pointer>> /\ req'[p].claim = req[p].claim
      /\ \/ req'[p].pc = "abort"
         \/ /\ req'[p].pc = "stage catalog" /\ staged'.parts = staged.parts \cup {"genome"}
            /\ staged'.tx = req[p].claim /\ staged'.base = catalog
  BY <1>0, Moved DEF StageGenome, Stage, At, StagedType
<1>2. Initializing(p)' /\ Completes(p)'
  BY <1>1, NotInitializing, NotCompleting
<1>3. /\ pointer = None /\ genome = "draft" /\ req[p].claim \notin catalog
      /\ staged.parts \cup {"genome"} = {"genome"}
  BY <1>1 DEF Progress, Stages, Staging, At, Parts
<1>4. Stages(p)'
  BY <1>1, <1>3 DEF Stages, At, Staging
<1> QED BY <1>2, <1>4

LEMMA DoingStageCatalog ==
  ASSUME Typed, OneOwner, Fresh, Backed, WholeTransaction, PendingIsWhole, Progress,
         NEW p \in Procs, StageCatalog(p)
  PROVE  Initializing(p)' /\ Stages(p)' /\ Completes(p)'
<1>0. req \in [Procs -> Asked] /\ staged \in StagedType
  BY DEF Typed, TypeOK, StagedType
<1>. USE GenomeAssumption
<1>1. /\ req[p].pc = "stage catalog" /\ UNCHANGED <<genome, catalog, pointer>> /\ req'[p].claim = req[p].claim
      /\ \/ req'[p].pc = "abort"
         \/ /\ req'[p].pc = "stage manifest" /\ staged'.parts = staged.parts \cup {"catalog"}
            /\ staged'.tx = req[p].claim /\ staged'.base = catalog
  BY <1>0, Moved DEF StageCatalog, Stage, At, StagedType
<1>2. Initializing(p)' /\ Completes(p)'
  BY <1>1, NotInitializing, NotCompleting
<1>3. /\ pointer = None /\ genome = "draft" /\ req[p].claim \notin catalog
      /\ staged.parts \cup {"catalog"} = {"genome", "catalog"}
  BY <1>1 DEF Progress, Stages, Staging, At, Parts
<1>4. Stages(p)'
  BY <1>1, <1>3 DEF Stages, At, Staging
<1> QED BY <1>2, <1>4

LEMMA DoingStageManifest ==
  ASSUME Typed, OneOwner, Fresh, Backed, WholeTransaction, PendingIsWhole, Progress,
         NEW p \in Procs, StageManifest(p)
  PROVE  Initializing(p)' /\ Stages(p)' /\ Completes(p)'
<1>0. req \in [Procs -> Asked] /\ staged \in StagedType
  BY DEF Typed, TypeOK, StagedType
<1>. USE GenomeAssumption
<1>1. /\ req[p].pc = "stage manifest" /\ UNCHANGED <<genome, catalog, pointer>> /\ req'[p].claim = req[p].claim
      /\ \/ req'[p].pc = "abort"
         \/ /\ req'[p].pc = "publish" /\ staged'.parts = staged.parts \cup {"manifest"}
            /\ staged'.tx = req[p].claim /\ staged'.base = catalog
  BY <1>0, Moved DEF StageManifest, Stage, At, StagedType
<1>2. Initializing(p)' /\ Completes(p)'
  BY <1>1, NotInitializing, NotCompleting
<1>3. /\ pointer = None /\ genome = "draft" /\ req[p].claim \notin catalog
      /\ staged.parts \cup {"manifest"} = Parts
  BY <1>1 DEF Progress, Stages, Staging, At, Parts
<1>4. Stages(p)'
  BY <1>1, <1>3 DEF Stages, At, Staging
<1> QED BY <1>2, <1>4

LEMMA DoingPublish ==
  ASSUME Typed, OneOwner, Fresh, Backed, WholeTransaction, PendingIsWhole, Progress,
         NEW p \in Procs, Publish(p)
  PROVE  Initializing(p)' /\ Stages(p)' /\ Completes(p)'
<1>0. req \in [Procs -> Asked] /\ staged \in StagedType
  BY DEF Typed, TypeOK, StagedType
<1>. USE GenomeAssumption
<1>1. /\ req[p].pc = "publish"
      /\ \/ req'[p].pc = "reconcile"
         \/ /\ req'[p].pc = "abort" /\ req'[p].claim = req[p].claim
            /\ pointer' \in {pointer, staged.tx}
  BY <1>0, Moved DEF Publish, At, Asked
<1>2. Initializing(p)' /\ Completes(p)'
  BY <1>1, NotInitializing, NotCompleting
<1>3. pointer = None /\ staged.tx = req[p].claim
  BY <1>1 DEF Progress, Stages, Staging
<1>4. Stages(p)'
  BY <1>1, <1>3 DEF Stages, At, Staging
<1> QED BY <1>2, <1>4

LEMMA DoingAbort ==
  ASSUME Typed, OneOwner, Fresh, Backed, WholeTransaction, PendingIsWhole, Progress,
         NEW p \in Procs, Abort(p)
  PROVE  Initializing(p)' /\ Stages(p)' /\ Completes(p)'
<1>0. req \in [Procs -> Asked] /\ staged \in StagedType
  BY DEF Typed, TypeOK, StagedType
<1>. USE GenomeAssumption
<1>1. req'[p].pc = "release"
  BY <1>0, Moved DEF Abort, Removal
<1> QED BY <1>1, NotInitializing, NotStaging, NotCompleting DEF Staging

LEMMA DoingReconcile ==
  ASSUME Typed, OneOwner, Fresh, Backed, WholeTransaction, PendingIsWhole, Progress,
         NEW p \in Procs, Reconcile(p)
  PROVE  Initializing(p)' /\ Stages(p)' /\ Completes(p)'
<1>0. req \in [Procs -> Asked] /\ staged \in StagedType
  BY DEF Typed, TypeOK, StagedType
<1>. USE GenomeAssumption
<1>1. /\ UNCHANGED <<genome, catalog, staged, pointer, head, edits>>
      /\ req'[p].genome = genome /\ req'[p].catalog = catalog
      /\ req'[p].pc = CASE Plan = "nothing" -> Proceed(p)
                         [] Plan = "discard" -> "discard"
                         [] Plan = "cleanup" -> "unpoint"
                         [] Plan = "complete" -> "first"
                         [] Plan = "error" -> "release"
  BY <1>0 DEF Reconcile, files, Asked
<1>2. Proceed(p) \in {"release", "check", "begin", "genome"}
  <2>1. req[p].op \in {"init", "read", "approve"}
    BY <1>0 DEF Reconcile, At, Typed, Asked
  <2> QED BY <2>1 DEF Proceed
<1>3. Plan \in {"nothing", "discard", "cleanup", "complete", "error"}
  BY DEF Plan, Verdict
<1>4. Plan \in {"nothing", "discard"} => pointer = None
  BY DEF Plan, Verdict, Pending
<1>5. Plan = "complete" => Parts \subseteq staged.parts /\ head # staged.tx
  BY DEF Plan, Verdict
<1>6. \/ req'[p].pc = "first" /\ Plan = "complete"
      \/ req'[p].pc \in {"release", "unpoint"}
      \/ req'[p].pc \in {"check", "begin", "genome", "discard"} /\ pointer = None
  BY <1>1, <1>2, <1>3, <1>4
<1>7. Initializing(p)'
  BY <1>6, NotInitializing
<1>8. Stages(p)'
  BY <1>1, <1>6 DEF Stages, At, Staging
<1>9. Completes(p)'
  BY <1>1, <1>5, <1>6 DEF Completes, At
<1> QED BY <1>7, <1>8, <1>9

LEMMA DoingDiscard ==
  ASSUME Typed, OneOwner, Fresh, Backed, WholeTransaction, PendingIsWhole, Progress,
         NEW p \in Procs, Discard(p)
  PROVE  Initializing(p)' /\ Stages(p)' /\ Completes(p)'
<1>0. req \in [Procs -> Asked] /\ staged \in StagedType
  BY DEF Typed, TypeOK, StagedType
<1>. USE GenomeAssumption
<1>1. req[p].pc = "discard" /\ pointer' = pointer /\ req'[p].pc \in {"release", "check", "begin", "genome"}
  <2>1. Proceed(p) \in {"release", "check", "begin", "genome"}
    <3>1. req[p].op \in {"init", "read", "approve"}
      BY <1>0 DEF Discard, At, Typed, Asked
    <3> QED BY <3>1 DEF Proceed
  <2>. HIDE DEF Proceed
  <2>2. req'[p].pc \in {Proceed(p), "release"}
    BY <1>0, Moved DEF Discard, Removal
  <2> QED BY <2>1, <2>2 DEF Discard, At
<1>2. Initializing(p)' /\ Completes(p)'
  BY <1>1, NotInitializing, NotCompleting
<1>3. pointer = None
  BY <1>1 DEF Progress, Stages
<1>4. Stages(p)'
  BY <1>1, <1>3 DEF Stages, At, Staging
<1> QED BY <1>2, <1>4

(* Progress is preserved: other requests wait, or do not own the lock.        *)
LEMMA ProgressStep ==
  ASSUME Typed, OneOwner, Fresh, Backed, WholeTransaction, PendingIsWhole, Progress, Next
  PROVE  Progress'
<1>0. req \in [Procs -> Asked]
  BY DEF Typed
<1>1. CASE Revert
  <2>1. /\ UNCHANGED <<req, staged, pointer, head, catalog>> /\ genome \in Claims /\ genome' = "draft"
    BY <1>1 DEF Revert
  <2>2. edits' # 0
    BY <1>1, RevertCounts DEF Typed
  <2>3. genome # "none"
    BY <2>1, GenomeAssumption
  <2> QED
    BY <2>1, <2>2, <2>3 DEF Progress, Initializing, Stages, Completes, At, NewCatalog
<1>2. ASSUME NEW p \in Procs, Request(p) \/ Step(p) \/ FindStale(p) \/ Die(p),
             NEW q \in Procs
      PROVE  Initializing(q)' /\ Stages(q)' /\ Completes(q)'
  <2>1. CASE q = p
    <3>1. CASE Link(p) \/ UnlinkTemporary(p) \/ Busy(p) \/ UnlinkStale(p) \/ Release(p) \/ WriteHead(p)
         \/ Peek(p) \/ ReadGenome(p) \/ ReadCatalog(p) \/ Related(p) \/ Return(p) \/ FindStale(p)
         \/ Die(p) \/ PromoteDocuments(p) \/ Request(p)
      BY <1>0, <2>1, <3>1, LooseActions, LooseStep
    <3>2. CASE PromoteFirst(p)
      BY <2>1, <3>2, DoingPromoteFirst
    <3>3. CASE PromoteSecond(p)
      BY <2>1, <3>3, DoingPromoteSecond
    <3>4. CASE Unpoint(p)
      BY <2>1, <3>4, DoingUnpoint
    <3>5. CASE Check(p)
      BY <2>1, <3>5, DoingCheck
    <3>6. CASE WriteEvidence(p)
      BY <2>1, <3>6, DoingWriteEvidence
    <3>7. CASE Begin(p)
      BY <2>1, <3>7, DoingBegin
    <3>8. CASE StageGenome(p)
      BY <2>1, <3>8, DoingStageGenome
    <3>9. CASE StageCatalog(p)
      BY <2>1, <3>9, DoingStageCatalog
    <3>10. CASE StageManifest(p)
      BY <2>1, <3>10, DoingStageManifest
    <3>11. CASE Publish(p)
      BY <2>1, <3>11, DoingPublish
    <3>12. CASE Abort(p)
      BY <2>1, <3>12, DoingAbort
    <3>13. CASE Reconcile(p)
      BY <2>1, <3>13, DoingReconcile
    <3>14. CASE Discard(p)
      BY <2>1, <3>14, DoingDiscard
    <3> QED
      BY <1>2, <2>1, <3>1, <3>2, <3>3, <3>4, <3>5, <3>6, <3>7, <3>8, <3>9, <3>10, <3>11,
           <3>12, <3>13, <3>14 DEF Step
  <2>2. CASE q # p /\ req[q].pc \notin Working
    <3>1. req'[q].pc \notin Working
      BY <1>0, <1>2, <2>2, OthersWait
    <3> QED
      BY <3>1, NotInitializing, NotStaging, NotCompleting DEF Working, Staging
  <2>3. CASE q # p /\ req[q].pc \in Working
    <3>1. req'[q] = req[q]
      BY <1>0, <1>2, <2>3, OthersWait
    <3>2. req[p].pc \notin Working
      BY <2>3 DEF OneOwner
    <3>3. UNCHANGED <<files, torn, edits>>
      BY <1>2, <3>2, OwnersWrite
    <3> QED
      BY <3>1, <3>3 DEF files, Progress, Initializing, Stages, Completes, At, NewCatalog
  <2> QED BY <2>1, <2>2, <2>3
<1> QED BY <1>1, <1>2 DEF Next, Progress

(* Only a reader comes to have read something.                                *)
LEMMA OnlyReadersRead ==
  ASSUME Typed, OneOwner, Fresh, Backed, WholeTransaction, PendingIsWhole, Progress,
         NEW p \in Procs, Request(p) \/ Step(p) \/ FindStale(p) \/ Die(p),
         ~ReadGenome(p), ~ReadCatalog(p)
  PROVE  req'[p].pc \notin {"catalog", "related"}
<1>. DEFINE Unread == req'[p].pc \notin {"catalog", "related"}
<1>0. req \in [Procs -> Asked]
  BY DEF Typed
<1>1. Proceed(p) \in {"release", "check", "begin", "genome"} \/ req[p].pc = "idle"
  <2>1. CASE req[p].pc # "idle"
    <3>1. req[p].op \in {"init", "read", "approve"}
      BY <1>0, <2>1 DEF Typed, Asked
    <3> QED BY <3>1 DEF Proceed
  <2> QED BY <2>1
<1>. USE <1>0
<1>2. Link(p) => Unread
  BY Moved DEF Link
<1>3. UnlinkTemporary(p) => Unread
  BY Moved DEF UnlinkTemporary
<1>4. Busy(p) => Unread
  BY Moved DEF Busy, Idle
<1>5. UnlinkStale(p) => Unread
  BY Moved DEF UnlinkStale
<1>6. Release(p) => Unread
  BY Moved DEF Release, Idle
<1>7. ASSUME Reconcile(p) PROVE Unread
  <2>1. req'[p].pc = CASE Plan = "nothing" -> Proceed(p)
                       [] Plan = "discard" -> "discard"
                       [] Plan = "cleanup" -> "unpoint"
                       [] Plan = "complete" -> "first"
                       [] Plan = "error" -> "release"
    BY <1>7 DEF Reconcile, Asked
  <2>2. Plan \in {"nothing", "discard", "cleanup", "complete", "error"}
    BY DEF Plan, Verdict
  <2> QED BY <1>1, <1>7, <2>1, <2>2 DEF Reconcile, At
<1>8. PromoteFirst(p) => Unread
  BY Moved DEF PromoteFirst, Promote
<1>9. PromoteSecond(p) => Unread
  BY Moved DEF PromoteSecond, Promote
<1>10. WriteHead(p) => Unread
  BY Moved DEF WriteHead
<1>11. Unpoint(p) => Unread
  BY Moved DEF Unpoint
<1>12. Discard(p) => Unread
  <2>1. Discard(p) => req'[p].pc \in {Proceed(p), "release"}
    BY Moved DEF Discard, Removal
  <2> QED BY <1>1, <2>1 DEF Discard, At
<1>13. Check(p) => Unread
  BY Moved DEF Check
<1>14. WriteEvidence(p) => Unread
  BY Moved DEF WriteEvidence
<1>15. PromoteDocuments(p) => Unread
  <2>1. PromoteDocuments(p) => req'[p].pc \in {"release"}
    BY Moved DEF PromoteDocuments
  <2> QED BY <2>1
<1>16. Begin(p) => Unread
  <2>1. Begin(p) => req'[p].pc \in {"stage genome", "release"}
    BY Moved DEF Begin
  <2> QED BY <2>1
<1>17. StageGenome(p) => Unread
  <2>1. StageGenome(p) => req'[p].pc \in {"stage catalog", "abort"}
    BY Moved DEF StageGenome, Stage
  <2> QED BY <2>1
<1>18. StageCatalog(p) => Unread
  <2>1. StageCatalog(p) => req'[p].pc \in {"stage manifest", "abort"}
    BY Moved DEF StageCatalog, Stage
  <2> QED BY <2>1
<1>19. StageManifest(p) => Unread
  <2>1. StageManifest(p) => req'[p].pc \in {"publish", "abort"}
    BY Moved DEF StageManifest, Stage
  <2> QED BY <2>1
<1>20. Publish(p) => Unread
  BY Moved DEF Publish, Asked
<1>21. Abort(p) => Unread
  BY Moved DEF Abort, Removal
<1>22. Peek(p) => Unread
  BY Moved DEF Peek
<1>23. Related(p) => Unread
  BY Moved DEF Related
<1>24. Return(p) => Unread
  BY Moved DEF Return, Idle
<1>25. FindStale(p) => Unread
  BY Moved DEF FindStale
<1>26. Die(p) => Unread
  <2>1. Die(p) => req'[p] = Idle
    BY DEF Die
  <2> QED BY <2>1 DEF Idle
<1>27. ASSUME NEW op, NEW c, Ask(p, op, c) PROVE Unread
  BY <1>27 DEF Ask, Idle
<1> QED BY <1>2, <1>3, <1>4, <1>5, <1>6, <1>7, <1>8, <1>9, <1>10, <1>11,
     <1>12, <1>13, <1>14, <1>15, <1>16, <1>17, <1>18, <1>19, <1>20, <1>21,
     <1>22, <1>23, <1>24, <1>25, <1>26, <1>27 DEF Step, Request

(* What was read stays in the catalog.                                        *)
LEMMA ReadsStep ==
  ASSUME Typed, OneOwner, Fresh, Backed, WholeTransaction, PendingIsWhole, Progress,
         Reads, Next
  PROVE  Reads'
<1>0. req \in [Procs -> Asked]
  BY DEF Typed
<1>1. genome # "none" => genome' # "none" /\ catalog \subseteq catalog'
  BY CatalogGrows DEF Grows
<1>2. CASE UNCHANGED req
  BY <1>1, <1>2 DEF Reads, At
<1>3. ASSUME NEW p \in Procs, Request(p) \/ Step(p) \/ FindStale(p) \/ Die(p)
      PROVE  Reads'
  <2>1. \A q \in Procs \ {p} : req'[q] = req[q]
    BY <1>0, <1>3, OthersWait
  <2>2. /\ req'[p].pc \in {"catalog", "related"} => genome' # "none"
        /\ req'[p].pc = "catalog" /\ req'[p].genome \in Claims => req'[p].genome \in catalog'
        /\ req'[p].pc = "related" /\ req'[p].genome \in Claims => req'[p].genome \in req'[p].catalog
    <3>1. CASE ReadGenome(p)
      BY <1>0, <3>1 DEF ReadGenome, Asked, files, Backed
    <3>2. CASE ReadCatalog(p)
      BY <1>0, <3>2 DEF ReadCatalog, Asked, files, Reads, At
    <3>3. CASE ~ReadGenome(p) /\ ~ReadCatalog(p)
      BY <1>0, <1>3, <3>3, OnlyReadersRead
    <3> QED BY <3>1, <3>2, <3>3
  <2> QED BY <1>1, <2>1, <2>2 DEF Reads, At
<1> QED BY <1>2, <1>3 DEF Next, Revert

-----------------------------------------------------------------------------
(* The lock.                                                                  *)

(* Under Prompt no step takes the lock from a living owner.                   *)
LEMMA LockKept ==
  ASSUME Prompt, TypeOK, NEW p \in Procs, Request(p) \/ Step(p) \/ FindStale(p) \/ Die(p)
  PROVE  lock.by \notin {Free, Dead, p} => lock'.by = lock.by
<1>. DEFINE Kept == lock.by \notin {Free, Dead, p} => lock'.by = lock.by
<1>1. Link(p) => Kept
  BY DEF Link
<1>2. UnlinkTemporary(p) => Kept
  BY DEF UnlinkTemporary, TypeOK
<1>3. Busy(p) => Kept
  BY DEF Busy
<1>4. UnlinkStale(p) => Kept
  BY DEF UnlinkStale
<1>5. Release(p) => Kept
  BY DEF Release
<1>6. Reconcile(p) => Kept
  BY DEF Reconcile
<1>7. PromoteFirst(p) => Kept
  BY DEF PromoteFirst, Promote
<1>8. PromoteSecond(p) => Kept
  BY DEF PromoteSecond, Promote
<1>9. WriteHead(p) => Kept
  BY DEF WriteHead
<1>10. Unpoint(p) => Kept
  BY DEF Unpoint
<1>11. Discard(p) => Kept
  BY DEF Discard
<1>12. Check(p) => Kept
  BY DEF Check
<1>13. WriteEvidence(p) => Kept
  BY DEF WriteEvidence
<1>14. PromoteDocuments(p) => Kept
  BY DEF PromoteDocuments
<1>15. Begin(p) => Kept
  BY DEF Begin
<1>16. StageGenome(p) => Kept
  BY DEF StageGenome, Stage
<1>17. StageCatalog(p) => Kept
  BY DEF StageCatalog, Stage
<1>18. StageManifest(p) => Kept
  BY DEF StageManifest, Stage
<1>19. Publish(p) => Kept
  BY DEF Publish
<1>20. Abort(p) => Kept
  BY DEF Abort
<1>21. Peek(p) => Kept
  BY DEF Peek
<1>22. ReadGenome(p) => Kept
  BY DEF ReadGenome
<1>23. ReadCatalog(p) => Kept
  BY DEF ReadCatalog
<1>24. Related(p) => Kept
  BY DEF Related
<1>25. Return(p) => Kept
  BY DEF Return
<1>26. FindStale(p) => Kept
  BY DEF FindStale
<1>27. Die(p) => Kept
  BY DEF Die, TypeOK
<1>28. Request(p) => Kept
  BY DEF Request, Ask
<1> QED BY <1>1, <1>2, <1>3, <1>4, <1>5, <1>6, <1>7, <1>8, <1>9, <1>10, <1>11,
     <1>12, <1>13, <1>14, <1>15, <1>16, <1>17, <1>18, <1>19, <1>20, <1>21,
     <1>22, <1>23, <1>24, <1>25, <1>26, <1>27, <1>28 DEF Step

(* Hence one owner.                                                           *)
LEMMA OneOwnerStep ==
  ASSUME Prompt, OneOwner, req \in [Procs -> Asked], TypeOK, Next
  PROVE  OneOwner'
<1>1. ASSUME NEW p \in Procs, Request(p) \/ Step(p) \/ FindStale(p) \/ Die(p),
             NEW q \in Procs, q # p, req'[q].pc \in Working
      PROVE  lock'.by = q
  <2>1. req'[q] = req[q]
    BY <1>1, OthersWait
  <2>2. lock.by = q
    BY <1>1, <2>1 DEF OneOwner
  <2>3. lock.by \notin {Free, Dead, p} => lock'.by = lock.by
    BY <1>1, LockKept
  <2>4. q \notin {Free, Dead, p}
    BY <1>1, GenomeAssumption
  <2> QED BY <2>2, <2>3, <2>4
<1>2. ASSUME NEW p \in Procs, Request(p) \/ Step(p) \/ FindStale(p) \/ Die(p),
             req'[p].pc \in Working
      PROVE  lock'.by = p
  <2>. USE Moved DEF At
  <2>a. req[p].pc \in Working => lock.by = p
    BY DEF OneOwner
  <2>1. CASE Link(p)
    BY <2>1 DEF Link
  <2>2. CASE UnlinkTemporary(p)
    <3>1. lock.by = p /\ lock'.by = lock.by
      BY <2>2, <2>a DEF UnlinkTemporary, Working, TypeOK
    <3> QED BY <3>1
  <2>3. CASE Busy(p)
    <3>1. req'[p].pc \in {"idle", "lock", "unlink", "genome", "return", "catalog",
         "related"}
      BY <2>3 DEF Busy, Idle
    <3> QED BY <1>2, <3>1 DEF Working
  <2>4. CASE UnlinkStale(p)
    <3>1. req'[p].pc \in {"idle", "lock", "unlink", "genome", "return", "catalog",
         "related"}
      BY <2>4 DEF UnlinkStale, Idle
    <3> QED BY <1>2, <3>1 DEF Working
  <2>5. CASE Release(p)
    <3>1. req'[p].pc \in {"idle", "lock", "unlink", "genome", "return", "catalog",
         "related"}
      BY <2>5 DEF Release, Idle
    <3> QED BY <1>2, <3>1 DEF Working
  <2>6. CASE Reconcile(p)
    BY <2>6, <2>a DEF Reconcile, Working
  <2>7. CASE PromoteFirst(p)
    BY <2>7, <2>a DEF PromoteFirst, Promote, Working
  <2>8. CASE PromoteSecond(p)
    BY <2>8, <2>a DEF PromoteSecond, Promote, Working
  <2>9. CASE WriteHead(p)
    BY <2>9, <2>a DEF WriteHead, Working
  <2>10. CASE Unpoint(p)
    BY <2>10, <2>a DEF Unpoint, Working
  <2>11. CASE Discard(p)
    BY <2>11, <2>a DEF Discard, Working
  <2>12. CASE Check(p)
    BY <2>12, <2>a DEF Check, Working
  <2>13. CASE WriteEvidence(p)
    BY <2>13, <2>a DEF WriteEvidence, Working
  <2>14. CASE PromoteDocuments(p)
    BY <2>14, <2>a DEF PromoteDocuments, Working
  <2>15. CASE Begin(p)
    BY <2>15, <2>a DEF Begin, Working
  <2>16. CASE StageGenome(p)
    BY <2>16, <2>a DEF StageGenome, Stage, Working
  <2>17. CASE StageCatalog(p)
    BY <2>17, <2>a DEF StageCatalog, Stage, Working
  <2>18. CASE StageManifest(p)
    BY <2>18, <2>a DEF StageManifest, Stage, Working
  <2>19. CASE Publish(p)
    BY <2>19, <2>a DEF Publish, Working
  <2>20. CASE Abort(p)
    BY <2>20, <2>a DEF Abort, Working
  <2>21. CASE Peek(p)
    <3>1. req'[p].pc \in {"idle", "lock", "unlink", "genome", "return", "catalog",
         "related"}
      BY <2>21 DEF Peek, Idle
    <3> QED BY <1>2, <3>1 DEF Working
  <2>22. CASE ReadGenome(p)
    <3>1. req'[p].pc \in {"idle", "lock", "unlink", "genome", "return", "catalog",
         "related"}
      BY <2>22 DEF ReadGenome, Idle, Asked
    <3> QED BY <1>2, <3>1 DEF Working
  <2>23. CASE ReadCatalog(p)
    <3>1. req'[p].pc \in {"idle", "lock", "unlink", "genome", "return", "catalog",
         "related"}
      BY <2>23 DEF ReadCatalog, Idle, Asked
    <3> QED BY <1>2, <3>1 DEF Working
  <2>24. CASE Related(p)
    <3>1. req'[p].pc \in {"idle", "lock", "unlink", "genome", "return", "catalog",
         "related"}
      BY <2>24 DEF Related, Idle
    <3> QED BY <1>2, <3>1 DEF Working
  <2>25. CASE Return(p)
    <3>1. lock' = lock /\ (lock.by # p => req'[p].pc \in {"lock", "idle"})
      BY <2>25 DEF Return, Idle
    <3> QED BY <1>2, <3>1 DEF Working
  <2>26. CASE FindStale(p)
    <3>1. req'[p].pc \in {"idle", "lock", "unlink", "genome", "return", "catalog",
         "related"}
      BY <2>26 DEF FindStale, Idle
    <3> QED BY <1>2, <3>1 DEF Working
  <2>27. CASE Die(p)
    <3>1. req'[p].pc \in {"idle", "lock", "unlink", "genome", "return", "catalog",
         "related"}
      BY <2>27 DEF Die, Idle
    <3> QED BY <1>2, <3>1 DEF Working
  <2>28. ASSUME NEW op, NEW c, Ask(p, op, c) PROVE FALSE
    <3>1. req'[p].pc \in {"peek", "lock"}
      BY <2>28 DEF Ask, Idle
    <3> QED BY <1>2, <3>1 DEF Working
  <2> QED BY <1>2, <2>1, <2>2, <2>3, <2>4, <2>5, <2>6, <2>7, <2>8, <2>9,
     <2>10, <2>11, <2>12, <2>13, <2>14, <2>15, <2>16, <2>17, <2>18, <2>19,
     <2>20, <2>21, <2>22, <2>23, <2>24, <2>25, <2>26, <2>27, <2>28 DEF Step,
     Request
<1>3. CASE Revert
  BY <1>3 DEF Revert, OneOwner
<1> QED BY <1>1, <1>2, <1>3 DEF Next, OneOwner

-----------------------------------------------------------------------------
(* Types.                                                                     *)

(* The steps that change the lock.                                            *)
LEMMA LockStep ==
  ASSUME Next
  PROVE  \/ UNCHANGED lock
         \/ \E p \in Procs : Link(p) \/ UnlinkTemporary(p) \/ UnlinkStale(p) \/ Release(p) \/ Die(p)
BY DEF Next, Request, Step, Revert, Ask, Busy, Reconcile, PromoteFirst, PromoteSecond,
     WriteHead, Unpoint, Discard, Check, WriteEvidence, PromoteDocuments, Begin,
          StageGenome, StageCatalog, StageManifest, Publish, Abort, Peek, ReadGenome,
               ReadCatalog, Related, Return, FindStale, Promote, Stage

(* Types: the lock,                                                           *)
LEMMA LockTyped ==
  ASSUME lock \in [by : Procs \cup {Free, Dead}, linked : BOOLEAN], Next
  PROVE  lock' \in [by : Procs \cup {Free, Dead}, linked : BOOLEAN]
<1>1. [by |-> Free, linked |-> FALSE] \in [by : Procs \cup {Free, Dead}, linked : BOOLEAN]
  OBVIOUS
<1>2. ASSUME NEW p \in Procs, Link(p)
      PROVE  lock' \in [by : Procs \cup {Free, Dead}, linked : BOOLEAN]
  BY <1>1, <1>2 DEF Link
<1>3. ASSUME NEW p \in Procs, UnlinkTemporary(p)
      PROVE  lock' \in [by : Procs \cup {Free, Dead}, linked : BOOLEAN]
  BY <1>1, <1>3 DEF UnlinkTemporary
<1>4. ASSUME NEW p \in Procs, UnlinkStale(p)
      PROVE  lock' \in [by : Procs \cup {Free, Dead}, linked : BOOLEAN]
  BY <1>1, <1>4 DEF UnlinkStale
<1>5. ASSUME NEW p \in Procs, Release(p)
      PROVE  lock' \in [by : Procs \cup {Free, Dead}, linked : BOOLEAN]
  BY <1>1, <1>5 DEF Release
<1>6. ASSUME NEW p \in Procs, Die(p)
      PROVE  lock' \in [by : Procs \cup {Free, Dead}, linked : BOOLEAN]
  BY <1>1, <1>6 DEF Die
<1>7. CASE UNCHANGED lock
  BY <1>7
<1> QED BY <1>2, <1>3, <1>4, <1>5, <1>6, <1>7, LockStep

(* the steps that change the staging directory,                               *)
LEMMA StagedStep ==
  ASSUME Next
  PROVE  \/ UNCHANGED staged
         \/ \E p \in Procs : \/ StageGenome(p) \/ StageCatalog(p) \/ StageManifest(p)
                             \/ Discard(p) \/ Abort(p) \/ Die(p) \/ Begin(p)
BY DEF Next, Request, Step, Revert, Ask, files, Link, UnlinkTemporary, Busy, UnlinkStale,
     Release, Reconcile, PromoteFirst, PromoteSecond, WriteHead, Unpoint, Check,
          WriteEvidence, PromoteDocuments, Publish, Peek, ReadGenome, ReadCatalog,
               Related, Return, FindStale, Promote

(* the staging directory,                                                     *)
LEMMA StagedTyped ==
  ASSUME Typed, Next
  PROVE  staged' \in StagedType
<1>0. staged \in StagedType
  BY DEF Typed, TypeOK, StagedType
<1>1. ASSUME NEW p \in Procs, StageGenome(p) \/ StageCatalog(p) \/ StageManifest(p)
      PROVE  staged' \in StagedType
  <2>1. req[p].claim \in Transactions /\ catalog \in Catalogs
    BY DEF Typed, TypeOK, Asked
  <2>2. CASE StageGenome(p)
    BY <1>0, <2>1, <2>2, StageTyped DEF StageGenome, Parts
  <2>3. CASE StageCatalog(p)
    BY <1>0, <2>1, <2>3, StageTyped DEF StageCatalog, Parts
  <2>4. CASE StageManifest(p)
    BY <1>0, <2>1, <2>4, StageTyped DEF StageManifest, Parts
  <2> QED BY <1>1, <2>2, <2>3, <2>4
<1>2. ASSUME NEW p \in Procs, Discard(p) PROVE staged' \in StagedType
  BY <1>0, <1>2, RemovalTyped DEF Discard
<1>3. ASSUME NEW p \in Procs, Abort(p) PROVE staged' \in StagedType
  BY <1>0, <1>3, RemovalTyped DEF Abort
<1>4. ASSUME NEW p \in Procs, Die(p) PROVE staged' \in StagedType
  BY <1>0, <1>4, DieTyped
<1>5. ASSUME NEW p \in Procs, Begin(p) PROVE staged' \in StagedType
  <2>1. [Empty EXCEPT !.dir = TRUE] \in StagedType
    BY DEF Empty, StagedType, Transactions, Catalogs
  <2> QED BY <1>0, <1>5, <2>1 DEF Begin
<1>6. CASE UNCHANGED staged
  BY <1>0, <1>6
<1> QED BY <1>1, <1>2, <1>3, <1>4, <1>5, <1>6, StagedStep

\* The part of TypeOK about the documents and records.
DocumentsSound ==
  /\ genome \in Claims \cup {"none", "draft"}
  /\ catalog \in Catalogs
  /\ {pointer, head} \subseteq Transactions

(* the documents and the records,                                             *)
LEMMA DocumentsTyped ==
  ASSUME Typed, OneOwner, Fresh, Backed, WholeTransaction, PendingIsWhole, Progress, Next
  PROVE  DocumentsSound'
<1>. USE GenomeAssumption DEF DocumentsSound, At, Typed, TypeOK, Goes, Fails, Progress,
     WholeTransaction, Completes
<1>1. ASSUME NEW p \in Procs, PromoteFirst(p) PROVE DocumentsSound'
  <2>1. catalog' \in {catalog, NewCatalog} /\ UNCHANGED <<genome, pointer, head>>
    BY <1>1 DEF PromoteFirst, Promote, Order
  <2>2. NewCatalog \in Catalogs
    BY <1>1 DEF PromoteFirst, Promote, NewCatalog, Catalogs
  <2> QED BY <2>1, <2>2
<1>2. ASSUME NEW p \in Procs, PromoteSecond(p) PROVE DocumentsSound'
  <2>1. genome' \in {genome, staged.tx} /\ UNCHANGED <<catalog, pointer, head>>
    BY <1>2 DEF PromoteSecond, Promote, Order
  <2>2. staged.tx \in Claims
    BY <1>2 DEF PromoteSecond, Promote
  <2> QED BY <2>1, <2>2
<1>3. ASSUME NEW p \in Procs, WriteHead(p) PROVE DocumentsSound'
  BY <1>3 DEF WriteHead
<1>4. ASSUME NEW p \in Procs, Unpoint(p) PROVE DocumentsSound'
  BY <1>4 DEF Unpoint, Transactions
<1>5. ASSUME NEW p \in Procs, Discard(p) PROVE DocumentsSound'
  BY <1>5 DEF Discard, Removal
<1>6. ASSUME NEW p \in Procs, Check(p) PROVE DocumentsSound'
  BY <1>6 DEF Check, Catalogs
<1>7. ASSUME NEW p \in Procs, WriteEvidence(p) PROVE DocumentsSound'
  BY <1>7 DEF WriteEvidence, Catalogs
<1>8. ASSUME NEW p \in Procs, PromoteDocuments(p) PROVE DocumentsSound'
  BY <1>8 DEF PromoteDocuments, Catalogs
<1>9. ASSUME NEW p \in Procs, Begin(p) PROVE DocumentsSound'
  BY <1>9 DEF Begin
<1>10. ASSUME NEW p \in Procs, StageGenome(p) PROVE DocumentsSound'
  BY <1>10 DEF StageGenome, Stage
<1>11. ASSUME NEW p \in Procs, StageCatalog(p) PROVE DocumentsSound'
  BY <1>11 DEF StageCatalog, Stage
<1>12. ASSUME NEW p \in Procs, StageManifest(p) PROVE DocumentsSound'
  BY <1>12 DEF StageManifest, Stage
<1>13. ASSUME NEW p \in Procs, Publish(p) PROVE DocumentsSound'
  BY <1>13 DEF Publish
<1>14. ASSUME NEW p \in Procs, Abort(p) PROVE DocumentsSound'
  BY <1>14 DEF Abort, Removal
<1>15. ASSUME NEW p \in Procs, Die(p) PROVE DocumentsSound'
  BY <1>15 DEF Die
<1>16. CASE Revert
  BY <1>16 DEF Revert
<1>17. CASE UNCHANGED <<files, torn, edits>>
  BY <1>17 DEF files
<1> QED BY <1>1, <1>2, <1>3, <1>4, <1>5, <1>6, <1>7, <1>8, <1>9, <1>10, <1>11, <1>12,
     <1>13, <1>14, <1>15, <1>16, <1>17, FilesStep

\* The part of Typed about one request.
RequestSound(p) ==
  /\ req[p].pc # "idle" => req[p].op # "none"
  /\ req[p].op = "approve" => req[p].claim \in Claims
  /\ req[p].pc \in Approving => req[p].claim \in Claims

(* the requests,                                                              *)
LEMMA RequestTyped ==
  ASSUME Typed, NEW p \in Procs, Request(p) \/ Step(p) \/ FindStale(p) \/ Die(p)
  PROVE  req' \in [Procs -> Asked]
<1>0. req \in [Procs -> Asked] /\ Idle \in Asked
  BY DEF Typed, Idle, Asked, Steps, Transactions, Catalogs
<1>1. ASSUME Link(p) PROVE req' \in [Procs -> Asked]
  <2>1. {"linked"} \subseteq Steps
    BY DEF Steps, Working
  <2> QED BY <1>0, <1>1, <2>1, MovedTyped DEF Link
<1>2. ASSUME UnlinkTemporary(p) PROVE req' \in [Procs -> Asked]
  <2>1. {"reconcile"} \subseteq Steps
    BY DEF Steps, Working
  <2> QED BY <1>0, <1>2, <2>1, MovedTyped DEF UnlinkTemporary
<1>3. ASSUME Busy(p) PROVE req' \in [Procs -> Asked]
  BY <1>0, <1>3 DEF Busy
<1>4. ASSUME UnlinkStale(p) PROVE req' \in [Procs -> Asked]
  <2>1. {"lock"} \subseteq Steps
    BY DEF Steps, Working
  <2> QED BY <1>0, <1>4, <2>1, MovedTyped DEF UnlinkStale
<1>5. ASSUME Release(p) PROVE req' \in [Procs -> Asked]
  BY <1>0, <1>5 DEF Release
<1>6. ASSUME Reconcile(p) PROVE req' \in [Procs -> Asked]
  <2>1. Proceed(p) \in Steps
    BY <1>6, ProceedTyped DEF Reconcile, At, Steps, Working
  <2>. DEFINE next == CASE Plan = "nothing" -> Proceed(p)
                       [] Plan = "discard" -> "discard"
                       [] Plan = "cleanup" -> "unpoint"
                       [] Plan = "complete" -> "first"
                       [] Plan = "error" -> "release"
  <2>2. Plan \in {"nothing", "discard", "cleanup", "complete", "error"}
    BY DEF Plan, Verdict
  <2>3. next \in Steps
    BY <2>1, <2>2 DEF Steps, Working
  <2>4. req' = [req EXCEPT ![p].genome = genome, ![p].catalog = catalog, ![p].pc = next]
    BY <1>6 DEF Reconcile
  <2>. HIDE DEF next
  <2>5. genome \in Claims \cup {"none", "draft"} /\ catalog \in Catalogs
    BY DEF Typed, TypeOK
  <2> QED BY <1>0, <2>3, <2>4, <2>5 DEF Asked
<1>7. ASSUME PromoteFirst(p) PROVE req' \in [Procs -> Asked]
  <2>1. {"second", "release"} \subseteq Steps
    BY DEF Steps, Working
  <2> QED BY <1>0, <1>7, <2>1, MovedTyped DEF PromoteFirst, Promote, Order
<1>8. ASSUME PromoteSecond(p) PROVE req' \in [Procs -> Asked]
  <2>1. {"head", "release"} \subseteq Steps
    BY DEF Steps, Working
  <2> QED BY <1>0, <1>8, <2>1, MovedTyped DEF PromoteSecond, Promote, Order
<1>9. ASSUME WriteHead(p) PROVE req' \in [Procs -> Asked]
  <2>1. {"unpoint", "release"} \subseteq Steps
    BY DEF Steps, Working
  <2> QED BY <1>0, <1>9, <2>1, MovedTyped DEF WriteHead
<1>10. ASSUME Unpoint(p) PROVE req' \in [Procs -> Asked]
  <2>1. {"discard"} \subseteq Steps
    BY DEF Steps, Working
  <2> QED BY <1>0, <1>10, <2>1, MovedTyped DEF Unpoint
<1>11. ASSUME Discard(p) PROVE req' \in [Procs -> Asked]
  <2>1. Proceed(p) \in Steps
    BY <1>11, ProceedTyped DEF Discard, At, Steps, Working
  <2>2. "release" \in Steps
    BY DEF Steps, Working
  <2> QED BY <1>0, <1>11, <2>1, <2>2, MovedTyped DEF Discard, Removal
<1>12. ASSUME Check(p) PROVE req' \in [Procs -> Asked]
  <2>1. {"release", "evidence"} \subseteq Steps
    BY DEF Steps, Working
  <2> QED BY <1>0, <1>12, <2>1, MovedTyped DEF Check
<1>13. ASSUME WriteEvidence(p) PROVE req' \in [Procs -> Asked]
  <2>1. {"documents", "release"} \subseteq Steps
    BY DEF Steps, Working
  <2> QED BY <1>0, <1>13, <2>1, MovedTyped DEF WriteEvidence
<1>14. ASSUME PromoteDocuments(p) PROVE req' \in [Procs -> Asked]
  <2>1. {"release"} \subseteq Steps
    BY DEF Steps, Working
  <2> QED BY <1>0, <1>14, <2>1, MovedTyped DEF PromoteDocuments
<1>15. ASSUME Begin(p) PROVE req' \in [Procs -> Asked]
  <2>1. {"stage genome", "release"} \subseteq Steps
    BY DEF Steps, Working
  <2> QED BY <1>0, <1>15, <2>1, MovedTyped DEF Begin
<1>16. ASSUME StageGenome(p) PROVE req' \in [Procs -> Asked]
  <2>1. {"stage catalog", "abort"} \subseteq Steps
    BY DEF Steps, Working
  <2> QED BY <1>0, <1>16, <2>1, MovedTyped DEF StageGenome, Stage
<1>17. ASSUME StageCatalog(p) PROVE req' \in [Procs -> Asked]
  <2>1. {"stage manifest", "abort"} \subseteq Steps
    BY DEF Steps, Working
  <2> QED BY <1>0, <1>17, <2>1, MovedTyped DEF StageCatalog, Stage
<1>18. ASSUME StageManifest(p) PROVE req' \in [Procs -> Asked]
  <2>1. {"publish", "abort"} \subseteq Steps
    BY DEF Steps, Working
  <2> QED BY <1>0, <1>18, <2>1, MovedTyped DEF StageManifest, Stage
<1>19. ASSUME Publish(p) PROVE req' \in [Procs -> Asked]
  <2>1. {"reconcile", "abort", "return", "catalog", "related"} \subseteq Steps
    BY DEF Steps, Working
  <2>2. genome \in Claims \cup {"none", "draft"} /\ catalog \in Catalogs
    BY DEF Typed, TypeOK
  <2>3. [req[p] EXCEPT !.pc = "reconcile", !.again = TRUE] \in Asked
    <3>1. [req[p] EXCEPT !.pc = "reconcile"] \in Asked
      BY <1>0, <2>1 DEF Asked
    <3>2. \A r \in Asked : [r EXCEPT !.again = TRUE] \in Asked
      BY DEF Asked
    <3> QED BY <3>1, <3>2
  <2>4. CASE Fails(p, "abort")
    BY <1>0, <2>1, <2>4, MovedTyped
  <2>5. CASE req' = [req EXCEPT ![p].pc = "reconcile", ![p].again = TRUE]
    <3>1. req' = [req EXCEPT ![p] = req'[p]] /\ req'[p] = [req[p] EXCEPT !.pc = "reconcile", !.again = TRUE]
      BY <1>0, <2>5
    <3> QED BY <1>0, <2>3, <3>1
  <2> QED BY <1>19, <2>4, <2>5 DEF Publish
<1>20. ASSUME Abort(p) PROVE req' \in [Procs -> Asked]
  <2>1. {"release"} \subseteq Steps
    BY DEF Steps, Working
  <2> QED BY <1>0, <1>20, <2>1, MovedTyped DEF Abort, Removal
<1>21. ASSUME Peek(p) PROVE req' \in [Procs -> Asked]
  <2>1. {"lock", "genome"} \subseteq Steps
    BY DEF Steps, Working
  <2> QED BY <1>0, <1>21, <2>1, MovedTyped DEF Peek
<1>22. ASSUME ReadGenome(p) PROVE req' \in [Procs -> Asked]
  <2>1. {"reconcile", "abort", "return", "catalog", "related"} \subseteq Steps
    BY DEF Steps, Working
  <2>2. genome \in Claims \cup {"none", "draft"} /\ catalog \in Catalogs
    BY DEF Typed, TypeOK
  <2> QED BY <1>0, <1>22, <2>1, <2>2, MovedTyped DEF ReadGenome, Asked
<1>23. ASSUME ReadCatalog(p) PROVE req' \in [Procs -> Asked]
  <2>1. {"reconcile", "abort", "return", "catalog", "related"} \subseteq Steps
    BY DEF Steps, Working
  <2>2. genome \in Claims \cup {"none", "draft"} /\ catalog \in Catalogs
    BY DEF Typed, TypeOK
  <2> QED BY <1>0, <1>23, <2>1, <2>2, MovedTyped DEF ReadCatalog, Asked
<1>24. ASSUME Related(p) PROVE req' \in [Procs -> Asked]
  <2>1. {"return"} \subseteq Steps
    BY DEF Steps, Working
  <2> QED BY <1>0, <1>24, <2>1, MovedTyped DEF Related
<1>25. ASSUME Return(p) PROVE req' \in [Procs -> Asked]
  <2>1. {"release", "lock"} \subseteq Steps
    BY DEF Steps, Working
  <2>2. Goes(p, "release") \/ Goes(p, "lock") \/ req' = [req EXCEPT ![p] = Idle]
    BY <1>25 DEF Return
  <2> QED BY <1>0, <2>1, <2>2, MovedTyped
<1>26. ASSUME FindStale(p) PROVE req' \in [Procs -> Asked]
  <2>1. {"unlink"} \subseteq Steps
    BY DEF Steps, Working
  <2> QED BY <1>0, <1>26, <2>1, MovedTyped DEF FindStale
<1>27. ASSUME Die(p) PROVE req' \in [Procs -> Asked]
  BY <1>0, <1>27 DEF Die
<1>28. ASSUME NEW op \in {"init", "read", "approve"}, NEW c \in Transactions, Ask(p, op,
             c)
      PROVE  req' \in [Procs -> Asked]
  <2>1. [Idle EXCEPT !.op = op, !.claim = c,
       !.pc = IF op = "read" THEN "peek" ELSE "lock"] \in Asked
    BY <1>0 DEF Idle, Asked, Steps, Working
  <2> QED BY <1>0, <1>28, <2>1 DEF Ask
<1> QED BY <1>1, <1>2, <1>3, <1>4, <1>5, <1>6, <1>7, <1>8, <1>9, <1>10, <1>11,
     <1>12, <1>13, <1>14, <1>15, <1>16, <1>17, <1>18, <1>19, <1>20, <1>21,
     <1>22, <1>23, <1>24, <1>25, <1>26, <1>27, <1>28 DEF Step, Request,
     Transactions

(* with their operation and rule,                                             *)
LEMMA RequestSoundStep ==
  ASSUME Typed, NEW p \in Procs, Request(p) \/ Step(p) \/ FindStale(p) \/ Die(p)
  PROVE  RequestSound(p)'
<1>. DEFINE Kept(next) == req'[p].pc = next /\ req'[p].op = req[p].op /\ req'[p].claim = req[p].claim
<1>0. req \in [Procs -> Asked]
  BY DEF Typed
<1>a. ASSUME NEW next, Kept(next), req[p].pc # "idle",
             next \in Approving => req[p].pc \in Approving \/ req[p].op = "approve"
      PROVE  RequestSound(p)'
  BY <1>a DEF RequestSound, Typed
<1>b. req'[p] = Idle => RequestSound(p)'
  BY DEF Idle, RequestSound, Approving, Staging
<1>c. ASSUME NEW next, Goes(p, next) \/ Fails(p, next) PROVE Kept(next)
  BY <1>0, <1>c, Moved
<1>. HIDE DEF Kept
<1>1. ASSUME Link(p) PROVE RequestSound(p)'
  <2>1. Kept("linked")
    BY <1>c, <1>1 DEF Link
  <2> QED BY <1>a, <1>1, <2>1 DEF Link, At, Approving, Staging
<1>2. ASSUME UnlinkTemporary(p) PROVE RequestSound(p)'
  <2>1. Kept("reconcile")
    BY <1>c, <1>2 DEF UnlinkTemporary
  <2> QED BY <1>a, <1>2, <2>1 DEF UnlinkTemporary, At, Approving, Staging
<1>3. ASSUME Busy(p) PROVE RequestSound(p)'
  <2>1. req'[p] = Idle
    BY <1>0, <1>3 DEF Busy
  <2> QED BY <1>b, <2>1
<1>4. ASSUME UnlinkStale(p) PROVE RequestSound(p)'
  <2>1. Kept("lock")
    BY <1>c, <1>4 DEF UnlinkStale
  <2> QED BY <1>a, <1>4, <2>1 DEF UnlinkStale, At, Approving, Staging
<1>5. ASSUME Release(p) PROVE RequestSound(p)'
  <2>1. req'[p] = Idle
    BY <1>0, <1>5 DEF Release
  <2> QED BY <1>b, <2>1
<1>6. ASSUME Reconcile(p) PROVE RequestSound(p)'
  <2>1. Kept(CASE Plan = "nothing" -> Proceed(p)
               [] Plan = "discard" -> "discard"
               [] Plan = "cleanup" -> "unpoint"
               [] Plan = "complete" -> "first"
               [] Plan = "error" -> "release")
    BY <1>0, <1>6 DEF Reconcile, Asked, Kept
  <2>2. Plan \in {"nothing", "discard", "cleanup", "complete", "error"}
    BY DEF Plan, Verdict
  <2>3. \E next \in {Proceed(p), "discard", "unpoint", "first", "release"} : Kept(next)
    BY <2>1, <2>2
  <2> QED BY <1>a, <1>6, <2>3, ProceedTyped DEF Reconcile, At, Approving, Staging
<1>7. ASSUME PromoteFirst(p) PROVE RequestSound(p)'
  <2>1. Kept("second") \/ Kept("release")
    BY <1>c, <1>7 DEF PromoteFirst, Promote
  <2> QED BY <1>a, <1>7, <2>1 DEF PromoteFirst, Promote, At, Approving, Staging
<1>8. ASSUME PromoteSecond(p) PROVE RequestSound(p)'
  <2>1. Kept("head") \/ Kept("release")
    BY <1>c, <1>8 DEF PromoteSecond, Promote
  <2> QED BY <1>a, <1>8, <2>1 DEF PromoteSecond, Promote, At, Approving, Staging
<1>9. ASSUME WriteHead(p) PROVE RequestSound(p)'
  <2>1. Kept("unpoint") \/ Kept("release")
    BY <1>c, <1>9 DEF WriteHead
  <2> QED BY <1>a, <1>9, <2>1 DEF WriteHead, At, Approving, Staging
<1>10. ASSUME Unpoint(p) PROVE RequestSound(p)'
  <2>1. Kept("discard")
    BY <1>c, <1>10 DEF Unpoint
  <2> QED BY <1>a, <1>10, <2>1 DEF Unpoint, At, Approving, Staging
<1>11. ASSUME Discard(p) PROVE RequestSound(p)'
  <2>1. Kept(Proceed(p)) \/ Kept("release")
    BY <1>c, <1>11 DEF Discard, Removal
  <2> QED BY <1>a, <1>11, <2>1, ProceedTyped DEF Discard, At, Approving, Staging
<1>12. ASSUME Check(p) PROVE RequestSound(p)'
  <2>1. Kept("release") \/ Kept("evidence")
    BY <1>c, <1>12 DEF Check
  <2> QED BY <1>a, <1>12, <2>1 DEF Check, At, Approving, Staging
<1>13. ASSUME WriteEvidence(p) PROVE RequestSound(p)'
  <2>1. Kept("documents") \/ Kept("release")
    BY <1>c, <1>13 DEF WriteEvidence
  <2> QED BY <1>a, <1>13, <2>1 DEF WriteEvidence, At, Approving, Staging
<1>14. ASSUME PromoteDocuments(p) PROVE RequestSound(p)'
  <2>1. Kept("release")
    BY <1>c, <1>14 DEF PromoteDocuments
  <2> QED BY <1>a, <1>14, <2>1 DEF PromoteDocuments, At, Approving, Staging
<1>15. ASSUME Begin(p) PROVE RequestSound(p)'
  <2>1. Kept("stage genome") \/ Kept("release")
    BY <1>c, <1>15 DEF Begin
  <2> QED BY <1>a, <1>15, <2>1 DEF Begin, At, Approving, Staging
<1>16. ASSUME StageGenome(p) PROVE RequestSound(p)'
  <2>1. Kept("stage catalog") \/ Kept("abort")
    BY <1>c, <1>16 DEF StageGenome, Stage
  <2> QED BY <1>a, <1>16, <2>1 DEF StageGenome, Stage, At, Approving, Staging
<1>17. ASSUME StageCatalog(p) PROVE RequestSound(p)'
  <2>1. Kept("stage manifest") \/ Kept("abort")
    BY <1>c, <1>17 DEF StageCatalog, Stage
  <2> QED BY <1>a, <1>17, <2>1 DEF StageCatalog, Stage, At, Approving, Staging
<1>18. ASSUME StageManifest(p) PROVE RequestSound(p)'
  <2>1. Kept("publish") \/ Kept("abort")
    BY <1>c, <1>18 DEF StageManifest, Stage
  <2> QED BY <1>a, <1>18, <2>1 DEF StageManifest, Stage, At, Approving, Staging
<1>19. ASSUME Publish(p) PROVE RequestSound(p)'
  <2>1. \E next \in {"reconcile", "abort", "return", "catalog", "related"} :
          Kept(next) /\ (next = "abort" => req[p].pc = "publish")
    BY <1>0, <1>c, <1>19 DEF Publish, Asked, Kept, At
  <2> QED BY <1>a, <1>19, <2>1 DEF Publish, At, Approving, Staging
<1>20. ASSUME Abort(p) PROVE RequestSound(p)'
  <2>1. Kept("release")
    BY <1>c, <1>20 DEF Abort, Removal
  <2> QED BY <1>a, <1>20, <2>1 DEF Abort, At, Approving, Staging
<1>21. ASSUME Peek(p) PROVE RequestSound(p)'
  <2>1. Kept("lock") \/ Kept("genome")
    BY <1>c, <1>21 DEF Peek
  <2> QED BY <1>a, <1>21, <2>1 DEF Peek, At, Approving, Staging
<1>22. ASSUME ReadGenome(p) PROVE RequestSound(p)'
  <2>1. \E next \in {"reconcile", "abort", "return", "catalog", "related"} :
          Kept(next) /\ (next = "abort" => req[p].pc = "publish")
    BY <1>0, <1>c, <1>22 DEF ReadGenome, Asked, Kept, At
  <2> QED BY <1>a, <1>22, <2>1 DEF ReadGenome, At, Approving, Staging
<1>23. ASSUME ReadCatalog(p) PROVE RequestSound(p)'
  <2>1. \E next \in {"reconcile", "abort", "return", "catalog", "related"} :
          Kept(next) /\ (next = "abort" => req[p].pc = "publish")
    BY <1>0, <1>c, <1>23 DEF ReadCatalog, Asked, Kept, At
  <2> QED BY <1>a, <1>23, <2>1 DEF ReadCatalog, At, Approving, Staging
<1>24. ASSUME Related(p) PROVE RequestSound(p)'
  <2>1. Kept("return")
    BY <1>c, <1>24 DEF Related
  <2> QED BY <1>a, <1>24, <2>1 DEF Related, At, Approving, Staging
<1>25. ASSUME Return(p) PROVE RequestSound(p)'
  <2>1. req'[p] = Idle \/ Kept("release") \/ Kept("lock")
    BY <1>0, <1>c, <1>25 DEF Return
  <2> QED BY <1>a, <1>b, <1>25, <2>1 DEF Return, At, Approving, Staging
<1>26. ASSUME FindStale(p) PROVE RequestSound(p)'
  <2>1. Kept("unlink")
    BY <1>c, <1>26 DEF FindStale
  <2> QED BY <1>a, <1>26, <2>1 DEF FindStale, At, Approving, Staging
<1>27. ASSUME Die(p) PROVE RequestSound(p)'
  <2>1. req'[p] = Idle
    BY <1>0, <1>27 DEF Die
  <2> QED BY <1>b, <2>1
<1>28. ASSUME NEW op \in {"init", "read", "approve"}, NEW c \in Transactions,
             op = "approve" => c \in Claims, Ask(p, op, c)
      PROVE  RequestSound(p)'
  <2>1. req'[p].op = op /\ req'[p].claim = c /\ req'[p].pc \in {"peek", "lock"}
    BY <1>0, <1>28 DEF Ask, Idle
  <2> QED BY <1>28, <2>1 DEF RequestSound, Approving, Staging
<1> QED BY <1>1, <1>2, <1>3, <1>4, <1>5, <1>6, <1>7, <1>8, <1>9, <1>10, <1>11,
     <1>12, <1>13, <1>14, <1>15, <1>16, <1>17, <1>18, <1>19, <1>20, <1>21,
     <1>22, <1>23, <1>24, <1>25, <1>26, <1>27, <1>28 DEF Step, Request,
     Transactions

(* the counters,                                                              *)
LEMMA CountersTyped ==
  ASSUME torn \in BOOLEAN, faults \in Nat, edits \in Nat, Next
  PROVE  torn' \in BOOLEAN /\ faults' \in Nat /\ edits' \in Nat
<1>. DEFINE Counted == /\ torn' = torn \/ torn' = TRUE
                       /\ faults' = faults \/ faults' = faults + 1
                       /\ edits' = edits \/ edits' = edits + 1
<1>. USE DEF Goes, Fails
<1>1. ASSUME NEW p \in Procs, Link(p) PROVE Counted
  BY <1>1 DEF Link
<1>2. ASSUME NEW p \in Procs, UnlinkTemporary(p) PROVE Counted
  BY <1>2 DEF UnlinkTemporary
<1>3. ASSUME NEW p \in Procs, Busy(p) PROVE Counted
  BY <1>3 DEF Busy
<1>4. ASSUME NEW p \in Procs, UnlinkStale(p) PROVE Counted
  BY <1>4 DEF UnlinkStale
<1>5. ASSUME NEW p \in Procs, Release(p) PROVE Counted
  BY <1>5 DEF Release
<1>6. ASSUME NEW p \in Procs, Reconcile(p) PROVE Counted
  BY <1>6 DEF Reconcile
<1>7. ASSUME NEW p \in Procs, PromoteFirst(p) PROVE Counted
  BY <1>7 DEF PromoteFirst, Promote
<1>8. ASSUME NEW p \in Procs, PromoteSecond(p) PROVE Counted
  BY <1>8 DEF PromoteSecond, Promote
<1>9. ASSUME NEW p \in Procs, WriteHead(p) PROVE Counted
  BY <1>9 DEF WriteHead
<1>10. ASSUME NEW p \in Procs, Unpoint(p) PROVE Counted
  BY <1>10 DEF Unpoint
<1>11. ASSUME NEW p \in Procs, Discard(p) PROVE Counted
  BY <1>11 DEF Discard, Removal
<1>12. ASSUME NEW p \in Procs, Check(p) PROVE Counted
  BY <1>12 DEF Check
<1>13. ASSUME NEW p \in Procs, WriteEvidence(p) PROVE Counted
  BY <1>13 DEF WriteEvidence
<1>14. ASSUME NEW p \in Procs, PromoteDocuments(p) PROVE Counted
  BY <1>14 DEF PromoteDocuments
<1>15. ASSUME NEW p \in Procs, Begin(p) PROVE Counted
  BY <1>15 DEF Begin
<1>16. ASSUME NEW p \in Procs, StageGenome(p) PROVE Counted
  BY <1>16 DEF StageGenome, Stage
<1>17. ASSUME NEW p \in Procs, StageCatalog(p) PROVE Counted
  BY <1>17 DEF StageCatalog, Stage
<1>18. ASSUME NEW p \in Procs, StageManifest(p) PROVE Counted
  BY <1>18 DEF StageManifest, Stage
<1>19. ASSUME NEW p \in Procs, Publish(p) PROVE Counted
  BY <1>19 DEF Publish
<1>20. ASSUME NEW p \in Procs, Abort(p) PROVE Counted
  BY <1>20 DEF Abort, Removal
<1>21. ASSUME NEW p \in Procs, Peek(p) PROVE Counted
  BY <1>21 DEF Peek
<1>22. ASSUME NEW p \in Procs, ReadGenome(p) PROVE Counted
  BY <1>22 DEF ReadGenome
<1>23. ASSUME NEW p \in Procs, ReadCatalog(p) PROVE Counted
  BY <1>23 DEF ReadCatalog
<1>24. ASSUME NEW p \in Procs, Related(p) PROVE Counted
  BY <1>24 DEF Related
<1>25. ASSUME NEW p \in Procs, Return(p) PROVE Counted
  BY <1>25 DEF Return
<1>26. ASSUME NEW p \in Procs, FindStale(p) PROVE Counted
  BY <1>26 DEF FindStale
<1>27. ASSUME NEW p \in Procs, Die(p) PROVE Counted
  BY <1>27 DEF Die
<1>28. ASSUME NEW p, NEW op, NEW c, Ask(p, op, c) PROVE Counted
  BY <1>28 DEF Ask
<1>29. ASSUME Revert PROVE Counted
  BY <1>29 DEF Revert
<1>. HIDE DEF Counted, Goes, Fails
<1>30. ASSUME NEW p \in Procs, Step(p) PROVE Counted
  BY <1>30, <1>1, <1>2, <1>3, <1>4, <1>5, <1>6, <1>7, <1>8, <1>9, <1>10,
     <1>11, <1>12, <1>13, <1>14, <1>15, <1>16, <1>17, <1>18, <1>19, <1>20,
     <1>21, <1>22, <1>23, <1>24, <1>25 DEF Step
<1>31. ASSUME NEW p \in Procs, Request(p) PROVE Counted
  BY <1>28, <1>31 DEF Request
<1>32. Counted
  <2>1. ASSUME NEW p \in Procs, Request(p) \/ Step(p) \/ FindStale(p) \/ Die(p)
        PROVE  Counted
    <3>1. CASE Request(p)
      BY <1>31, <3>1
    <3>2. CASE Step(p)
      BY <1>30, <3>2
    <3>3. CASE FindStale(p)
      BY <1>26, <3>3
    <3>4. CASE Die(p)
      BY <1>27, <3>4
    <3> QED BY <2>1, <3>1, <3>2, <3>3, <3>4
  <2>2. CASE Revert
    BY <1>29, <2>2
  <2> QED BY <2>1, <2>2 DEF Next
<1>33. torn' \in BOOLEAN
  BY <1>32 DEF Counted
<1>34. faults' \in Nat /\ edits' \in Nat
  BY <1>32 DEF Counted
<1> QED BY <1>33, <1>34

(* and all of them.                                                           *)
LEMMA TypedStep ==
  ASSUME Typed, OneOwner, Fresh, Backed, WholeTransaction, PendingIsWhole, Progress, Next
  PROVE  Typed'
<1>1. TypeOK'
  BY LockTyped, DocumentsTyped, StagedTyped DEF DocumentsSound, Typed, TypeOK, StagedType
<1>2. req' \in [Procs -> Asked]
  BY RequestTyped DEF Next, Revert, Typed
<1>3. torn' \in BOOLEAN /\ faults' \in Nat /\ edits' \in Nat
  BY CountersTyped DEF Typed
<1>4. ASSUME NEW q \in Procs PROVE RequestSound(q)'
  <2>0. RequestSound(q)
    BY DEF Typed, RequestSound
  <2>1. CASE Revert
    BY <2>0, <2>1 DEF Revert, RequestSound
  <2>2. ASSUME NEW p \in Procs, Request(p) \/ Step(p) \/ FindStale(p) \/ Die(p)
        PROVE  RequestSound(q)'
    <3>1. CASE q = p
      BY <2>2, <3>1, RequestSoundStep
    <3>2. CASE q # p
      <4>1. req'[q] = req[q]
        BY <2>2, <3>2, OthersWait DEF Typed
      <4> QED BY <2>0, <4>1 DEF RequestSound
    <3> QED BY <3>1, <3>2
  <2> QED BY <2>1, <2>2 DEF Next
<1> QED BY <1>1, <1>2, <1>3, <1>4 DEF Typed, RequestSound

-----------------------------------------------------------------------------
(* The theorems, under prompt removal of stale locks.                         *)

(* Nothing is asked, staged or approved at first.                           *)
LEMMA InitInv ==
  ASSUME Init
  PROVE  ApprovalInv
<1>. USE DEF Init
<1>1. Typed
  <2>1. TypeOK
    BY DEF TypeOK, Empty, Transactions, Catalogs
  <2>2. Idle \in Asked
    BY DEF Idle, Asked, Steps, Transactions, Catalogs
  <2>3. \A p \in Procs : req[p] = Idle
    OBVIOUS
  <2> QED BY <2>1, <2>2, <2>3 DEF Typed, Idle, Approving, Staging
<1>2. OneOwner
  BY DEF OneOwner, Working, Idle
<1>3. Fresh /\ Backed /\ WholeTransaction /\ PendingIsWhole
  BY GenomeAssumption DEF Fresh, Backed, WholeTransaction, PendingIsWhole, Empty, Parts
<1>4. Reads /\ Progress
  <2>1. \A p \in Procs : req[p].pc = "idle"
    BY DEF Idle
  <2> QED BY <2>1 DEF Reads, Progress, Initializing, Stages, Completes, Staging, At
<1> QED BY <1>1, <1>2, <1>3, <1>4 DEF ApprovalInv

Unapproved == genome' \in {genome, "draft"} \/ \E q \in Procs : PromoteSecond(q)

(* Only the second promotion makes the Genome approved.                       *)
LEMMA GenomePromoted ==
  ASSUME Next
  PROVE  Unapproved
<1>. USE GenomeAssumption DEF Unapproved, At, Goes, Fails
<1>1. ASSUME NEW p \in Procs, PromoteFirst(p) PROVE Unapproved
  BY <1>1 DEF PromoteFirst, Promote, Order
<1>2. ASSUME NEW p \in Procs, PromoteSecond(p) PROVE Unapproved
  BY <1>2
<1>3. ASSUME NEW p \in Procs, WriteHead(p) PROVE Unapproved
  BY <1>3 DEF WriteHead
<1>4. ASSUME NEW p \in Procs, Unpoint(p) PROVE Unapproved
  BY <1>4 DEF Unpoint
<1>5. ASSUME NEW p \in Procs, Discard(p) PROVE Unapproved
  BY <1>5 DEF Discard, Removal
<1>6. ASSUME NEW p \in Procs, Check(p) PROVE Unapproved
  BY <1>6 DEF Check
<1>7. ASSUME NEW p \in Procs, WriteEvidence(p) PROVE Unapproved
  BY <1>7 DEF WriteEvidence
<1>8. ASSUME NEW p \in Procs, PromoteDocuments(p) PROVE Unapproved
  BY <1>8 DEF PromoteDocuments
<1>9. ASSUME NEW p \in Procs, Begin(p) PROVE Unapproved
  BY <1>9 DEF Begin
<1>10. ASSUME NEW p \in Procs, StageGenome(p) PROVE Unapproved
  BY <1>10 DEF StageGenome, Stage
<1>11. ASSUME NEW p \in Procs, StageCatalog(p) PROVE Unapproved
  BY <1>11 DEF StageCatalog, Stage
<1>12. ASSUME NEW p \in Procs, StageManifest(p) PROVE Unapproved
  BY <1>12 DEF StageManifest, Stage
<1>13. ASSUME NEW p \in Procs, Publish(p) PROVE Unapproved
  BY <1>13 DEF Publish
<1>14. ASSUME NEW p \in Procs, Abort(p) PROVE Unapproved
  BY <1>14 DEF Abort, Removal
<1>15. ASSUME NEW p \in Procs, Die(p) PROVE Unapproved
  BY <1>15 DEF Die
<1>16. CASE Revert
  BY <1>16 DEF Revert
<1>17. CASE UNCHANGED <<files, torn, edits>>
  BY <1>17 DEF files
<1> QED BY <1>1, <1>2, <1>3, <1>4, <1>5, <1>6, <1>7, <1>8, <1>9, <1>10, <1>11, <1>12,
     <1>13, <1>14, <1>15, <1>16, <1>17, FilesStep

(* The invariant is inductive.                                              *)
THEOREM ApprovalInvariant ==
  ASSUME Prompt
  PROVE  Spec => []ApprovalInv
<1>1. Init => ApprovalInv
  BY InitInv
<1>2. ApprovalInv /\ [Next]_vars => ApprovalInv'
  <2>1. CASE ApprovalInv /\ Next
    <3>1. /\ Typed /\ OneOwner /\ Fresh /\ Backed /\ Reads
          /\ WholeTransaction /\ PendingIsWhole /\ Progress
      BY <2>1 DEF ApprovalInv
    <3>2. Typed'
      BY <2>1, <3>1, TypedStep
    <3>3. OneOwner'
      BY <2>1, <3>1, OneOwnerStep DEF Typed
    <3>4. Fresh' /\ Backed' /\ Reads'
      BY <2>1, <3>1, FreshStep, BackedStep, ReadsStep
    <3>5. WholeTransaction' /\ PendingIsWhole'
      BY <2>1, <3>1, WholeStep, PendingStep
    <3>6. Progress'
      BY <2>1, <3>1, ProgressStep
    <3> QED BY <3>2, <3>3, <3>4, <3>5, <3>6 DEF ApprovalInv
  <2>2. CASE ApprovalInv /\ UNCHANGED vars
    BY <2>2 DEF ApprovalInv, vars, files, Typed, TypeOK, OneOwner, Fresh, Backed, Reads,
         WholeTransaction,
       PendingIsWhole, Progress, Initializing, Stages, Completes, At, NewCatalog,
            Recoverable
  <2> QED BY <2>1, <2>2
<1> QED BY <1>1, <1>2, PTL DEF Spec

(* The documents, the machine files and the lock keep their types.           *)
THEOREM TypeCorrect ==
  ASSUME Prompt
  PROVE  Spec => []TypeOK
<1>1. ApprovalInv => TypeOK
  BY DEF ApprovalInv, Typed
<1> QED BY <1>1, ApprovalInvariant, PTL

(* Only the owner of the governance lock is between taking and releasing it. *)
THEOREM Exclusion ==
  ASSUME Prompt
  PROVE  Spec => []OneOwner
<1>1. ApprovalInv => OneOwner
  BY DEF ApprovalInv
<1> QED BY <1>1, ApprovalInvariant, PTL

(* An approved Genome has its evidence in the catalog, also for a reader      *)
(* without the lock that comes between the two promotions of an approval.     *)
THEOREM ApprovalsAreBacked ==
  ASSUME Prompt
  PROVE  Spec => []ApprovedIsBacked
<1>1. ApprovalInv => ApprovedIsBacked
  BY DEF ApprovalInv, Backed, Reads, ApprovedIsBacked
<1> QED BY <1>1, ApprovalInvariant, PTL

(* The next owner of the lock can complete or discard what it finds.          *)
THEOREM ReconciliationSucceeds ==
  ASSUME Prompt
  PROVE  Spec => []NeverWedged
<1>1. ApprovalInv => NeverWedged
  <2>. SUFFICES ASSUME ApprovalInv, ~torn, edits = 0 PROVE Verdict # "error"
    BY DEF NeverWedged
  <2>1. CASE Pending = None
    <3>1. Temporary \notin staged.parts
      BY DEF ApprovalInv, PendingIsWhole
    <3>2. ~(Parts \subseteq staged.parts)
      BY <2>1, GenomeAssumption DEF ApprovalInv, WholeTransaction, Pending, Parts
    <3> QED BY <2>1, <3>1, <3>2 DEF Verdict
  <2>2. CASE Pending # None
    <3>1. Parts \subseteq staged.parts /\ staged.tx = Pending
      BY <2>2 DEF ApprovalInv, PendingIsWhole, Pending
    <3>2. CASE head = Pending
      <4>1. genome = staged.tx /\ catalog = NewCatalog
        BY <3>1, <3>2 DEF ApprovalInv, WholeTransaction
      <4> QED BY <2>2, <3>1, <3>2, <4>1 DEF Verdict
    <3>3. CASE head # Pending
      <4>1. Recoverable
        BY <3>1, <3>3 DEF ApprovalInv, WholeTransaction
      <4> QED BY <2>2, <3>1, <3>3, <4>1 DEF Verdict
    <3> QED BY <3>2, <3>3
  <2> QED BY <2>1, <2>2
<1> QED BY <1>1, ApprovalInvariant, PTL

(* An approval the head records as consumed never takes effect again, also    *)
(* when the user restored the draft meanwhile.                                *)
THEOREM ConsumedOnce ==
  ASSUME Prompt
  PROVE  Spec => NeverReplayed
<1>. DEFINE Kept == \A c \in Claims : genome' = c /\ genome # c => head # c
<1>1. ApprovalInv /\ [Next]_vars => Kept
  <2>. SUFFICES ASSUME ApprovalInv, [Next]_vars, NEW c \in Claims, genome' = c, genome # c
                PROVE  head # c
    OBVIOUS
  <2>1. PICK p \in Procs : PromoteSecond(p)
    BY GenomePromoted, GenomeAssumption DEF Unapproved, vars, files, ApprovalInv
  <2>2. genome' = staged.tx /\ req[p].pc = "second"
    BY <2>1 DEF PromoteSecond, Promote, Order, At
  <2> QED BY <2>2 DEF ApprovalInv, Progress, Completes
<1> QED BY <1>1, ApprovalInvariant, PTL DEF Spec, NeverReplayed

=============================================================================
