------------------------ MODULE AuditGenerationsProofs ------------------------
(* Proofs about AuditGenerations, for any number of requests, audits, edits,   *)
(* generations kept, deaths and failing writes.                               *)
EXTENDS AuditGenerations, FiniteSetTheorems, SequenceTheorems, TLAPS

-----------------------------------------------------------------------------
(* The inductive invariant.                                                  *)

Stages == {"staged", "committed", "activated", "torn"}
Generations == [id : 1..MaxOps, documents : DocumentSets, stage : Stages]

Waiting == {"idle", "lock"}
Beginning == {"lock", "check", "repoint", "discard", "stage"}
Committing == {"commit", "pointer", "activate"}
Copying == {"copy registry", "copy report", "copy catalog"}
Working == {"check", "repoint", "discard", "stage", "release", "edit", "invalidate", "unpoint"}
             \cup Committing \cup Copying

WriterStates == [pc : Waiting \cup Working, op : {"none", "audit", "edit"},
                 id : 0..MaxOps, base : Nat]
ReaderStates == [pc : {"idle", "pointer", "invalidation", "generations", "live", "accepted"},
                 document : {"none", "report", "registry", "catalog"},
                 pointer : 0..MaxOps, invalidation : 0..MaxOps,
                 report : Reports, registry : Registries, since : Nat]

Typed ==
  /\ owner \in Writers \cup {Free}
  /\ generations \in Seq(Generations)
  /\ Len(generations) <= MaxGenerations
  /\ pointer \in 0..MaxOps /\ invalidation \in 0..MaxOps
  /\ live \in DocumentSets
  /\ writer \in [Writers -> WriterStates]
  /\ reader \in [Readers -> ReaderStates]
  /\ ops \in 0..MaxOps /\ faults \in Nat

Size == Len(generations)
\* The generation that counts, 0 if the live documents do.
Serving == Active(invalidation)
Rev(i) == generations[i].documents.registry.rev

\* Activated generations come first, and at most one other follows them.
Shape ==
  /\ Latest \in 0..Size /\ Size <= Latest + 1
  /\ \A i \in 1..Size : generations[i].stage = "activated" <=> i <= Latest
  /\ Complete = IF Size > Latest /\ generations[Size].stage = "committed" THEN Size ELSE Latest

\* Each generation is of an audit of its own.
Named ==
  /\ \A i \in 1..Size : generations[i].id <= ops
  /\ \A i, j \in 1..Size : generations[i].id = generations[j].id => i = j
  /\ invalidation \in {Id(i) : i \in 0..Latest}

\* The activated generations tell of audits on registries of growing revision.
History ==
  /\ \A i \in 1..Latest :
       LET d == generations[i].documents
       IN  /\ d.registry.by = d.report.by /\ d.report.registry = d.registry.rev
           /\ d.report.rev < d.registry.rev /\ d.registry.rev <= ops + 1
  /\ \A i, j \in 1..Latest : i < j => Rev(i) < Rev(j)

\* The live documents count with a registry edited since the last audit.
Outside ==
  /\ live.report = NoReport \/ \E i \in 1..Latest : live.report = generations[i].documents.report
  /\ Serving = 0 =>
       /\ live.report.rev < live.registry.rev /\ live.registry.rev <= ops + 1
       /\ Latest > 0 => Rev(Latest) < live.registry.rev

\* The pointer and the invalidation can be resolved.
Resolved ==
  /\ Latest = 0 => invalidation = 0
  /\ (Latest > 0 /\ Serving = 0) \/ pointer \in {Id(Serving), Id(Complete)}

Current(p) == writer[p].base = Truth.registry.rev
Edited(p) == [rev |-> writer[p].base + 1, by |-> writer[p].id]

\* What a writer knows at each step: its number and base, that it owns the lock,
\* that the registry it started from is the one that counts ...
Holds(p) ==
  LET w == writer[p]
  IN  /\ w.pc # "idle" => w.op # "none" /\ w.id \in 1..ops /\ w.base <= w.id
      /\ w.pc \in Working => owner = p
      /\ w.pc \in {"repoint", "discard", "stage", "edit", "invalidate"} \cup Committing => Current(p)
      /\ w.pc \in {"repoint", "discard", "stage"} \cup Committing => w.op = "audit"

\* ... what is left of an interrupted audit ...
Begins(p) ==
  LET w == writer[p]
  IN  /\ w.pc \in Beginning => \A i \in 1..Size : generations[i].id # w.id
      /\ w.pc = "check" /\ Size > Latest => generations[Size].stage # "staged"
      /\ w.pc \in {"repoint", "discard"} => Size = Latest + 1 /\ generations[Size].stage = "committed"
      /\ w.pc = "discard" => pointer = Id(Serving)
      /\ w.pc = "stage" => Size = Latest

\* ... its own generation ...
Commits(p) ==
  LET w == writer[p]
  IN  /\ w.pc \in Committing =>
           /\ Size = Latest + 1
           /\ generations[Size].id = w.id /\ generations[Size].documents = Audited(w)
           /\ generations[Size].stage = IF w.pc = "commit" THEN "staged" ELSE "committed"
      /\ w.pc = "activate" => pointer = w.id

\* ... and how far the live documents follow the active generation.
Follows(p) ==
  LET w == writer[p]
  IN  /\ w.pc \in Copying => Serving # 0 /\ (w.op = "edit" => Current(p))
      /\ w.pc \in {"copy report", "copy catalog"} =>
           live.registry = generations[Latest].documents.registry
      /\ w.pc = "copy catalog" => live.report = generations[Latest].documents.report

Edits(p) ==
  LET w == writer[p]
  IN  /\ w.pc = "edit" /\ Serving # 0 => live = generations[Latest].documents
      /\ w.pc = "invalidate" =>
           Serving # 0 /\ live = [generations[Latest].documents EXCEPT !.registry = Edited(p)]
      /\ w.pc = "unpoint" => Latest > 0 /\ invalidation = Id(Latest)

Knows(p) == Holds(p) /\ Begins(p) /\ Commits(p) /\ Follows(p) /\ Edits(p)

\* No two operations have one number.
Apart ==
  \A p, q \in Writers :
    writer[p].pc # "idle" /\ writer[q].pc # "idle" /\ writer[p].id = writer[q].id => p = q

\* A registry no older than the read, and newer than the report it is compared with.
LaterThan(got, rev) == got.since <= rev /\ (got.document = "registry" => got.report.registry < rev)

\* What a reader has gathered.
Gathered(got) ==
  LET pc == got.pc
  IN  /\ pc # "idle" => got.document # "none" /\ got.since <= Truth.registry.rev
      /\ pc = "generations" =>
           /\ got.invalidation \in {Id(i) : i \in 0..Latest}
           /\ IF got.invalidation = Id(Latest)
              THEN LaterThan(got, live.registry.rev) /\ LaterThan(got, Truth.registry.rev)
              ELSE got.since <= Rev(Latest)
      /\ pc = "live" => LaterThan(got, live.registry.rev) /\ LaterThan(got, Truth.registry.rev)
      /\ pc # "idle" /\ got.document \in {"registry", "catalog"} =>
           \E i \in 1..Latest : got.report = generations[i].documents.report
      /\ pc # "idle" /\ got.document = "catalog" =>
           /\ got.since <= got.registry.rev
           /\ got.report.registry = got.registry.rev => got.report.by = got.registry.by
      /\ pc = "accepted" => got.document = "catalog" /\ got.report.registry = got.registry.rev

Gathers(r) == Gathered(reader[r])

AuditInv ==
  /\ Typed /\ Shape /\ Named /\ History /\ Outside /\ Resolved /\ Apart
  /\ \A p \in Writers : Knows(p)
  /\ \A r \in Readers : Gathers(r)

-----------------------------------------------------------------------------
(* Sequences of generations.                                                 *)

Count(gs, stages) == Cardinality({i \in DOMAIN gs : gs[i].stage \in stages})

\* Stages that come first are counted by how many there are.
LEMMA CountFirst ==
  ASSUME NEW gs \in Seq(Generations), NEW stages, NEW n \in 0..Len(gs),
         \A i \in 1..Len(gs) : gs[i].stage \in stages <=> i <= n
  PROVE  Count(gs, stages) = n
<1>1. {i \in DOMAIN gs : gs[i].stage \in stages} = 1..n
  OBVIOUS
<1>2. Cardinality(1..n) = n
  BY FS_Interval
<1> QED BY <1>1, <1>2 DEF Count

\* Activated generations, at most one other behind them.
Ordered(gs, n) ==
  /\ gs \in Seq(Generations) /\ n \in 0..Len(gs) /\ Len(gs) <= n + 1
  /\ \A i \in 1..Len(gs) : gs[i].stage = "activated" <=> i <= n

Finished(gs, n) == IF Len(gs) > n /\ gs[Len(gs)].stage = "committed" THEN Len(gs) ELSE n

\* The three counts of an ordered history.
LEMMA OrderedCounts ==
  ASSUME NEW gs, NEW n, Ordered(gs, n)
  PROVE  /\ Count(gs, {"activated"}) = n
         /\ Count(gs, {"committed", "activated"}) = Finished(gs, n)
         /\ Count(gs, {"staged"}) = IF Len(gs) > n /\ gs[Len(gs)].stage = "staged" THEN 1 ELSE 0
<1>1. /\ gs \in Seq(Generations) /\ n \in 0..Len(gs) /\ Len(gs) <= n + 1 /\ Len(gs) \in Nat
      /\ n \in Nat
      /\ \A i \in 1..Len(gs) : gs[i].stage = "activated" <=> i <= n
  BY DEF Ordered
<1>2. Count(gs, {"activated"}) = n
  <2>1. \A i \in 1..Len(gs) : gs[i].stage \in {"activated"} <=> i <= n
    BY <1>1
  <2> QED BY <1>1, <2>1, CountFirst
<1>3. Count(gs, {"committed", "activated"}) = Finished(gs, n)
  <2>1. Finished(gs, n) \in 0..Len(gs)
    BY <1>1 DEF Finished
  <2>2. \A i \in 1..Len(gs) : gs[i].stage \in {"committed", "activated"} <=> i <= Finished(gs, n)
    BY <1>1 DEF Finished
  <2> QED BY <1>1, <2>1, <2>2, CountFirst
<1>4. Count(gs, {"staged"}) = IF Len(gs) > n /\ gs[Len(gs)].stage = "staged" THEN 1 ELSE 0
  <2>1. CASE Len(gs) > n /\ gs[Len(gs)].stage = "staged"
    <3>1. {i \in DOMAIN gs : gs[i].stage \in {"staged"}} = {Len(gs)}
      BY <1>1, <2>1
    <3> QED BY <2>1, <3>1, FS_Singleton DEF Count
  <2>2. CASE ~(Len(gs) > n /\ gs[Len(gs)].stage = "staged")
    <3>1. {i \in DOMAIN gs : gs[i].stage \in {"staged"}} = {}
      BY <1>1, <2>2
    <3> QED BY <2>2, <3>1, FS_EmptySet DEF Count
  <2> QED BY <2>1, <2>2
<1> QED BY <1>2, <1>3, <1>4

\* The counts of the model in these terms, now and in the next state.
LEMMA Counts ==
  /\ Latest = Count(generations, {"activated"})
  /\ Complete = Count(generations, {"committed", "activated"})
  /\ Cardinality(In({"staged"})) = Count(generations, {"staged"})
  /\ Latest' = Count(generations', {"activated"})
  /\ Complete' = Count(generations', {"committed", "activated"})
BY DEF Latest, Activated, Complete, In, Count

\* Shape says that the generations are ordered, now and in the next state.
LEMMA ShapeIsOrder ==
  /\ Typed /\ Shape => Ordered(generations, Latest) /\ Complete = Finished(generations, Latest)
  /\ \A n : Ordered(generations', n) =>
        Latest' = n /\ Complete' = Finished(generations', n) /\ Shape'
<1>1. Typed /\ Shape => Ordered(generations, Latest) /\ Complete = Finished(generations, Latest)
  BY DEF Typed, Shape, Ordered, Finished, Size
<1>2. ASSUME NEW n, Ordered(generations', n)
      PROVE  Latest' = n /\ Complete' = Finished(generations', n) /\ Shape'
  <2>1. Latest' = n /\ Complete' = Finished(generations', n)
    BY <1>2, Counts, OrderedCounts
  <2> QED BY <1>2, <2>1 DEF Ordered, Shape, Finished, Size
<1> QED BY <1>1, <1>2

\* A shorter history of the same activated generations.
LEMMA Shortened ==
  ASSUME NEW gs, NEW n, Ordered(gs, n), NEW k \in n..Len(gs)
  PROVE  LET next == SubSeq(gs, 1, k)
         IN  /\ Ordered(next, n) /\ Len(next) = k
             /\ \A i \in 1..k : next[i] = gs[i]
<1> DEFINE next == SubSeq(gs, 1, k)
<1>1. /\ gs \in Seq(Generations)
      /\ n \in Nat
      /\ k \in Nat
      /\ n <= k
      /\ k <= Len(gs)
      /\ Len(gs) \in Nat
  BY DEF Ordered
<1>2. /\ next \in Seq(Generations) /\ Len(next) = k
      /\ \A i \in 1..k : next[i] = gs[i]
  BY <1>1, SubSeqProperties
<1> HIDE DEF next
<1>3. Ordered(next, n)
  BY <1>1, <1>2 DEF Ordered
<1> QED BY <1>2, <1>3 DEF next

\* A generation behind the activated ones.
LEMMA Lengthened ==
  ASSUME NEW gs, NEW n, Ordered(gs, n), Len(gs) = n,
         NEW g \in Generations, g.stage # "activated"
  PROVE  LET next == Append(gs, g)
         IN  /\ Ordered(next, n) /\ Len(next) = n + 1 /\ next[n + 1] = g
             /\ \A i \in 1..n : next[i] = gs[i]
<1> DEFINE next == Append(gs, g)
<1>1. gs \in Seq(Generations) /\ n \in Nat /\ \A i \in 1..n : gs[i].stage = "activated"
  BY DEF Ordered
<1>2. /\ next \in Seq(Generations) /\ Len(next) = n + 1 /\ next[n + 1] = g
      /\ \A i \in 1..n : next[i] = gs[i]
  BY <1>1
<1> HIDE DEF next
<1>3. Ordered(next, n)
  BY <1>1, <1>2 DEF Ordered
<1> QED BY <1>2, <1>3 DEF next

\* The last generation at another stage.
Reaching(gs, stage) == [gs EXCEPT ![Len(gs)].stage = stage]

\* What a change of the last stage leaves, and whether it activates.
LEMMA Restaged ==
  ASSUME NEW gs, NEW n, Ordered(gs, n), Len(gs) = n + 1, NEW stage \in Stages
  PROVE  LET next == Reaching(gs, stage)
         IN  /\ stage # "activated" => Ordered(next, n)
             /\ stage = "activated" => Ordered(next, n + 1)
             /\ Len(next) = n + 1
             /\ \A i \in 1..n : next[i] = gs[i]
             /\ next[n + 1].id = gs[n + 1].id /\ next[n + 1].documents = gs[n + 1].documents
             /\ next[n + 1].stage = stage
<1> DEFINE next == Reaching(gs, stage)
           last == [gs[n + 1] EXCEPT !.stage = stage]
<1>1. /\ gs \in Seq(Generations) /\ n \in Nat /\ n + 1 \in 1..Len(gs)
      /\ \A i \in 1..Len(gs) : gs[i].stage = "activated" <=> i <= n
  BY DEF Ordered
<1>2. gs[n + 1] \in Generations
  BY <1>1
<1>3. /\ last \in Generations /\ last.id = gs[n + 1].id
      /\ last.documents = gs[n + 1].documents /\ last.stage = stage
  BY <1>2 DEF Generations
<1>4. next = [gs EXCEPT ![n + 1] = last]
  BY DEF Reaching
<1> HIDE DEF next, last
<1>5. /\ next \in Seq(Generations) /\ Len(next) = n + 1 /\ next[n + 1] = last
      /\ \A i \in 1..n : next[i] = gs[i]
  BY <1>1, <1>3, <1>4
<1>6. /\ stage # "activated" => Ordered(next, n)
      /\ stage = "activated" => Ordered(next, n + 1)
  BY <1>1, <1>3, <1>5 DEF Ordered
<1> QED BY <1>3, <1>5, <1>6 DEF next

-----------------------------------------------------------------------------
(* What counts, now and in the next state.                                   *)

\* The fields of a set of documents.
LEMMA DocumentFacts ==
  ASSUME NEW d \in DocumentSets
  PROVE  /\ d.registry \in Registries /\ d.report \in Reports /\ d.catalog \in SUBSET (1..MaxOps)
         /\ d.registry.rev \in Nat /\ d.registry.by \in Nat
         /\ d.report.rev \in Nat /\ d.report.by \in Nat /\ d.report.registry \in Nat
<1>1. d.registry \in Registries /\ d.report \in Reports /\ d.catalog \in SUBSET (1..MaxOps)
  BY DEF DocumentSets
<1> QED BY <1>1, AuditAssumption DEF Registries, Reports

\* Which documents count, spelled out for both states.
LEMMA ServingIs ==
  /\ Serving = IF invalidation = (IF Latest = 0 THEN 0 ELSE generations[Latest].id)
               THEN 0 ELSE Latest
  /\ Serving' = IF invalidation' = (IF Latest' = 0 THEN 0 ELSE generations'[Latest'].id)
                THEN 0 ELSE Latest'
  /\ Truth = IF Serving = 0 THEN live ELSE generations[Serving].documents
  /\ Truth' = IF Serving' = 0 THEN live' ELSE generations'[Serving'].documents
BY DEF Serving, Active, Id, Truth, Documents

\* What counts is typed, and its report is older than its registry.
LEMMA TruthKnown ==
  ASSUME Typed, Shape, Named, History, Outside
  PROVE  /\ Truth \in DocumentSets /\ Truth.registry.rev \in Nat /\ Truth.report.rev \in Nat
         /\ Latest \in Nat /\ Serving \in {0, Latest} /\ Size \in Nat
         /\ Truth.report.rev < Truth.registry.rev /\ Truth.registry.rev <= ops + 1
         /\ Latest > 0 => Rev(Latest) <= Truth.registry.rev
         /\ \A i \in 1..Size : generations[i] \in Generations
                               /\ generations[i].documents \in DocumentSets
                               /\ generations[i].id \in 1..MaxOps /\ Rev(i) \in Nat
         /\ live \in DocumentSets /\ live.registry.rev \in Nat /\ ops \in Nat
<1>1. Latest \in Nat /\ Serving \in {0, Latest} /\ Size \in Nat /\ Latest <= Size
  BY ServingIs DEF Typed, Shape, Size
<1>2. ASSUME NEW i \in 1..Size
      PROVE  /\ generations[i] \in Generations /\ generations[i].documents \in DocumentSets
             /\ generations[i].id \in 1..MaxOps /\ Rev(i) \in Nat
  <2>1. generations[i] \in Generations
    BY DEF Typed, Size
  <2>2. generations[i].documents \in DocumentSets /\ generations[i].id \in 1..MaxOps
    BY <2>1 DEF Generations
  <2> QED BY <2>1, <2>2, DocumentFacts DEF Rev
<1>3. live \in DocumentSets /\ live.registry.rev \in Nat /\ ops \in Nat
  BY DocumentFacts DEF Typed
<1>4. Truth \in DocumentSets
  BY <1>1, <1>2, <1>3, ServingIs
<1>5. Truth.report.rev \in Nat /\ Truth.registry.rev \in Nat
  BY <1>4, DocumentFacts
<1>6. CASE Serving = 0
  <2>1. Truth = live
    BY <1>6, ServingIs
  <2>2. Latest > 0 => Rev(Latest) \in Nat
    BY <1>1, <1>2
  <2> QED BY <1>1, <1>2, <1>3, <1>4, <1>5, <1>6, <2>1, <2>2 DEF Outside
<1>7. CASE Serving # 0
  <2>1. Truth = generations[Latest].documents /\ Latest \in 1..Latest /\ Serving = Latest
    BY <1>1, <1>7, ServingIs
  <2>2. Rev(Latest) = Truth.registry.rev
    BY <2>1 DEF Rev
  <2> QED BY <1>1, <1>2, <1>3, <1>4, <1>5, <2>1, <2>2 DEF History
<1> QED BY <1>6, <1>7

\* The activated generations and what they tell are as before.
Prefix(n) == \A i \in 1..n : generations'[i] = generations[i]

\* The history stays while the activated generations do.
LEMMA HistoryKept ==
  ASSUME Typed, Shape, History, Latest' = Latest, Prefix(Latest), ops' \in {ops, ops + 1}
  PROVE  History'
<1>1. Latest \in Nat /\ ops \in Nat /\ Size \in Nat /\ Latest <= Size
  BY DEF Typed, Shape, Size
<1>2. ASSUME NEW i \in 1..Latest
      PROVE  LET d == generations'[i].documents
             IN  /\ d.registry.by = d.report.by /\ d.report.registry = d.registry.rev
                 /\ d.report.rev < d.registry.rev /\ d.registry.rev <= ops' + 1
  <2>1. generations'[i] = generations[i] /\ i \in 1..Size
    BY <1>1 DEF Prefix
  <2>2. generations[i] \in Generations
    BY <2>1 DEF Typed, Size
  <2>3. generations[i].documents.registry.rev \in Nat
    BY <2>2, DocumentFacts DEF Generations
  <2> QED BY <1>1, <1>2, <2>1, <2>3 DEF History
<1>3. \A i, j \in 1..Latest : i < j => Rev(i)' < Rev(j)'
  BY <1>1 DEF History, Prefix, Rev
<1> QED BY <1>2, <1>3 DEF History

\* A reader's knowledge survives whatever a writer does to the files.
LEMMA GathersKept ==
  ASSUME AuditInv, NEW r \in Readers, reader'[r] = reader[r],
         Ordered(generations', Latest'), Prefix(Latest), live' \in DocumentSets,
         Truth' \in DocumentSets, Truth.registry.rev <= Truth'.registry.rev,
         \/ live.registry.rev <= live'.registry.rev
         \/ Truth.registry.rev <= live'.registry.rev,
         \/ Latest' = Latest
         \/ /\ Latest' = Latest + 1 /\ Truth.registry.rev <= Rev(Latest)'
            /\ \A i \in 1..Latest : generations'[Latest'].id # generations[i].id
  PROVE  Gathers(r)'
<1> DEFINE got == reader[r]
<1>0. Typed /\ Shape /\ Named /\ History /\ Outside /\ Gathers(r)
  BY DEF AuditInv
<1>1. got \in ReaderStates
  BY <1>0 DEF Typed
<1>2. /\ got.since \in Nat /\ got.report.registry \in Nat
  BY <1>1, AuditAssumption DEF ReaderStates, Reports
<1>3. /\ Latest \in Nat /\ Latest' \in {Latest, Latest + 1} /\ Latest' \in Nat
      /\ Truth.registry.rev \in Nat /\ Truth'.registry.rev \in Nat
      /\ live.registry.rev \in Nat /\ live'.registry.rev \in Nat
      /\ Latest <= Size
  BY <1>0, TruthKnown, DocumentFacts DEF Shape
<1>4. Latest' > 0 => Rev(Latest)' \in Nat /\ generations'[Latest'].id \in 1..MaxOps
  <2>1. Latest' > 0 => generations'[Latest'] \in Generations
    BY <1>3 DEF Ordered
  <2>2. Latest' > 0 => generations'[Latest'].documents \in DocumentSets /\ generations'[Latest'].id \in 1..MaxOps
    BY <2>1 DEF Generations
  <2> QED BY <2>2, DocumentFacts DEF Rev
<1>5. got.pc # "idle" => got.document # "none" /\ got.since <= Truth'.registry.rev
  BY <1>0, <1>2, <1>3 DEF Gathers, Gathered
<1>6. LaterThan(got, live.registry.rev) /\ LaterThan(got, Truth.registry.rev)
        => LaterThan(got, live'.registry.rev) /\ LaterThan(got, Truth'.registry.rev)
  BY <1>2, <1>3 DEF LaterThan
<1>7. ASSUME got.pc = "generations"
      PROVE  /\ got.invalidation \in {Id(i)' : i \in 0..Latest'}
             /\ IF got.invalidation = (IF Latest' = 0 THEN 0 ELSE generations'[Latest'].id)
                THEN LaterThan(got, live'.registry.rev) /\ LaterThan(got, Truth'.registry.rev)
                ELSE got.since <= Rev(Latest)'
  <2>1. PICK i \in 0..Latest : got.invalidation = IF i = 0 THEN 0 ELSE generations[i].id
    BY <1>0, <1>7 DEF Gathers, Gathered, Id
  <2>2. got.invalidation = IF i = 0 THEN 0 ELSE generations'[i].id
    BY <1>3, <2>1 DEF Prefix
  <2>3. got.invalidation \in {Id(j)' : j \in 0..Latest'}
    <3>1. i \in 0..Latest' /\ got.invalidation = Id(i)'
      BY <1>3, <2>2 DEF Id
    <3> QED BY <3>1
  <2>4. CASE Latest' = Latest
    <3>1. Latest > 0 => generations'[Latest] = generations[Latest]
      BY <1>3 DEF Prefix
    <3>2. Latest > 0 => Rev(Latest)' = Rev(Latest)
      BY <2>4, <3>1 DEF Rev
    <3>3. got.invalidation = Id(Latest)
             <=> got.invalidation = (IF Latest' = 0 THEN 0 ELSE generations'[Latest'].id)
      BY <1>3, <2>4, <3>1 DEF Id
    <3>4. Latest = 0 => got.invalidation = Id(Latest)
      BY <1>3, <2>1 DEF Id
    <3>5. IF got.invalidation = Id(Latest)
          THEN LaterThan(got, live.registry.rev) /\ LaterThan(got, Truth.registry.rev)
          ELSE got.since <= Rev(Latest)
      BY <1>0, <1>7 DEF Gathers, Gathered
    <3> QED BY <1>3, <1>6, <1>7, <2>3, <2>4, <3>2, <3>3, <3>4, <3>5
  <2>5. CASE Latest' = Latest + 1
    <3>1. got.invalidation # generations'[Latest'].id
      BY <1>3, <1>4, <2>1, <2>5
    <3>2. got.since <= Rev(Latest)'
      BY <1>0, <1>2, <1>3, <1>4, <1>7, <2>5 DEF Gathers, Gathered
    <3> QED BY <1>3, <2>3, <2>5, <3>1, <3>2
  <2> QED BY <1>3, <2>4, <2>5
<1>8. got.pc = "live" => LaterThan(got, live'.registry.rev) /\ LaterThan(got, Truth'.registry.rev)
  BY <1>0, <1>6 DEF Gathers, Gathered
<1>9. got.pc # "idle" /\ got.document \in {"registry", "catalog"} =>
        \E i \in 1..Latest' : got.report = generations'[i].documents.report
  <2>1. ASSUME got.pc # "idle", got.document \in {"registry", "catalog"}
        PROVE  \E i \in 1..Latest' : got.report = generations'[i].documents.report
    <3>1. PICK i \in 1..Latest : got.report = generations[i].documents.report
      BY <1>0, <2>1 DEF Gathers, Gathered
    <3>2. i \in 1..Latest' /\ generations'[i] = generations[i]
      BY <1>3 DEF Prefix
    <3> QED BY <3>1, <3>2
  <2> QED BY <2>1
<1>10. /\ got.pc # "idle" /\ got.document = "catalog" =>
            /\ got.since <= got.registry.rev
            /\ got.report.registry = got.registry.rev => got.report.by = got.registry.by
       /\ got.pc = "accepted" => got.document = "catalog" /\ got.report.registry = got.registry.rev
  BY <1>0 DEF Gathers, Gathered
<1>11. Id(Latest)' = IF Latest' = 0 THEN 0 ELSE generations'[Latest'].id
  BY DEF Id
<1> HIDE DEF got
<1>12. reader'[r] = got
  BY DEF got
<1> QED BY <1>5, <1>7, <1>8, <1>9, <1>10, <1>11, <1>12 DEF Gathers, Gathered, LaterThan

-----------------------------------------------------------------------------
(* A step of the owner of the lock.                                          *)

Works(p, pc) ==
  /\ writer' = [writer EXCEPT ![p].pc = pc]
  /\ UNCHANGED <<owner, reader, ops>> /\ faults' \in Nat

\* One writer goes to another step, and nothing else of it changes.
LEMMA GoesOn ==
  ASSUME Typed, NEW p \in Writers, NEW pc \in Waiting \cup Working,
         writer' = [writer EXCEPT ![p].pc = pc]
  PROVE  /\ writer' \in [Writers -> WriterStates]
         /\ writer'[p].pc = pc /\ writer'[p].id = writer[p].id
         /\ writer'[p].op = writer[p].op /\ writer'[p].base = writer[p].base
         /\ \A q \in Writers : q # p => writer'[q] = writer[q]
         /\ writer[p].id \in 0..MaxOps /\ writer[p].base \in Nat
<1>1. writer \in [Writers -> WriterStates] /\ writer[p] \in WriterStates
  BY DEF Typed
<1> DEFINE w == [writer[p] EXCEPT !.pc = pc]
<1>2. /\ w \in WriterStates /\ w.pc = pc /\ w.id = writer[p].id
      /\ w.op = writer[p].op /\ w.base = writer[p].base
  BY <1>1 DEF WriterStates
<1>3. writer' = [writer EXCEPT ![p] = w]
  OBVIOUS
<1>4. writer[p].id \in 0..MaxOps /\ writer[p].base \in Nat
  BY <1>1 DEF WriterStates
<1> HIDE DEF w
<1> QED BY <1>1, <1>2, <1>3, <1>4

\* The same, for a step of the owner of the lock.
LEMMA WorksOn ==
  ASSUME Typed, NEW p \in Writers, NEW pc \in Waiting \cup Working, Works(p, pc)
  PROVE  /\ writer' \in [Writers -> WriterStates]
         /\ writer'[p].pc = pc /\ writer'[p].id = writer[p].id
         /\ writer'[p].op = writer[p].op /\ writer'[p].base = writer[p].base
         /\ \A q \in Writers : q # p => writer'[q] = writer[q]
         /\ writer[p].id \in 0..MaxOps /\ writer[p].base \in Nat
BY GoesOn DEF Works

\* Generations are kept or are the owner's own.
Heirs(p) ==
  \A i \in 1..Len(generations') :
    \/ \E j \in 1..Size : generations'[i].id = generations[j].id
    \/ generations'[i].id = writer[p].id

\* An operation that has begun has a number.
LEMMA Started ==
  ASSUME AuditInv, NEW q \in Writers, writer[q].pc # "idle", ops' \in {ops, ops + 1}
  PROVE  /\ writer[q].id \in 1..ops /\ writer[q].id \in 1..ops' /\ writer[q].base <= writer[q].id
         /\ writer[q].op # "none"
<1>1. ops \in Nat
  BY AuditAssumption DEF AuditInv, Typed
<1>2. writer[q].id \in 1..ops /\ writer[q].base <= writer[q].id /\ writer[q].op # "none"
  BY DEF AuditInv, Knows, Holds
<1> QED BY <1>1, <1>2

\* A writer that waits needs its number only.
LEMMA WaitingKept ==
  ASSUME AuditInv, NEW p \in Writers, writer[p].pc # "idle", Heirs(p), ops' \in {ops, ops + 1},
         NEW q \in Writers, q # p, writer'[q] = writer[q], writer[q].pc \in Waiting
  PROVE  Knows(q)'
<1>0. Typed /\ Apart /\ Knows(q)
  BY DEF AuditInv
<1>1. writer[q].pc = "lock" => \A i \in 1..Len(generations') : generations'[i].id # writer[q].id
  <2>1. writer[q].pc = "lock" => writer[q].id # writer[p].id
    BY <1>0 DEF Apart
  <2>2. writer[q].pc = "lock" => \A j \in 1..Size : generations[j].id # writer[q].id
    BY <1>0 DEF Knows, Begins, Holds, Beginning
  <2> QED BY <2>1, <2>2 DEF Heirs
<1>2. writer[q].pc # "idle" => /\ writer[q].id \in 1..ops' /\ writer[q].base <= writer[q].id
                              /\ writer[q].op # "none"
  BY Started
<1> QED BY <1>1, <1>2
    DEF Knows, Holds, Begins, Commits, Follows, Edits, Waiting, Working, Beginning,
                          Committing, Copying, Size

\* Only the owner of the lock does not wait.
LEMMA OthersWait ==
  ASSUME AuditInv, NEW p \in Writers, owner \in {p, Free}, NEW q \in Writers, q # p
  PROVE  writer[q].pc \in Waiting
<1>1. Typed /\ Knows(q)
  BY DEF AuditInv
<1>2. writer[q].pc \notin Working
  BY <1>1, AuditAssumption DEF Knows, Holds
<1> QED BY <1>1, <1>2 DEF Typed, WriterStates

\* A writer that does nothing while the files stay as they are.
LEMMA SameKept ==
  ASSUME AuditInv, UNCHANGED <<files, owner>>, ops' \in {ops, ops + 1},
         NEW q \in Writers, writer'[q] = writer[q]
  PROVE  Knows(q)'
<1>1. Typed /\ Knows(q)
  BY DEF AuditInv
<1>2. UNCHANGED <<generations, pointer, invalidation, live>>
  BY DEF files
<1>3. /\ Latest' = Latest /\ Serving' = Serving /\ Truth' = Truth /\ Size' = Size
  BY <1>2 DEF Latest, Activated, In, Serving, Active, Id, Truth, Documents, Size
<1>4. writer[q].pc # "idle" => /\ writer[q].id \in 1..ops' /\ writer[q].base <= writer[q].id
                              /\ writer[q].op # "none"
  BY Started
<1>5. /\ Current(q)' <=> Current(q)
      /\ Edited(q)' = Edited(q)
      /\ Audited(writer[q])' = Audited(writer[q])
      /\ Id(Serving)' = Id(Serving) /\ Id(Latest)' = Id(Latest)
  BY <1>2, <1>3 DEF Current, Edited, Audited, Id
<1>6. Holds(q)'
  BY <1>1, <1>2, <1>3, <1>4, <1>5 DEF Knows, Holds
<1>7. Begins(q)'
  BY <1>1, <1>2, <1>3, <1>5 DEF Knows, Begins
<1>8. Commits(q)'
  BY <1>1, <1>2, <1>3, <1>5 DEF Knows, Commits
<1>9. Follows(q)'
  BY <1>1, <1>2, <1>3, <1>5 DEF Knows, Follows
<1>10. Edits(q)'
  BY <1>1, <1>2, <1>3, <1>5 DEF Knows, Edits
<1> QED BY <1>6, <1>7, <1>8, <1>9, <1>10 DEF Knows

\* A step of the owner: the other writers wait, so the files and itself remain.
LEMMA Stepped ==
  ASSUME AuditInv, NEW p \in Writers, writer[p].pc \in Working, NEW pc \in Working, Works(p, pc),
         generations' \in Seq(Generations), Len(generations') <= MaxGenerations, Heirs(p),
         pointer' \in 0..MaxOps, invalidation' \in 0..MaxOps, live' \in DocumentSets,
         Shape', Named', History', Outside', Resolved', Knows(p)', \A r \in Readers : Gathers(r)'
  PROVE  AuditInv'
<1>0. Typed /\ Apart /\ Knows(p)
  BY DEF AuditInv
<1>1. /\ writer' \in [Writers -> WriterStates]
      /\ writer'[p].pc = pc /\ writer'[p].id = writer[p].id
      /\ \A q \in Writers : q # p => writer'[q] = writer[q]
  BY <1>0, WorksOn
<1>2. Typed'
  BY <1>0, <1>1 DEF Typed, Works
<1>3. writer[p].pc # "idle" /\ owner = p
  BY <1>0 DEF Knows, Holds, Working, Committing, Copying
<1>4. Apart'
  BY <1>0, <1>1, <1>3 DEF Apart
<1>5. ASSUME NEW q \in Writers, q # p
      PROVE  Knows(q)'
  BY <1>1, <1>3, <1>5, OthersWait, WaitingKept DEF Works
<1> QED BY <1>2, <1>4, <1>5 DEF AuditInv

-----------------------------------------------------------------------------
(* Steps that leave the activated generations and the live documents alone.  *)

\* What may follow the activated generations: what did, or the owner's own.
Followed(p) ==
  \A i \in 1..Len(generations') : i > Latest =>
    \/ i <= Size /\ generations'[i].id = generations[i].id
    \/ generations'[i].id = writer[p].id /\ writer[p].pc \in Beginning

Leaves(p) ==
  /\ Ordered(generations', Latest) /\ Prefix(Latest) /\ Followed(p)
  /\ Len(generations') <= MaxGenerations /\ pointer' \in 0..MaxOps
  /\ UNCHANGED <<invalidation, live>>

\* What counts is what counted.
LEMMA LeavesFacts ==
  ASSUME AuditInv, NEW p \in Writers, Leaves(p)
  PROVE  /\ Latest' = Latest /\ Serving' = Serving /\ Truth' = Truth /\ Shape'
         /\ Complete' = Finished(generations', Latest)
         /\ Serving # 0 => generations'[Serving] = generations[Serving]
         /\ Latest > 0 => generations'[Latest] = generations[Latest]
         /\ Id(Latest)' = Id(Latest) /\ Id(Serving)' = Id(Serving)
         /\ Size' = Len(generations')
<1>0. Typed /\ Shape /\ Named /\ History /\ Outside
  BY DEF AuditInv
<1>1. Latest' = Latest /\ Complete' = Finished(generations', Latest) /\ Shape'
  BY ShapeIsOrder DEF Leaves
<1>2. Latest \in Nat /\ Serving \in {0, Latest}
  BY <1>0, TruthKnown
<1>3. Latest > 0 => generations'[Latest] = generations[Latest]
  BY <1>2 DEF Leaves, Prefix
<1>4. Serving' = Serving
  BY <1>1, <1>2, <1>3, ServingIs DEF Leaves
<1>5. Truth' = Truth
  BY <1>2, <1>3, <1>4, ServingIs DEF Leaves
<1> QED BY <1>1, <1>2, <1>3, <1>4, <1>5 DEF Id, Size

\* The pointer still resolves.
Points ==
  \/ Latest > 0 /\ Serving = 0
  \/ pointer' \in {Id(Serving), Id(Complete)'}
  \/ pointer' = pointer /\ (Complete = Latest \/ Id(Complete)' = Id(Complete))

\* The parts of the invariant about the files, and what the readers gathered.
LEMMA FilesLeft ==
  ASSUME AuditInv, NEW p \in Writers, Leaves(p), Points, reader' = reader, ops' \in {ops, ops + 1}
  PROVE  /\ Truth' = Truth /\ Shape' /\ Named' /\ History' /\ Outside' /\ Resolved'
         /\ \A r \in Readers : Gathers(r)'
         /\ Heirs(p)
         /\ generations' \in Seq(Generations) /\ Len(generations') <= MaxGenerations
         /\ pointer' \in 0..MaxOps /\ invalidation' \in 0..MaxOps /\ live' \in DocumentSets
<1>0. /\ Typed /\ Shape /\ Named /\ History /\ Outside /\ Resolved
      /\ Knows(p) /\ \A r \in Readers : Gathers(r)
  BY DEF AuditInv
<1>1. /\ Latest' = Latest /\ Serving' = Serving /\ Truth' = Truth /\ Shape'
      /\ Id(Latest)' = Id(Latest) /\ Id(Serving)' = Id(Serving) /\ Size' = Len(generations')
  BY LeavesFacts
<1>2. /\ Latest \in Nat /\ Serving \in {0, Latest} /\ Size \in Nat /\ Latest <= Size
      /\ Truth \in DocumentSets /\ live \in DocumentSets /\ ops \in Nat
      /\ Truth.registry.rev \in Nat /\ live.registry.rev \in Nat
      /\ \A i \in 1..Size : generations[i].id \in 1..MaxOps
  BY <1>0, TruthKnown DEF Shape
<1>3. /\ UNCHANGED <<invalidation, live, reader>>
      /\ Prefix(Latest)
      /\ Ordered(generations', Latest)
  BY DEF Leaves
<1>4. Len(generations') \in Nat /\ Latest <= Len(generations')
  BY <1>2, <1>3 DEF Ordered
<1>5. History'
  BY <1>0, <1>1, <1>3, HistoryKept
<1>6. Outside'
  <2>1. live'.report = NoReport \/ \E i \in 1..Latest' : live'.report = generations'[i].documents.report
    BY <1>0, <1>1, <1>3 DEF Outside, Prefix
  <2>2. Latest > 0 => Rev(Latest)' = Rev(Latest)
    BY <1>1, <1>2, <1>3 DEF Rev, Prefix
  <2> QED BY <1>0, <1>1, <1>2, <1>3, <2>1, <2>2 DEF Outside
<1>7. Named'
  <2>0. writer[p].pc \in Beginning => \A m \in 1..Size : generations[m].id # writer[p].id
    BY <1>0 DEF Knows, Begins
  <2>1. writer[p].pc \in Beginning => writer[p].id \in 1..ops
    BY <1>0 DEF Knows, Begins, Holds, Beginning
  <2>2. ASSUME NEW i \in 1..Len(generations')
        PROVE  /\ generations'[i].id <= ops'
               /\ \A j \in 1..Len(generations') : generations'[i].id = generations'[j].id => i = j
    <3>1. \A k \in 1..Len(generations') : k > Latest => k = Latest + 1
      BY <1>2, <1>3, <1>4 DEF Ordered
    <3>2. \A k \in 1..Len(generations') : k <= Latest =>
             k \in 1..Size /\ generations'[k].id = generations[k].id
      BY <1>2, <1>3, <1>4 DEF Prefix
    <3>3. \A k \in 1..Len(generations') : k > Latest =>
             \/ k \in 1..Size /\ generations'[k].id = generations[k].id
             \/ /\ generations'[k].id = writer[p].id /\ writer[p].id \in 1..ops
                /\ \A m \in 1..Size : generations[m].id # writer[p].id
      BY <1>2, <1>4, <2>0, <2>1 DEF Leaves, Followed
    <3>4. \A k, m \in 1..Size : /\ generations[k].id <= ops
                                /\ generations[k].id = generations[m].id => k = m
      BY <1>0 DEF Named
    <3>5. generations'[i].id <= ops'
      <4>1. CASE i <= Latest
        BY <1>2, <3>2, <3>4, <4>1
      <4>2. CASE i > Latest
        BY <1>2, <3>3, <3>4, <4>2
      <4> QED BY <1>2, <1>4, <4>1, <4>2
    <3>6. ASSUME NEW j \in 1..Len(generations'), generations'[i].id = generations'[j].id
          PROVE  i = j
      <4>1. CASE i <= Latest /\ j <= Latest
        BY <3>2, <3>4, <3>6, <4>1
      <4>2. CASE i > Latest /\ j > Latest
        BY <3>1, <4>2
      <4>3. CASE i <= Latest /\ j > Latest
        <5>1. i \in 1..Size /\ generations'[i].id = generations[i].id
          BY <3>2, <4>3
        <5> QED BY <1>2, <1>4, <3>3, <3>4, <3>6, <4>3, <5>1
      <4>4. CASE i > Latest /\ j <= Latest
        <5>1. j \in 1..Size /\ generations'[j].id = generations[j].id
          BY <3>2, <4>4
        <5> QED BY <1>2, <1>4, <3>3, <3>4, <3>6, <4>4, <5>1
      <4> QED BY <1>2, <1>4, <4>1, <4>2, <4>3, <4>4
    <3> QED BY <3>5, <3>6
  <2>3. invalidation \in {Id(i)' : i \in 0..Latest}
    <3>1. PICK i \in 0..Latest : invalidation = Id(i)
      BY <1>0 DEF Named
    <3>2. Id(i)' = Id(i)
      BY <1>2, <1>3 DEF Id, Prefix
    <3> QED BY <3>1, <3>2
  <2> QED BY <1>1, <1>3, <2>2, <2>3 DEF Named
<1>8. Resolved'
  <2>1. Latest' = 0 => invalidation' = 0
    BY <1>0, <1>1, <1>3 DEF Resolved
  <2>2. CASE Latest > 0 /\ Serving = 0
    BY <1>1, <2>1, <2>2 DEF Resolved
  <2>3. CASE ~(Latest > 0 /\ Serving = 0)
    <3>1. Complete = Latest => Id(Complete) = Id(Serving)
      BY <1>2, <2>3
    <3>2. pointer \in {Id(Serving), Id(Complete)}
      BY <1>0, <2>3 DEF Resolved
    <3>3. pointer' \in {Id(Serving), Id(Complete)'}
      BY <2>3, <3>1, <3>2 DEF Points
    <3> QED BY <1>1, <2>1, <3>3 DEF Resolved
  <2> QED BY <2>2, <2>3
<1>9. ASSUME NEW r \in Readers
      PROVE  Gathers(r)'
  BY <1>0, <1>1, <1>2, <1>3, GathersKept
<1>10. Heirs(p)
  <2>1. ASSUME NEW i \in 1..Len(generations')
        PROVE  \/ \E j \in 1..Size : generations'[i].id = generations[j].id
               \/ generations'[i].id = writer[p].id
    <3>1. CASE i <= Latest
      BY <1>2, <1>3, <1>4, <3>1 DEF Prefix
    <3>2. CASE i > Latest
      BY <1>2, <1>4, <3>2 DEF Leaves, Followed
    <3> QED BY <1>2, <1>4, <3>1, <3>2
  <2> QED BY <2>1 DEF Heirs
<1>11. /\ generations' \in Seq(Generations)
       /\ Len(generations') <= MaxGenerations
       /\ pointer' \in 0..MaxOps
       /\ invalidation' \in 0..MaxOps /\ live' \in DocumentSets
  BY <1>0, <1>3 DEF Ordered, Leaves, Typed
<1> QED BY <1>1, <1>5, <1>6, <1>7, <1>8, <1>9, <1>10, <1>11

\* So the owner itself is all that remains to be shown.
LEMMA LeavesKept ==
  ASSUME AuditInv, NEW p \in Writers, Leaves(p), Points,
         writer[p].pc \in Working, NEW pc \in Working, Works(p, pc), Knows(p)'
  PROVE  AuditInv' /\ Truth' = Truth
<1>1. reader' = reader /\ ops' \in {ops, ops + 1}
  BY DEF Works
<1> QED BY <1>1, FilesLeft, Stepped

\* An error is followed by the release of the lock.
LEMMA ReleaseKnows ==
  ASSUME AuditInv, NEW p \in Writers, writer[p].pc \in Working, Works(p, "release")
  PROVE  Knows(p)'
<1>1. Typed /\ Knows(p)
  BY DEF AuditInv
<1>2. "release" \in Working
  BY DEF Working
<1>3. /\ writer'[p].pc = "release" /\ writer'[p].id = writer[p].id
      /\ writer'[p].base = writer[p].base /\ writer'[p].op = writer[p].op
  BY <1>1, <1>2, WorksOn
<1>4. writer[p].pc # "idle" /\ owner' = owner /\ ops' = ops
  BY DEF Working, Committing, Copying, Works
<1>5. /\ owner = p
      /\ writer[p].id \in 1..ops
      /\ writer[p].base <= writer[p].id
      /\ writer[p].op # "none"
  BY <1>1, <1>4 DEF Knows, Holds
<1> QED BY <1>3, <1>4, <1>5 DEF Knows, Holds, Begins, Commits, Follows, Edits, Waiting, Working,
                               Beginning, Committing, Copying

\* Going on and failing are steps of the owner.
LEMMA FailsWorks ==
  ASSUME Typed, NEW p \in Writers, NEW pc, Fails(p, pc) \/ Goes(p, pc),
         UNCHANGED <<owner, reader, ops>>
  PROVE  Works(p, pc)
BY DEF Fails, Goes, Works, Typed

\* Nothing happens to the files.
LEMMA NothingLeaves ==
  ASSUME AuditInv, NEW p \in Writers, UNCHANGED <<generations, invalidation, live>>,
         pointer' \in 0..MaxOps
  PROVE  Leaves(p) /\ Id(Complete)' = Id(Complete) /\ Complete' = Complete
<1>1. Typed /\ Shape
  BY DEF AuditInv
<1>2. Ordered(generations, Latest)
  BY <1>1, ShapeIsOrder
<1>3. Len(generations) \in Nat
  BY <1>1 DEF Typed
<1>4. Leaves(p)
  BY <1>1, <1>2, <1>3 DEF Leaves, Prefix, Followed, Typed, Size
<1>5. Complete' = Complete
  BY DEF Complete, In
<1> QED BY <1>4, <1>5 DEF Id

\* What the owner of the lock knows of itself after such a step.
LEMMA OwnStep ==
  ASSUME AuditInv, NEW p \in Writers, Leaves(p),
         writer[p].pc \in Working, NEW pc \in Working, Works(p, pc)
  PROVE  /\ writer'[p].pc = pc /\ writer'[p].id = writer[p].id
         /\ writer'[p].op = writer[p].op /\ writer'[p].base = writer[p].base
         /\ owner = p /\ owner' = p
         /\ writer'[p].id \in 1..ops' /\ writer'[p].base <= writer'[p].id
         /\ writer'[p].op # "none"
         /\ Current(p)' <=> Current(p)
         /\ Audited(writer[p])' = Audited(writer[p])
<1>0. Typed /\ Knows(p)
  BY DEF AuditInv
<1>1. /\ writer'[p].pc = pc /\ writer'[p].id = writer[p].id
      /\ writer'[p].op = writer[p].op /\ writer'[p].base = writer[p].base
  BY <1>0, WorksOn
<1>2. writer[p].pc # "idle" /\ owner' = owner /\ ops' = ops
  BY DEF Working, Committing, Copying, Works
<1>3. /\ owner = p
      /\ writer[p].id \in 1..ops
      /\ writer[p].base <= writer[p].id
      /\ writer[p].op # "none"
  BY <1>0, <1>2 DEF Knows, Holds
<1>4. Truth' = Truth
  BY LeavesFacts
<1>5. Current(p)' <=> Current(p)
  BY <1>1, <1>4 DEF Current
<1>6. Audited(writer[p])' = Audited(writer[p])
  BY <1>1, <1>4 DEF Audited
<1> QED BY <1>1, <1>2, <1>3, <1>5, <1>6

\* An error that leaves the activated generations alone.
LEMMA FailKept ==
  ASSUME AuditInv, NEW p \in Writers, Leaves(p), Points, writer[p].pc \in Working,
         Fails(p, "release"), UNCHANGED <<owner, reader, ops>>
  PROVE  AuditInv' /\ Truth' = Truth
<1>1. Typed /\ "release" \in Working
  BY DEF AuditInv, Working
<1>2. Works(p, "release")
  BY <1>1, FailsWorks
<1> QED BY <1>1, <1>2, ReleaseKnows, LeavesKept

\* Check, which chooses what to do and writes nothing.
LEMMA CheckKept ==
  ASSUME AuditInv, NEW p \in Writers, Check(p)
  PROVE  AuditInv' /\ Truth' = Truth
<1>0. Typed /\ Shape /\ Named /\ History /\ Outside /\ Knows(p)
  BY DEF AuditInv
<1>1. /\ writer[p].pc = "check" /\ writer[p].pc \in Working
      /\ UNCHANGED <<owner, generations, pointer, invalidation, live, reader, ops>>
  BY DEF Check, At, files, Working
<1>2. PICK pc \in Working :
        /\ Goes(p, pc)
        /\ \/ pc = "release"
           \/ Expected(p) /\ writer[p].op = "edit" /\ Serving = 0 /\ pc = "edit"
           \/ Expected(p) /\ writer[p].op = "edit" /\ Serving # 0 /\ pc = "copy registry"
           \/ Expected(p) /\ writer[p].op = "audit" /\ Pending /\ pc = "repoint"
           \/ Expected(p) /\ writer[p].op = "audit" /\ ~Pending /\ pc = "stage"
  <2>1. writer[p].op \in {"audit", "edit"}
    BY <1>0, <1>1 DEF Knows, Holds, Typed, WriterStates
  <2>2. CASE ~Expected(p)
    BY <2>2 DEF Check, Working
  <2>3. CASE Expected(p) /\ writer[p].op = "edit"
    BY <2>3 DEF Check, Working, Serving, Copying
  <2>4. CASE Expected(p) /\ writer[p].op = "audit"
    BY <2>4 DEF Check, Working
  <2> QED BY <2>1, <2>2, <2>3, <2>4
<1>3. Works(p, pc)
  BY <1>0, <1>1, <1>2, FailsWorks
<1>4. Leaves(p) /\ Points
  BY <1>0, <1>1, NothingLeaves DEF Typed, Points
<1>5. /\ Latest' = Latest /\ Serving' = Serving /\ Size' = Size
  BY <1>1, <1>4, LeavesFacts DEF Size
<1>6. Latest \in Nat /\ Size \in Nat /\ Latest <= Size /\ Size <= Latest + 1
  BY <1>0, TruthKnown DEF Shape
<1>7. Expected(p) => Current(p)
  BY DEF Expected, Current
<1>8. Pending => Size = Latest + 1 /\ generations[Size].stage = "committed"
  BY <1>0, <1>6 DEF Shape, Pending
<1>9. Expected(p) /\ ~Pending => Size = Latest
  <2>1. ASSUME Expected(p), ~Pending, Size > Latest
        PROVE  FALSE
    <3>1. Size \in 1..Size /\ Size \in DOMAIN generations
      BY <1>0, <1>6, <2>1 DEF Typed, Size
    <3>2. generations[Size].stage # "torn"
      BY <2>1, <3>1 DEF Expected, Broken, In
    <3>3. generations[Size].stage # "staged"
      BY <1>0, <1>1, <2>1 DEF Knows, Begins
    <3>4. generations[Size].stage # "committed"
      BY <1>0, <1>6, <2>1 DEF Shape, Pending
    <3>5. generations[Size].stage # "activated"
      BY <1>0, <1>6, <2>1, <3>1 DEF Shape
    <3>6. generations[Size].stage \in Stages
      BY <1>0, <3>1, TruthKnown DEF Generations
    <3> QED BY <3>2, <3>3, <3>4, <3>5, <3>6 DEF Stages
  <2> QED BY <1>6, <2>1
<1>10. /\ writer'[p].pc = pc /\ writer'[p].id = writer[p].id
       /\ writer'[p].op = writer[p].op /\ writer'[p].base = writer[p].base
       /\ owner = p /\ owner' = p
       /\ writer'[p].id \in 1..ops' /\ writer'[p].base <= writer'[p].id
       /\ writer'[p].op # "none"
       /\ Current(p)' <=> Current(p)
  BY <1>1, <1>2, <1>3, <1>4, OwnStep
<1>11. Holds(p)'
  BY <1>2, <1>7, <1>10 DEF Holds, Committing
<1>12. Begins(p)'
  <2>1. \A i \in 1..Size : generations[i].id # writer[p].id
    BY <1>0, <1>1 DEF Knows, Begins, Beginning
  <2> QED BY <1>1, <1>2, <1>5, <1>8, <1>9, <1>10, <2>1 DEF Begins, Copying, Beginning
<1>13. Commits(p)' /\ Follows(p)' /\ Edits(p)'
  BY <1>1, <1>2, <1>5, <1>7, <1>10 DEF Commits, Follows, Edits, Committing, Copying
<1> QED BY <1>1, <1>2, <1>3, <1>4, <1>11, <1>12, <1>13, LeavesKept DEF Knows

\* Repoint, before the pending generation is removed.
LEMMA RepointKept ==
  ASSUME AuditInv, NEW p \in Writers, Repoint(p)
  PROVE  AuditInv' /\ Truth' = Truth
<1>0. Typed /\ Shape /\ Named /\ History /\ Outside /\ Knows(p)
  BY DEF AuditInv
<1>1. /\ writer[p].pc = "repoint" /\ writer[p].pc \in Working
      /\ UNCHANGED <<owner, generations, invalidation, live, reader, ops>>
  BY DEF Repoint, At, Working
<1>2. Serving = 0 \/ Serving \in 1..Size
  BY <1>0, TruthKnown DEF Shape
<1>3. Id(Serving) \in 0..MaxOps
  BY <1>0, <1>2, TruthKnown, AuditAssumption DEF Id, Typed
<1>4. pointer' \in {pointer, Id(Serving)}
  BY DEF Repoint, Serving
<1>5. Leaves(p) /\ Points
  BY <1>0, <1>1, <1>3, <1>4, NothingLeaves DEF Typed, Points
<1>6. CASE Fails(p, "release")
  BY <1>1, <1>5, <1>6, FailKept
<1>7. CASE pointer' = Id(Serving) /\ Goes(p, "discard")
  <2>1. "discard" \in Working /\ Works(p, "discard")
    BY <1>0, <1>1, <1>7, FailsWorks DEF Working
  <2>2. Latest' = Latest /\ Serving' = Serving /\ Size' = Size /\ Id(Serving)' = Id(Serving)
    BY <1>1, <1>5, LeavesFacts DEF Size
  <2>3. /\ writer'[p].pc = "discard" /\ writer'[p].id = writer[p].id
        /\ owner' = p /\ writer'[p].op = writer[p].op
        /\ writer'[p].id \in 1..ops' /\ writer'[p].base <= writer'[p].id
        /\ writer'[p].op # "none"
        /\ Current(p)' <=> Current(p)
    BY <1>1, <1>5, <2>1, OwnStep
  <2>4. Current(p) /\ Size = Latest + 1 /\ generations[Size].stage = "committed"
        /\ writer[p].op = "audit" /\ \A i \in 1..Size : generations[i].id # writer[p].id
    BY <1>0, <1>1 DEF Knows, Holds, Begins, Beginning
  <2>5. Holds(p)'
    BY <2>3, <2>4 DEF Holds
  <2>6. Begins(p)'
    BY <1>1, <1>7, <2>2, <2>3, <2>4 DEF Begins
  <2>7. Commits(p)' /\ Follows(p)' /\ Edits(p)'
    BY <2>3 DEF Commits, Follows, Edits, Committing, Copying
  <2> QED BY <1>1, <1>5, <2>1, <2>5, <2>6, <2>7, LeavesKept DEF Knows
<1> QED BY <1>6, <1>7 DEF Repoint, Serving

\* The last generation reaches another stage.
LEMMA LastRestaged ==
  ASSUME Typed, Shape, Size = Latest + 1, NEW stage \in Stages, stage # "activated"
  PROVE  LET next == Reaching(generations, stage)
         IN  /\ Ordered(next, Latest) /\ Len(next) = Latest + 1
             /\ \A i \in 1..Latest : next[i] = generations[i]
             /\ next[Latest + 1].id = generations[Latest + 1].id
<1>1. Ordered(generations, Latest) /\ Len(generations) = Latest + 1
  BY ShapeIsOrder DEF Size
<1> QED BY <1>1, Restaged

\* Whatever an interrupted removal leaves, the activated generations stay.
LEMMA RemainsLeave ==
  ASSUME AuditInv, NEW p \in Writers, Size = Latest + 1, generations' \in Remains,
         UNCHANGED <<pointer, invalidation, live>>
  PROVE  Leaves(p)
<1>0. Typed /\ Shape
  BY DEF AuditInv
<1>1. Ordered(generations, Latest) /\ Latest \in Nat /\ Len(generations) = Latest + 1
  BY <1>0, ShapeIsOrder DEF Ordered, Size
<1>2. \/ generations' = Reaching(generations, "staged")
      \/ generations' = Reaching(generations, "torn")
  BY DEF Remains, Reaching
<1>3. /\ Ordered(generations', Latest) /\ Len(generations') = Latest + 1
      /\ \A i \in 1..Latest : generations'[i] = generations[i]
      /\ generations'[Latest + 1].id = generations[Latest + 1].id
  <2>1. ASSUME NEW stage \in Stages, stage # "activated"
        PROVE  LET next == Reaching(generations, stage)
               IN  /\ Ordered(next, Latest) /\ Len(next) = Latest + 1
                   /\ \A i \in 1..Latest : next[i] = generations[i]
                   /\ next[Latest + 1].id = generations[Latest + 1].id
    BY <1>0, <2>1, LastRestaged
  <2>2. "staged" \in Stages /\ "torn" \in Stages
    BY DEF Stages
  <2> QED BY <1>2, <2>1, <2>2
<1> QED BY <1>0, <1>1, <1>3 DEF Leaves, Prefix, Followed, Typed, Size

\* Discard, whole or interrupted.
LEMMA DiscardKept ==
  ASSUME AuditInv, NEW p \in Writers, Discard(p)
  PROVE  AuditInv' /\ Truth' = Truth
<1>0. Typed /\ Shape /\ Knows(p)
  BY DEF AuditInv
<1>1. /\ writer[p].pc = "discard" /\ writer[p].pc \in Working
      /\ UNCHANGED <<owner, pointer, invalidation, live, reader, ops>>
  BY DEF Discard, At, Working
<1>2. Size = Latest + 1 /\ pointer = Id(Serving) /\ Current(p) /\ writer[p].op = "audit"
      /\ \A i \in 1..Size : generations[i].id # writer[p].id
  BY <1>0, <1>1 DEF Knows, Begins, Holds, Beginning
<1>3. Points
  BY <1>1, <1>2 DEF Points
<1>4. Ordered(generations, Latest) /\ Latest \in Nat
  BY <1>0, ShapeIsOrder DEF Ordered
<1>5. CASE generations' \in Remains /\ Fails(p, "release")
  <2>1. Leaves(p)
    BY <1>0, <1>1, <1>2, <1>4, <1>5, RemainsLeave
  <2> QED BY <1>1, <1>3, <1>5, <2>1, FailKept
<1>6. CASE generations' = SubSeq(generations, 1, Latest) /\ Goes(p, "stage")
  <2>1. /\ Ordered(generations', Latest) /\ Len(generations') = Latest
        /\ \A i \in 1..Latest : generations'[i] = generations[i]
    BY <1>2, <1>4, <1>6, Shortened DEF Size
  <2>2. Leaves(p)
    BY <1>0, <1>1, <1>2, <1>4, <2>1, AuditAssumption DEF Leaves, Prefix, Followed, Typed, Size
  <2>3. "stage" \in Working /\ Works(p, "stage")
    BY <1>0, <1>1, <1>6, FailsWorks DEF Working
  <2>4. Latest' = Latest /\ Size' = Latest
    BY <2>1, <2>2, LeavesFacts
  <2>5. /\ writer'[p].pc = "stage" /\ writer'[p].id = writer[p].id
        /\ owner' = p /\ writer'[p].op = writer[p].op
        /\ writer'[p].id \in 1..ops' /\ writer'[p].base <= writer'[p].id
        /\ writer'[p].op # "none"
        /\ Current(p)' <=> Current(p)
    BY <1>1, <2>2, <2>3, OwnStep
  <2>6. Holds(p)'
    BY <1>2, <2>5 DEF Holds
  <2>7. \A i \in 1..Latest : generations'[i].id # writer[p].id
    BY <1>2, <1>4, <2>1
  <2>8. Begins(p)' /\ Commits(p)' /\ Follows(p)' /\ Edits(p)'
    BY <2>4, <2>5, <2>7 DEF Begins, Commits, Follows, Edits, Committing, Copying
  <2> QED BY <1>1, <1>3, <2>2, <2>3, <2>6, <2>8, LeavesKept DEF Knows
<1> QED BY <1>5, <1>6 DEF Discard

\* The documents an audit commits, and the registry an edit writes.
LEMMA AuditedTyped ==
  ASSUME AuditInv, NEW p \in Writers, writer[p].pc # "idle", Current(p)
  PROVE  /\ Audited(writer[p]) \in DocumentSets /\ Edited(p) \in Registries
         /\ writer[p].id \in 1..MaxOps
         /\ Truth.report.rev < writer[p].base /\ writer[p].base + 1 <= ops + 1
         /\ writer[p].base \in Nat /\ Truth.report.rev \in Nat
<1>0. Typed /\ Shape /\ Named /\ History /\ Outside /\ Knows(p)
  BY DEF AuditInv
<1>1. writer[p].id \in 1..ops /\ writer[p].base <= writer[p].id /\ writer[p].base \in Nat
  BY <1>0 DEF Knows, Holds, Typed, WriterStates
<1>2. ops \in Nat /\ MaxOps \in Nat /\ ops <= MaxOps
  BY <1>0, AuditAssumption DEF Typed
<1>3. /\ Truth \in DocumentSets /\ Truth.report.rev \in Nat
      /\ Truth.report.rev < Truth.registry.rev
  BY <1>0, TruthKnown
<1>4. /\ writer[p].id \in 1..MaxOps /\ writer[p].id \in 0..MaxOps
      /\ writer[p].base + 1 \in 0..(MaxOps + 1)
      /\ writer[p].base + 1 <= ops + 1
  BY <1>1, <1>2
<1>5. Truth.report.rev < writer[p].base /\ Truth.report.rev + 1 \in 0..MaxOps
  BY <1>1, <1>2, <1>3 DEF Current
<1>6. Edited(p) \in Registries
  BY <1>4 DEF Edited, Registries
<1>7. Audited(writer[p]).report \in Reports
  BY <1>4, <1>5 DEF Audited, Reports
<1>8. Audited(writer[p]).catalog \in SUBSET (1..MaxOps)
  BY <1>3, <1>4, DocumentFacts DEF Audited
<1>9. Audited(writer[p]) \in DocumentSets
  BY <1>4, <1>7, <1>8 DEF Audited, DocumentSets, Registries
<1> QED BY <1>1, <1>3, <1>4, <1>5, <1>6, <1>9

\* Stage, which appends the generation of the audit.
LEMMA StageKept ==
  ASSUME AuditInv, NEW p \in Writers, Stage(p)
  PROVE  AuditInv' /\ Truth' = Truth
<1>0. Typed /\ Shape /\ Knows(p)
  BY DEF AuditInv
<1>1. /\ writer[p].pc = "stage" /\ writer[p].pc \in Working
      /\ UNCHANGED <<owner, pointer, invalidation, live, reader, ops>>
  BY DEF Stage, At, Working
<1>2. /\ Size = Latest /\ Current(p) /\ writer[p].op = "audit"
      /\ \A i \in 1..Size : generations[i].id # writer[p].id
  BY <1>0, <1>1 DEF Knows, Begins, Holds, Beginning
<1>3. /\ Ordered(generations, Latest)
      /\ Latest \in Nat
      /\ Len(generations) = Latest
      /\ Complete = Latest
  BY <1>0, <1>2, ShapeIsOrder DEF Ordered, Size, Finished
<1>4. Points
  BY <1>1, <1>3 DEF Points
<1> DEFINE g == [id |-> writer[p].id, documents |-> Audited(writer[p]), stage |-> "staged"]
           next == Append(generations, g)
<1>5. g \in Generations
  BY <1>1, <1>2, AuditedTyped DEF Generations, Stages
<1>6. g.id = writer[p].id /\ g.documents = Audited(writer[p]) /\ g.stage = "staged"
  OBVIOUS
<1>7. \/ Goes(p, "release") /\ generations' = generations
      \/ Retained /\ generations' = next /\ Goes(p, "commit")
      \/ Retained /\ generations' \in {generations, next} /\ Fails(p, "release")
  BY DEF Stage
<1> HIDE DEF g
<1>8. generations' = generations => Leaves(p)
  BY <1>0, <1>1, NothingLeaves DEF Typed
<1>9. ASSUME generations' = next, Retained
      PROVE  /\ Leaves(p) /\ Len(generations') = Latest + 1
             /\ generations'[Latest + 1] = g
             /\ \A i \in 1..Latest : generations'[i] = generations[i]
  <2>1. /\ Ordered(generations', Latest) /\ Len(generations') = Latest + 1
        /\ generations'[Latest + 1] = g
        /\ \A i \in 1..Latest : generations'[i] = generations[i]
    BY <1>3, <1>5, <1>6, <1>9, Lengthened
  <2>2. Latest + 1 <= MaxGenerations
    BY <1>3, <1>9, AuditAssumption DEF Retained
  <2> HIDE DEF next
  <2>3. Leaves(p)
    BY <1>0, <1>1, <1>3, <1>6, <2>1, <2>2 DEF Leaves, Prefix, Followed, Typed, Beginning
  <2> QED BY <2>1, <2>3
<1>10. CASE Fails(p, "release")
  <2>1. Leaves(p)
    BY <1>7, <1>8, <1>9, <1>10
  <2> QED BY <1>1, <1>4, <1>10, <2>1, FailKept
<1>11. CASE Goes(p, "release") /\ generations' = generations
  <2>1. Leaves(p) /\ "release" \in Working /\ Works(p, "release")
    BY <1>0, <1>1, <1>8, <1>11, FailsWorks DEF Working
  <2> QED BY <1>1, <1>4, <2>1, ReleaseKnows, LeavesKept
<1>12. CASE Retained /\ generations' = next /\ Goes(p, "commit")
  <2>1. Leaves(p) /\ "commit" \in Working /\ Works(p, "commit")
    BY <1>0, <1>1, <1>9, <1>12, FailsWorks DEF Working, Committing
  <2>2. Latest' = Latest /\ Size' = Latest + 1
    BY <1>9, <1>12, <2>1, LeavesFacts
  <2>3. /\ writer'[p].pc = "commit" /\ writer'[p].id = writer[p].id
        /\ writer'[p].base = writer[p].base /\ writer'[p].op = writer[p].op
        /\ owner' = p
        /\ writer'[p].id \in 1..ops' /\ writer'[p].base <= writer'[p].id
        /\ writer'[p].op # "none"
        /\ Current(p)' <=> Current(p)
        /\ Audited(writer[p])' = Audited(writer[p])
    BY <1>1, <2>1, OwnStep
  <2>4. Holds(p)'
    BY <1>2, <2>3 DEF Holds
  <2>5. Commits(p)'
    BY <1>6, <1>9, <1>12, <2>2, <2>3 DEF Commits
  <2>6. Begins(p)' /\ Follows(p)' /\ Edits(p)'
    BY <2>3 DEF Begins, Follows, Edits, Beginning, Copying
  <2> QED BY <1>1, <1>4, <2>1, <2>4, <2>5, <2>6, LeavesKept DEF Knows
<1> QED BY <1>7, <1>10, <1>11, <1>12

\* Commit, or the removal of the directory.
LEMMA CommitKept ==
  ASSUME AuditInv, NEW p \in Writers, Commit(p)
  PROVE  AuditInv' /\ Truth' = Truth
<1>0. Typed /\ Shape /\ Knows(p)
  BY DEF AuditInv
<1>1. /\ writer[p].pc = "commit" /\ writer[p].pc \in Working
      /\ UNCHANGED <<owner, pointer, invalidation, live, reader, ops>>
  BY DEF Commit, At, Working, Committing
<1>2. /\ Size = Latest + 1 /\ Current(p) /\ writer[p].op = "audit"
      /\ generations[Size].stage = "staged"
      /\ generations[Size].id = writer[p].id /\ generations[Size].documents = Audited(writer[p])
  BY <1>0, <1>1 DEF Knows, Commits, Holds, Committing
<1>3. Ordered(generations, Latest) /\ Latest \in Nat /\ Len(generations) = Latest + 1
  BY <1>0, <1>2, ShapeIsOrder DEF Ordered, Size
<1>4. Complete = Latest
  BY <1>0, <1>2 DEF Shape
<1>5. Points
  BY <1>1, <1>4 DEF Points
<1>6. CASE generations' = SubSeq(generations, 1, Len(generations) - 1) /\ Fails(p, "release")
  <2>1. /\ Ordered(generations', Latest) /\ Len(generations') = Latest
        /\ \A i \in 1..Latest : generations'[i] = generations[i]
    <3>1. Len(generations) - 1 = Latest /\ Latest \in Latest..Len(generations)
      BY <1>3
    <3> QED BY <1>3, <1>6, <3>1, Shortened
  <2>2. Leaves(p)
    BY <1>0, <1>1, <1>3, <2>1, AuditAssumption DEF Leaves, Prefix, Followed, Typed
  <2> QED BY <1>1, <1>5, <1>6, <2>2, FailKept
<1>7. CASE generations' = Reaches("committed") /\ Goes(p, "pointer")
  <2>1. /\ Ordered(generations', Latest) /\ Len(generations') = Latest + 1
        /\ \A i \in 1..Latest : generations'[i] = generations[i]
        /\ generations'[Latest + 1].id = generations[Latest + 1].id
        /\ generations'[Latest + 1].documents = generations[Latest + 1].documents
        /\ generations'[Latest + 1].stage = "committed"
    <3>1. generations' = Reaching(generations, "committed") /\ "committed" \in Stages
      BY <1>7 DEF Reaches, Reaching, Stages
    <3> QED BY <1>3, <3>1, Restaged
  <2>2. Leaves(p)
    BY <1>0, <1>1, <1>3, <2>1 DEF Leaves, Prefix, Followed, Typed, Size
  <2>3. "pointer" \in Working /\ Works(p, "pointer")
    BY <1>0, <1>1, <1>7, FailsWorks DEF Working, Committing
  <2>4. Latest' = Latest /\ Size' = Latest + 1
    BY <2>1, <2>2, LeavesFacts
  <2>5. /\ writer'[p].pc = "pointer" /\ writer'[p].id = writer[p].id
        /\ writer'[p].base = writer[p].base /\ writer'[p].op = writer[p].op
        /\ owner' = p
        /\ writer'[p].id \in 1..ops' /\ writer'[p].base <= writer'[p].id
        /\ writer'[p].op # "none"
        /\ Current(p)' <=> Current(p)
    BY <1>1, <2>2, <2>3, OwnStep
  <2>6. Holds(p)'
    BY <1>2, <2>5 DEF Holds
  <2>7. Audited(writer[p])' = Audited(writer[p])
    BY <1>1, <2>2, <2>3, OwnStep
  <2>8. Commits(p)'
    BY <1>2, <1>3, <2>1, <2>4, <2>5, <2>7 DEF Commits
  <2>9. Begins(p)' /\ Follows(p)' /\ Edits(p)'
    BY <2>5 DEF Begins, Follows, Edits, Beginning, Copying
  <2> QED BY <1>1, <1>5, <2>2, <2>3, <2>6, <2>8, <2>9, LeavesKept DEF Knows
<1> QED BY <1>6, <1>7 DEF Commit

\* WritePointer, to a generation that does not count yet.
LEMMA WritePointerKept ==
  ASSUME AuditInv, NEW p \in Writers, WritePointer(p)
  PROVE  AuditInv' /\ Truth' = Truth
<1>0. Typed /\ Shape /\ Knows(p)
  BY DEF AuditInv
<1>1. /\ writer[p].pc = "pointer" /\ writer[p].pc \in Working /\ writer[p].pc # "idle"
      /\ pointer' \in {pointer, writer[p].id}
      /\ UNCHANGED <<owner, generations, invalidation, live, reader, ops>>
  BY DEF WritePointer, At, Working, Committing
<1>2. /\ Size = Latest + 1 /\ Current(p) /\ writer[p].op = "audit"
      /\ generations[Size].stage = "committed"
      /\ generations[Size].id = writer[p].id /\ generations[Size].documents = Audited(writer[p])
  BY <1>0, <1>1 DEF Knows, Commits, Holds, Committing
<1>3. Latest \in Nat /\ Id(Complete) = writer[p].id
  BY <1>0, <1>2 DEF Shape, Id, Typed, Size
<1>4. pointer' \in 0..MaxOps
  BY <1>0, <1>1, <1>2, AuditedTyped, AuditAssumption DEF Typed
<1>5. Leaves(p) /\ Points
  BY <1>1, <1>3, <1>4, NothingLeaves DEF Points
<1>6. CASE Fails(p, "release")
  BY <1>1, <1>5, <1>6, FailKept
<1>7. CASE pointer' = writer[p].id /\ Goes(p, "activate")
  <2>1. "activate" \in Working /\ Works(p, "activate")
    BY <1>0, <1>1, <1>7, FailsWorks DEF Working, Committing
  <2>2. Latest' = Latest /\ Size' = Size
    BY <1>1, <1>5, LeavesFacts DEF Size
  <2>3. /\ writer'[p].pc = "activate" /\ writer'[p].id = writer[p].id
        /\ writer'[p].base = writer[p].base /\ writer'[p].op = writer[p].op
        /\ owner' = p
        /\ writer'[p].id \in 1..ops' /\ writer'[p].base <= writer'[p].id
        /\ writer'[p].op # "none"
        /\ Current(p)' <=> Current(p)
    BY <1>1, <1>5, <2>1, OwnStep
  <2>4. Holds(p)'
    BY <1>2, <2>3 DEF Holds
  <2>5. Audited(writer[p])' = Audited(writer[p])
    BY <1>1, <1>5, <2>1, OwnStep
  <2>6. Commits(p)'
    BY <1>1, <1>2, <1>7, <2>2, <2>3, <2>5 DEF Commits
  <2>7. Begins(p)' /\ Follows(p)' /\ Edits(p)'
    BY <2>3 DEF Begins, Follows, Edits, Beginning, Copying
  <2> QED BY <1>1, <1>5, <2>1, <2>4, <2>6, <2>7, LeavesKept DEF Knows
<1> QED BY <1>6, <1>7 DEF WritePointer

\* Unpoint, after an invalidation.
LEMMA UnpointKept ==
  ASSUME AuditInv, NEW p \in Writers, Unpoint(p)
  PROVE  AuditInv' /\ Truth' = Truth
<1>0. Typed /\ Shape /\ Knows(p)
  BY DEF AuditInv
<1>1. /\ writer[p].pc = "unpoint" /\ writer[p].pc \in Working
      /\ pointer' \in {pointer, 0}
      /\ UNCHANGED <<owner, generations, invalidation, live, reader, ops>>
  BY DEF Unpoint, At, Working
<1>2. Latest > 0 /\ Serving = 0
  BY <1>0, <1>1 DEF Knows, Edits, Serving, Active
<1>3. Leaves(p) /\ Points
  BY <1>0, <1>1, <1>2, NothingLeaves, AuditAssumption DEF Points, Typed
<1>4. CASE Fails(p, "release")
  BY <1>1, <1>3, <1>4, FailKept
<1>5. CASE Goes(p, "release")
  BY <1>0, <1>1, <1>3, <1>5, FailsWorks, ReleaseKnows, LeavesKept DEF Working
<1> QED BY <1>4, <1>5 DEF Unpoint

-----------------------------------------------------------------------------
(* Steps that change what counts, or the live documents.                     *)

\* The documents stay, or one audit or one edit replaces them.
TruthSteps == Promised!Next \/ Truth' = Truth

\* A generation activated is an audit.
LEMMA AuditStep ==
  ASSUME AuditInv, NEW p \in Writers, writer[p].pc # "idle", Current(p), Truth' = Audited(writer[p])
  PROVE  TruthSteps
<1>1. writer[p].id \in 1..MaxOps
  BY AuditedTyped
<1>2. Promised!Audit(writer[p].id)
  BY DEF Audited, Current, Promised!Audit
<1> QED BY <1>1, <1>2 DEF TruthSteps, Promised!Next

\* A registry that begins to count is an edit.
LEMMA EditStep ==
  ASSUME AuditInv, NEW p \in Writers, writer[p].pc # "idle", Current(p),
         Truth' = [Truth EXCEPT !.registry = Edited(p)]
  PROVE  TruthSteps
<1>1. writer[p].id \in 1..MaxOps
  BY AuditedTyped
<1>2. Truth \in DocumentSets
  BY TruthKnown DEF AuditInv
<1>3. Promised!Edit(writer[p].id)
  BY <1>2 DEF Edited, Current, Promised!Edit, DocumentSets
<1> QED BY <1>1, <1>3 DEF TruthSteps, Promised!Next

\* The generations stay, the live documents or the invalidation change.
LEMMA Rewritten ==
  ASSUME AuditInv, NEW p \in Writers, UNCHANGED <<generations, pointer, reader, ops>>,
         invalidation' \in {invalidation, Id(Latest)}, live' \in DocumentSets,
         Truth.registry.rev <= Truth'.registry.rev,
         \/ live.registry.rev <= live'.registry.rev
         \/ Truth.registry.rev <= live'.registry.rev
  PROVE  /\ Shape' /\ Named' /\ History' /\ \A r \in Readers : Gathers(r)'
         /\ Heirs(p)
         /\ generations' \in Seq(Generations) /\ Len(generations') <= MaxGenerations
         /\ pointer' \in 0..MaxOps /\ invalidation' \in 0..MaxOps
<1>0. /\ Typed /\ Shape /\ Named /\ History /\ Outside
  BY DEF AuditInv
<1>1. /\ Latest' = Latest /\ Complete' = Complete /\ Size' = Size
      /\ \A i \in 0..Latest : Id(i)' = Id(i)
  BY DEF Latest, Activated, Complete, In, Size, Id
<1>2. /\ Latest \in Nat /\ Serving \in {0, Latest} /\ Size \in Nat /\ Latest <= Size
      /\ ops \in Nat
      /\ \A i \in 1..Size : generations[i].documents \in DocumentSets /\ generations[i].id \in 1..MaxOps
  BY <1>0, TruthKnown DEF Shape
<1>3. Ordered(generations, Latest)
  BY <1>0, ShapeIsOrder
<1>4. Ordered(generations', Latest') /\ Prefix(Latest)
  BY <1>1, <1>3 DEF Prefix
<1>5. Shape'
  BY <1>4, ShapeIsOrder
<1>6. History'
  BY <1>0, <1>1, <1>4, HistoryKept
<1>7. Id(Latest) \in {Id(i) : i \in 0..Latest} /\ invalidation \in {Id(i) : i \in 0..Latest}
  BY <1>0, <1>2 DEF Named
<1>8. Named'
  <2>1. invalidation' \in {Id(i)' : i \in 0..Latest'}
    <3>1. PICK i \in 0..Latest : invalidation' = Id(i)
      BY <1>7
    <3>2. invalidation' = Id(i)' /\ i \in 0..Latest'
      BY <1>1, <3>1
    <3> QED BY <3>2
  <2> QED BY <1>0, <1>1, <2>1 DEF Named
<1>9. Serving' = 0 \/ (Serving' = Latest /\ Latest # 0)
  BY <1>1, <1>2, ServingIs
<1>10. Truth' \in DocumentSets
  <2>1. Serving' = 0 => Truth' = live'
    BY ServingIs
  <2>2. Serving' # 0 => Truth' = generations[Latest].documents /\ Latest \in 1..Size
    BY <1>2, <1>9, ServingIs
  <2> QED BY <1>2, <2>1, <2>2
<1>11. ASSUME NEW r \in Readers
       PROVE  Gathers(r)'
  BY <1>1, <1>4, <1>10, GathersKept
<1>12. Heirs(p)
  BY DEF Heirs, Size
<1>13. invalidation' \in 0..MaxOps
  BY <1>0, <1>2, AuditAssumption DEF Typed, Id
<1> QED BY <1>0, <1>5, <1>6, <1>8, <1>11, <1>12, <1>13 DEF Typed

\* The live documents, or the invalidation, change: what is left to show.
LEMMA RewrittenKept ==
  ASSUME AuditInv, NEW p \in Writers, UNCHANGED <<generations, pointer, reader, ops>>,
         invalidation' \in {invalidation, Id(Latest)}, live' \in DocumentSets,
         Truth.registry.rev <= Truth'.registry.rev,
         \/ live.registry.rev <= live'.registry.rev
         \/ Truth.registry.rev <= live'.registry.rev,
         writer[p].pc \in Working, NEW pc \in Working, Works(p, pc),
         Outside', Resolved', Knows(p)'
  PROVE  AuditInv'
<1>1. /\ Shape' /\ Named' /\ History' /\ \A r \in Readers : Gathers(r)'
      /\ Heirs(p)
      /\ generations' \in Seq(Generations) /\ Len(generations') <= MaxGenerations
      /\ pointer' \in 0..MaxOps /\ invalidation' \in 0..MaxOps
  BY Rewritten
<1> QED BY <1>1, Stepped

\* What the owner of the lock knows of itself after any step.
LEMMA OwnFacts ==
  ASSUME AuditInv, NEW p \in Writers, writer[p].pc \in Working, NEW pc \in Working, Works(p, pc)
  PROVE  /\ writer'[p].pc = pc /\ writer'[p].id = writer[p].id
         /\ writer'[p].op = writer[p].op /\ writer'[p].base = writer[p].base
         /\ owner = p /\ owner' = p
         /\ writer'[p].id \in 1..ops' /\ writer'[p].base <= writer'[p].id
         /\ writer'[p].op # "none"
<1>0. Typed /\ Knows(p)
  BY DEF AuditInv
<1>1. /\ writer'[p].pc = pc /\ writer'[p].id = writer[p].id
      /\ writer'[p].op = writer[p].op /\ writer'[p].base = writer[p].base
  BY <1>0, WorksOn
<1>2. writer[p].pc # "idle" /\ owner' = owner /\ ops' = ops
  BY DEF Working, Committing, Copying, Works
<1>3. /\ owner = p
      /\ writer[p].id \in 1..ops
      /\ writer[p].base <= writer[p].id
      /\ writer[p].op # "none"
  BY <1>0, <1>2 DEF Knows, Holds
<1> QED BY <1>1, <1>2, <1>3

\* Activate: the generation of the owner counts from here on.
LEMMA ActivateKept ==
  ASSUME AuditInv, NEW p \in Writers, Activate(p)
  PROVE  AuditInv' /\ TruthSteps
<1>0. /\ Typed /\ Shape /\ Named /\ History /\ Outside /\ Knows(p)
  BY DEF AuditInv
<1>1. /\ writer[p].pc = "activate" /\ writer[p].pc \in Working /\ writer[p].pc # "idle"
      /\ UNCHANGED <<owner, pointer, invalidation, live, reader, ops>>
  BY DEF Activate, At, Working, Committing
<1>2. /\ Size = Latest + 1 /\ Current(p) /\ writer[p].op = "audit" /\ pointer = writer[p].id
      /\ generations[Size].id = writer[p].id /\ generations[Size].documents = Audited(writer[p])
  BY <1>0, <1>1 DEF Knows, Commits, Holds, Committing
<1>3. CASE generations' = generations /\ Fails(p, "release")
  <2>1. Leaves(p) /\ Points
    BY <1>0, <1>1, <1>3, NothingLeaves DEF Typed, Points
  <2> QED BY <1>1, <1>3, <2>1, FailKept DEF TruthSteps
<1>4. ASSUME NEW pc \in Working, pc = "copy registry" \/ pc = "release", Works(p, pc),
             generations' = Reaches("activated")
      PROVE  AuditInv' /\ TruthSteps
  <2> DEFINE d == Audited(writer[p])
  <2>1. /\ Ordered(generations', Latest + 1) /\ Len(generations') = Latest + 1
        /\ \A i \in 1..Latest : generations'[i] = generations[i]
        /\ generations'[Latest + 1].id = writer[p].id
        /\ generations'[Latest + 1].documents = d
    <3>1. Ordered(generations, Latest) /\ Len(generations) = Latest + 1
      BY <1>0, <1>2, ShapeIsOrder DEF Size
    <3>2. generations' = Reaching(generations, "activated") /\ "activated" \in Stages
      BY <1>4 DEF Reaches, Reaching, Stages
    <3> QED BY <1>2, <3>1, <3>2, Restaged
  <2>2. Latest' = Latest + 1 /\ Shape' /\ Complete' = Latest + 1 /\ Size' = Latest + 1
    BY <2>1, ShapeIsOrder DEF Finished, Size
  <2>3. /\ Latest \in Nat /\ ops \in Nat /\ Truth.registry.rev \in Nat
        /\ Latest > 0 => Rev(Latest) <= Truth.registry.rev
        /\ \A i \in 1..Size : generations[i].id \in 1..MaxOps /\ Rev(i) \in Nat
    BY <1>0, TruthKnown
  <2>4. /\ d \in DocumentSets /\ writer[p].id \in 1..MaxOps /\ writer[p].base \in Nat
        /\ Truth.report.rev < writer[p].base /\ writer[p].base + 1 <= ops + 1
        /\ Truth.report.rev \in Nat
    BY <1>1, <1>2, AuditedTyped
  <2>5. /\ d.registry.rev = writer[p].base + 1 /\ d.registry.by = writer[p].id
        /\ d.report.rev = Truth.report.rev + 1 /\ d.report.by = writer[p].id
        /\ d.report.registry = writer[p].base + 1
    BY DEF Audited
  <2> HIDE DEF d
  <2>6. \A i \in 1..Latest : generations'[Latest'].id # generations[i].id
    BY <1>0, <1>2, <2>1, <2>2, <2>3 DEF Named
  <2>7. PICK k \in 0..Latest : invalidation = IF k = 0 THEN 0 ELSE generations[k].id
    BY <1>0 DEF Named, Id
  <2>8. Serving' = Latest + 1 /\ Truth' = d
    <3>1. invalidation # generations'[Latest'].id
      BY <2>1, <2>2, <2>3, <2>4, <2>6, <2>7
    <3>2. Serving' = Latest'
      BY <1>1, <2>2, <2>3, <3>1, ServingIs
    <3> QED BY <2>1, <2>2, <2>3, <3>2, ServingIs
  <2>9. Named'
    <3>1. \A i \in 1..Size' : generations'[i].id = generations[i].id
      BY <1>2, <2>1, <2>2, <2>3
    <3>2. invalidation' \in {Id(i)' : i \in 0..Latest'}
      <4>1. invalidation' = Id(k)' /\ k \in 0..Latest'
        BY <1>1, <2>1, <2>2, <2>3, <2>7 DEF Id
      <4> QED BY <4>1
    <3> QED BY <1>0, <1>1, <1>2, <2>2, <3>1, <3>2 DEF Named
  <2>10. History'
    <3>1. ASSUME NEW i \in 1..Latest'
          PROVE  LET e == generations'[i].documents
                 IN  /\ e.registry.by = e.report.by /\ e.report.registry = e.registry.rev
                     /\ e.report.rev < e.registry.rev /\ e.registry.rev <= ops' + 1
      <4>1. CASE i <= Latest
        BY <1>0, <1>1, <2>1, <2>3, <4>1 DEF History
      <4>2. CASE i = Latest + 1
        BY <1>1, <2>1, <2>4, <2>5, <4>2
      <4> QED BY <2>2, <2>3, <4>1, <4>2
    <3>2. ASSUME NEW i \in 1..Latest', NEW j \in 1..Latest', i < j
          PROVE  Rev(i)' < Rev(j)'
      <4>1. i \in 1..Latest /\ Rev(i)' = Rev(i)
        BY <2>1, <2>2, <2>3, <3>2 DEF Rev
      <4>2. CASE j <= Latest
        <5>1. j \in 1..Latest /\ Rev(j)' = Rev(j)
          BY <2>1, <2>3, <4>2 DEF Rev
        <5> QED BY <1>0, <3>2, <4>1, <5>1 DEF History
      <4>3. CASE j = Latest + 1
        <5>1. Rev(j)' = writer[p].base + 1
          BY <2>1, <2>5, <4>3 DEF Rev
        <5>2. Rev(i) <= Rev(Latest)
          <6>1. i = Latest \/ i < Latest
            BY <2>3, <4>1
          <6>2. Latest \in 1..Latest /\ Latest \in 1..Size /\ i \in 1..Size
            BY <1>2, <2>3, <4>1
          <6>3. Rev(Latest) \in Nat /\ Rev(i) \in Nat
            BY <2>3, <6>2
          <6> QED BY <1>0, <4>1, <6>1, <6>2, <6>3 DEF History
        <5>3. Rev(Latest) <= writer[p].base /\ Latest \in 1..Size /\ i \in 1..Size
          BY <1>2, <2>3, <4>1 DEF Current
        <5> QED BY <2>3, <2>4, <4>1, <5>1, <5>2, <5>3
      <4> QED BY <2>2, <2>3, <4>2, <4>3
    <3> QED BY <3>1, <3>2 DEF History
  <2>11. Outside'
    <3>1. live'.report = NoReport \/ \E i \in 1..Latest' : live'.report = generations'[i].documents.report
      BY <1>0, <1>1, <2>1, <2>2, <2>3 DEF Outside
    <3>2. Serving' # 0
      BY <2>3, <2>8
    <3> QED BY <3>1, <3>2 DEF Outside
  <2>12. Resolved'
    <3>1. Id(Serving)' = writer[p].id
      BY <2>1, <2>3, <2>8 DEF Id
    <3> QED BY <1>1, <1>2, <2>2, <2>3, <3>1 DEF Resolved
  <2>13. ASSUME NEW r \in Readers
         PROVE  Gathers(r)'
    <3>1. Truth.registry.rev <= Truth'.registry.rev
      BY <1>2, <2>4, <2>5, <2>8 DEF Current
    <3>2. Truth.registry.rev <= Rev(Latest)'
      BY <1>2, <2>1, <2>2, <2>4, <2>5 DEF Current, Rev
    <3>3. Prefix(Latest) /\ Ordered(generations', Latest') /\ Truth' \in DocumentSets
          /\ live' \in DocumentSets /\ reader' = reader
      BY <1>0, <1>1, <2>1, <2>2, <2>4, <2>8 DEF Prefix, Typed
    <3>4. live.registry.rev <= live'.registry.rev
      BY <1>0, <1>1, TruthKnown
    <3> QED BY <2>2, <2>6, <3>1, <3>2, <3>3, <3>4, GathersKept
  <2>14. Heirs(p)
    BY <1>2, <2>1, <2>3 DEF Heirs
  <2>15. pc \in Working
    BY DEF Working, Copying
  <2>16. Knows(p)'
    <3>1. /\ writer'[p].pc = pc /\ writer'[p].id = writer[p].id
          /\ writer'[p].op = writer[p].op /\ owner' = p
          /\ writer'[p].id \in 1..ops' /\ writer'[p].base <= writer'[p].id
          /\ writer'[p].op # "none"
      BY <1>1, <1>4, <2>15, OwnFacts
    <3>2. Holds(p)' /\ Begins(p)' /\ Commits(p)' /\ Edits(p)'
      BY <1>4, <3>1 DEF Holds, Begins, Commits, Edits, Beginning, Committing
    <3>3. Follows(p)'
      <4>1. Serving' # 0
        BY <2>3, <2>8
      <4>2. writer'[p].op # "edit" /\ pc # "copy report" /\ pc # "copy catalog"
        BY <1>2, <1>4, <3>1
      <4> QED BY <3>1, <4>1, <4>2 DEF Follows
    <3> QED BY <3>2, <3>3 DEF Knows
  <2>17. /\ generations' \in Seq(Generations) /\ Len(generations') <= MaxGenerations
         /\ pointer' \in 0..MaxOps /\ invalidation' \in 0..MaxOps /\ live' \in DocumentSets
    BY <1>0, <1>1, <1>2, <2>1 DEF Typed, Ordered, Size
  <2>18. TruthSteps
    BY <1>1, <1>2, <2>8, AuditStep DEF d
  <2> QED BY <1>1, <1>4, <2>2, <2>9, <2>10, <2>11, <2>12, <2>13, <2>14, <2>15, <2>16, <2>17, <2>18,
             Stepped
<1>5. CASE generations' = Reaches("activated") /\ Fails(p, "release")
  BY <1>0, <1>1, <1>4, <1>5, FailsWorks DEF Working
<1>6. CASE generations' = Reaches("activated") /\ Goes(p, "copy registry")
  BY <1>0, <1>1, <1>4, <1>6, FailsWorks DEF Working, Copying
<1> QED BY <1>3, <1>5, <1>6 DEF Activate

\* The live documents and the active generation, while the writer copies.
LEMMA CopyFacts ==
  ASSUME AuditInv, NEW p \in Writers, writer[p].pc \in Copying
  PROVE  /\ Typed /\ writer[p].pc \in Working /\ owner = p
         /\ Latest \in 1..Size /\ Serving = Latest /\ Serving # 0
         /\ Truth = generations[Latest].documents /\ Truth \in DocumentSets
         /\ live \in DocumentSets
         /\ writer[p].op = "edit" => Current(p)
<1>0. /\ Typed /\ Shape /\ Named /\ History /\ Outside /\ Knows(p)
  BY DEF AuditInv
<1>1. writer[p].pc \in Working /\ owner = p /\ Serving # 0 /\ (writer[p].op = "edit" => Current(p))
  BY <1>0 DEF Knows, Holds, Follows, Working
<1>2. /\ Truth \in DocumentSets /\ live \in DocumentSets /\ Latest \in Nat
      /\ Serving \in {0, Latest}
      /\ Size \in Nat /\ Latest <= Size
  BY <1>0, TruthKnown DEF Shape
<1>3. Latest \in 1..Size /\ Serving = Latest /\ Truth = generations[Latest].documents
  BY <1>1, <1>2, ServingIs
<1> QED BY <1>0, <1>1, <1>2, <1>3

\* One document copied, or none: only what the writer knows is left to show.
LEMMA CopiedKept ==
  ASSUME AuditInv, NEW p \in Writers, writer[p].pc \in Copying,
         UNCHANGED <<owner, generations, pointer, invalidation, reader, ops>>,
         live' \in DocumentSets, live'.registry \in {live.registry, Truth.registry},
         live'.report \in {live.report, Truth.report},
         NEW pc \in Working, Works(p, pc), Truth' = Truth => Knows(p)'
  PROVE  AuditInv' /\ Truth' = Truth
<1>0. /\ Typed /\ Shape /\ Named /\ History /\ Outside /\ Resolved /\ Knows(p)
  BY DEF AuditInv
<1>1. /\ writer[p].pc \in Working /\ Latest \in 1..Size /\ Serving = Latest
      /\ Truth = generations[Latest].documents
  BY CopyFacts
<1>2. Latest' = Latest /\ Complete' = Complete /\ Id(Latest)' = Id(Latest) /\ Serving' = Serving
      /\ Id(Serving)' = Id(Serving) /\ Id(Complete)' = Id(Complete)
  BY DEF Latest, Activated, Complete, In, Id, Serving, Active
<1>3. Truth' = Truth
  BY <1>1, <1>2, ServingIs
<1>4. Outside'
  <2>1. live'.report = NoReport \/ \E i \in 1..Latest' : live'.report = generations'[i].documents.report
    <3>1. CASE live'.report = live.report
      BY <1>0, <1>2, <3>1 DEF Outside
    <3>2. CASE live'.report = Truth.report
      BY <1>1, <1>2, <3>2 DEF Typed, Size
    <3> QED BY <3>1, <3>2
  <2>2. Serving' # 0
    BY <1>1, <1>2
  <2> QED BY <2>1, <2>2 DEF Outside
<1>5. Resolved'
  BY <1>0, <1>2 DEF Resolved
<1>6. /\ Truth.registry.rev \in Nat /\ live.registry.rev \in Nat
  BY <1>0, TruthKnown
<1>7. Truth.registry.rev <= Truth'.registry.rev
      /\ (live.registry.rev <= live'.registry.rev \/ Truth.registry.rev <= live'.registry.rev)
  BY <1>3, <1>6
<1> QED BY <1>1, <1>3, <1>4, <1>5, <1>7, RewrittenKept

\* The registry of the generation copied, or an error.
LEMMA CopyRegistryKept ==
  ASSUME AuditInv, NEW p \in Writers, CopyRegistry(p)
  PROVE  AuditInv' /\ Truth' = Truth
<1> DEFINE copied == [live EXCEPT !["registry"] = generations[Latest].documents["registry"]]
<1>1. /\ writer[p].pc = "copy registry" /\ writer[p].pc \in Copying
      /\ UNCHANGED <<owner, generations, pointer, invalidation, reader, ops>>
      /\ \/ live' = copied /\ Goes(p, "copy report")
         \/ live' \in {live, copied} /\ Fails(p, "release")
  BY DEF CopyRegistry, Copy, At, Copying
<1>2. /\ Typed /\ writer[p].pc \in Working
      /\ Latest \in 1..Size /\ Serving = Latest /\ Serving # 0
      /\ Truth = generations[Latest].documents
      /\ Truth \in DocumentSets /\ live \in DocumentSets
      /\ writer[p].op = "edit" => Current(p)
  BY <1>1, CopyFacts
<1>3. copied \in DocumentSets /\ copied.registry = Truth.registry /\ copied.report = live.report
  BY <1>2 DEF DocumentSets
<1>4. copied.registry = generations[Latest].documents.registry
  BY <1>2, <1>3
<1> HIDE DEF copied
<1>5. CASE Fails(p, "release")
  <2>1. "release" \in Working /\ Works(p, "release")
    BY <1>1, <1>2, <1>5, FailsWorks DEF Working
  <2>2. Knows(p)'
    BY <1>2, <2>1, ReleaseKnows
  <2>3. live' \in {live, copied}
    BY <1>1
  <2> QED BY <1>1, <1>2, <1>3, <2>1, <2>2, <2>3, CopiedKept
<1>6. CASE live' = copied /\ Goes(p, "copy report")
  <2>1. "copy report" \in Working /\ Works(p, "copy report")
    BY <1>1, <1>2, <1>6, FailsWorks DEF Working, Copying
  <2>2. ASSUME Truth' = Truth
        PROVE  Knows(p)'
    <3>1. /\ writer'[p].pc = "copy report" /\ writer'[p].op = writer[p].op /\ owner' = p
          /\ writer'[p].base = writer[p].base
          /\ writer'[p].id \in 1..ops' /\ writer'[p].base <= writer'[p].id
          /\ writer'[p].op # "none"
      BY <1>2, <2>1, OwnFacts
    <3>2. Holds(p)' /\ Begins(p)' /\ Commits(p)' /\ Edits(p)'
      BY <3>1 DEF Holds, Begins, Commits, Edits, Beginning, Committing
    <3>3. Latest' = Latest /\ Serving' = Serving
      BY <1>1 DEF Latest, Activated, In, Serving, Active, Id
    <3>4. writer[p].op = "edit" => Current(p)'
      BY <1>2, <2>2, <3>1 DEF Current
    <3>5. live'.registry = generations'[Latest'].documents.registry
      BY <1>1, <1>4, <1>6, <3>3
    <3>6. Follows(p)'
      BY <1>2, <3>1, <3>3, <3>4, <3>5 DEF Follows
    <3> QED BY <3>2, <3>6 DEF Knows
  <2> QED BY <1>1, <1>2, <1>3, <1>6, <2>1, <2>2, CopiedKept
<1> QED BY <1>1, <1>5, <1>6

\* The report, behind the registry.
LEMMA CopyReportKept ==
  ASSUME AuditInv, NEW p \in Writers, CopyReport(p)
  PROVE  AuditInv' /\ Truth' = Truth
<1> DEFINE copied == [live EXCEPT !["report"] = generations[Latest].documents["report"]]
<1>1. /\ writer[p].pc = "copy report" /\ writer[p].pc \in Copying
      /\ UNCHANGED <<owner, generations, pointer, invalidation, reader, ops>>
      /\ \/ live' = copied /\ Goes(p, "copy catalog")
         \/ live' \in {live, copied} /\ Fails(p, "release")
  BY DEF CopyReport, Copy, At, Copying
<1>2. /\ Typed /\ writer[p].pc \in Working
      /\ Latest \in 1..Size /\ Serving = Latest /\ Serving # 0
      /\ Truth = generations[Latest].documents
      /\ Truth \in DocumentSets /\ live \in DocumentSets
      /\ writer[p].op = "edit" => Current(p)
  BY <1>1, CopyFacts
<1>3. copied \in DocumentSets /\ copied.report = Truth.report /\ copied.registry = live.registry
  BY <1>2 DEF DocumentSets
<1>4. /\ copied.report = generations[Latest].documents.report
      /\ copied.registry = generations[Latest].documents.registry
  BY <1>1, <1>2, <1>3 DEF AuditInv, Knows, Follows
<1> HIDE DEF copied
<1>5. CASE Fails(p, "release")
  <2>1. "release" \in Working /\ Works(p, "release")
    BY <1>1, <1>2, <1>5, FailsWorks DEF Working
  <2>2. Knows(p)'
    BY <1>2, <2>1, ReleaseKnows
  <2>3. live' \in {live, copied}
    BY <1>1
  <2> QED BY <1>1, <1>2, <1>3, <2>1, <2>2, <2>3, CopiedKept
<1>6. CASE live' = copied /\ Goes(p, "copy catalog")
  <2>1. "copy catalog" \in Working /\ Works(p, "copy catalog")
    BY <1>1, <1>2, <1>6, FailsWorks DEF Working, Copying
  <2>2. ASSUME Truth' = Truth
        PROVE  Knows(p)'
    <3>1. /\ writer'[p].pc = "copy catalog" /\ writer'[p].op = writer[p].op /\ owner' = p
          /\ writer'[p].base = writer[p].base
          /\ writer'[p].id \in 1..ops' /\ writer'[p].base <= writer'[p].id
          /\ writer'[p].op # "none"
      BY <1>2, <2>1, OwnFacts
    <3>2. Holds(p)' /\ Begins(p)' /\ Commits(p)' /\ Edits(p)'
      BY <3>1 DEF Holds, Begins, Commits, Edits, Beginning, Committing
    <3>3. Latest' = Latest /\ Serving' = Serving
      BY <1>1 DEF Latest, Activated, In, Serving, Active, Id
    <3>4. writer[p].op = "edit" => Current(p)'
      BY <1>2, <2>2, <3>1 DEF Current
    <3>5. /\ live'.registry = generations'[Latest'].documents.registry
          /\ live'.report = generations'[Latest'].documents.report
      BY <1>1, <1>4, <1>6, <3>3
    <3>6. Follows(p)'
      BY <1>2, <3>1, <3>3, <3>4, <3>5 DEF Follows
    <3> QED BY <3>2, <3>6 DEF Knows
  <2> QED BY <1>1, <1>2, <1>3, <1>6, <2>1, <2>2, CopiedKept
<1> QED BY <1>1, <1>5, <1>6

\* The catalog: the live documents are those of the generation.
LEMMA CopyCatalogKept ==
  ASSUME AuditInv, NEW p \in Writers, CopyCatalog(p)
  PROVE  AuditInv' /\ Truth' = Truth
<1> DEFINE copied == [live EXCEPT !["catalog"] = generations[Latest].documents["catalog"]]
<1>1. /\ writer[p].pc = "copy catalog" /\ writer[p].pc \in Copying
      /\ UNCHANGED <<owner, generations, pointer, invalidation, reader, ops>>
      /\ \/ live' = copied /\ Goes(p, IF writer[p].op = "edit" THEN "edit" ELSE "release")
         \/ live' \in {live, copied} /\ Fails(p, "release")
  BY DEF CopyCatalog, Copy, At, Copying
<1>2. /\ Typed /\ writer[p].pc \in Working
      /\ Latest \in 1..Size /\ Serving = Latest /\ Serving # 0
      /\ Truth = generations[Latest].documents
      /\ Truth \in DocumentSets /\ live \in DocumentSets
      /\ writer[p].op = "edit" => Current(p)
  BY <1>1, CopyFacts
<1>3. copied \in DocumentSets /\ copied.registry = live.registry /\ copied.report = live.report
      /\ copied.catalog = Truth.catalog
  BY <1>2 DEF DocumentSets
<1>4. copied = generations[Latest].documents
  <2>1. copied.report = Truth.report /\ copied.registry = Truth.registry
    BY <1>1, <1>2, <1>3 DEF AuditInv, Knows, Follows
  <2> QED BY <1>2, <1>3, <2>1 DEF DocumentSets
<1> HIDE DEF copied
<1>5. ASSUME live' \in {live, copied}, Works(p, "release")
      PROVE  AuditInv' /\ Truth' = Truth
  <2>1. "release" \in Working
    BY DEF Working
  <2>2. Knows(p)'
    BY <1>2, <1>5, ReleaseKnows
  <2> QED BY <1>1, <1>2, <1>3, <1>5, <2>1, <2>2, CopiedKept
<1>6. CASE live' = copied /\ writer[p].op = "edit" /\ Goes(p, "edit")
  <2>1. "edit" \in Working /\ Works(p, "edit")
    BY <1>1, <1>2, <1>6, FailsWorks DEF Working
  <2>2. ASSUME Truth' = Truth
        PROVE  Knows(p)'
    <3>1. /\ writer'[p].pc = "edit" /\ owner' = p /\ writer'[p].base = writer[p].base
          /\ writer'[p].id \in 1..ops' /\ writer'[p].base <= writer'[p].id
          /\ writer'[p].op # "none"
      BY <1>2, <2>1, OwnFacts
    <3>2. Current(p)'
      BY <1>2, <1>6, <2>2, <3>1 DEF Current
    <3>3. Holds(p)' /\ Begins(p)' /\ Commits(p)' /\ Follows(p)'
      BY <3>1, <3>2 DEF Holds, Begins, Commits, Follows, Beginning, Committing, Copying
    <3>4. Latest' = Latest
      BY <1>1 DEF Latest, Activated, In
    <3>5. live' = generations'[Latest'].documents
      BY <1>1, <1>4, <1>6, <3>4
    <3>6. Edits(p)'
      BY <3>1, <3>5 DEF Edits
    <3> QED BY <3>3, <3>6 DEF Knows
  <2> QED BY <1>1, <1>2, <1>3, <1>6, <2>1, <2>2, CopiedKept
<1>7. CASE live' = copied /\ writer[p].op # "edit" /\ Goes(p, "release")
  BY <1>1, <1>2, <1>5, <1>7, FailsWorks
<1>8. CASE live' \in {live, copied} /\ Fails(p, "release")
  BY <1>1, <1>2, <1>5, <1>8, FailsWorks
<1> QED BY <1>1, <1>6, <1>7, <1>8

\* An edit of the registry counts at once if the live documents do.
LEMMA EditRegistryKept ==
  ASSUME AuditInv, NEW p \in Writers, EditRegistry(p)
  PROVE  AuditInv' /\ TruthSteps
<1> DEFINE edited == [live EXCEPT !.registry = Edited(p)]
<1>0. /\ Typed /\ Shape /\ Named /\ History /\ Outside /\ Resolved /\ Knows(p)
  BY DEF AuditInv
<1>1. /\ writer[p].pc = "edit" /\ writer[p].pc \in Working /\ writer[p].pc # "idle"
      /\ UNCHANGED <<owner, generations, pointer, invalidation, reader, ops>>
      /\ \/ live' = edited /\ Serving = 0 /\ Goes(p, "release")
         \/ live' = edited /\ Serving # 0 /\ Goes(p, "invalidate")
         \/ live' \in {live, edited} /\ Fails(p, "release")
  BY DEF EditRegistry, At, Working, Edited, Serving
<1>2. Current(p) /\ (Serving # 0 => live = generations[Latest].documents)
  BY <1>0, <1>1 DEF Knows, Holds, Edits
<1>3. /\ Edited(p) \in Registries /\ Truth.report.rev < writer[p].base
      /\ writer[p].base + 1 <= ops + 1
      /\ writer[p].base \in Nat /\ Truth.report.rev \in Nat
  BY <1>1, <1>2, AuditedTyped
<1>4. /\ live \in DocumentSets /\ live.registry.rev \in Nat /\ Latest \in Nat /\ Size \in Nat
      /\ Truth.registry.rev \in Nat /\ Serving \in {0, Latest} /\ Truth \in DocumentSets
      /\ Latest > 0 => Rev(Latest) <= Truth.registry.rev /\ Rev(Latest) \in Nat
  <2>1. Latest > 0 => Latest \in 1..Size
    BY <1>0, TruthKnown DEF Shape
  <2> QED BY <1>0, <2>1, TruthKnown
<1>5. /\ Latest' = Latest /\ Complete' = Complete /\ Id(Latest)' = Id(Latest)
      /\ Serving' = Serving
      /\ Id(Serving)' = Id(Serving) /\ Id(Complete)' = Id(Complete)
      /\ Rev(Latest)' = Rev(Latest)
  BY <1>1 DEF Latest, Activated, Complete, In, Id, Serving, Active, Rev
<1>6. /\ edited \in DocumentSets /\ edited.registry = Edited(p)
      /\ edited.report = live.report /\ edited.registry.rev = writer[p].base + 1
  <2>1. edited \in DocumentSets /\ edited.registry = Edited(p) /\ edited.report = live.report
    BY <1>3, <1>4 DEF DocumentSets
  <2> QED BY <2>1 DEF Edited
<1>7. live' \in DocumentSets /\ live'.report = live.report /\ live' \in {live, edited}
  BY <1>1, <1>4, <1>6
<1>8. Resolved'
  BY <1>0, <1>1, <1>5 DEF Resolved
<1>9. live.registry.rev <= live'.registry.rev /\ Truth = live
  <2>1. Serving # 0 => Truth = generations[Latest].documents
    BY <1>4, ServingIs
  <2>2. Truth = live
    BY <1>2, <2>1, ServingIs
  <2>3. live.registry.rev = writer[p].base
    BY <1>2, <2>2 DEF Current
  <2> HIDE DEF edited
  <2>4. live'.registry.rev = live.registry.rev \/ live'.registry.rev = writer[p].base + 1
    BY <1>6, <1>7
  <2> QED BY <1>3, <1>4, <2>2, <2>3, <2>4
<1>10. TruthSteps /\ Truth.registry.rev <= Truth'.registry.rev
  <2>1. CASE Serving # 0
    <3>1. Truth' = Truth
      BY <1>1, <1>4, <1>5, <2>1, ServingIs
    <3> QED BY <1>4, <3>1 DEF TruthSteps
  <2>2. CASE Serving = 0 /\ live' = live
    <3>1. Truth' = Truth
      BY <1>5, <2>2, ServingIs
    <3> QED BY <1>4, <3>1 DEF TruthSteps
  <2>3. CASE Serving = 0 /\ live' = edited
    <3>1. Truth' = edited /\ Truth' = live' /\ Truth = live
      BY <1>5, <2>3, ServingIs
    <3>2. Truth' = [Truth EXCEPT !.registry = Edited(p)]
      BY <3>1
    <3> HIDE DEF edited
    <3>3. TruthSteps
      BY <1>1, <1>2, <3>2, EditStep
    <3>4. Truth.registry.rev <= Truth'.registry.rev
      BY <1>9, <3>1
    <3> QED BY <3>3, <3>4
  <2> QED BY <1>7, <2>1, <2>2, <2>3
<1> HIDE DEF edited
<1>11. Outside'
  <2>1. live'.report = NoReport \/ \E i \in 1..Latest' : live'.report = generations'[i].documents.report
    BY <1>0, <1>1, <1>5, <1>7 DEF Outside
  <2>2. ASSUME Serving = 0
        PROVE  /\ live'.report.rev < live'.registry.rev /\ live'.registry.rev <= ops' + 1
               /\ Latest' > 0 => Rev(Latest)' < live'.registry.rev
    <3>1. CASE live' = live
      BY <1>0, <1>1, <1>5, <2>2, <3>1 DEF Outside
    <3>2. CASE live' = edited
      <4>1. live'.report.rev < writer[p].base + 1
        BY <1>3, <1>7, <1>9
      <4>2. Latest > 0 => Rev(Latest) < writer[p].base + 1
        BY <1>2, <1>3, <1>4 DEF Current
      <4> QED BY <1>1, <1>3, <1>5, <1>6, <3>2, <4>1, <4>2
    <3> QED BY <1>7, <3>1, <3>2
  <2> QED BY <1>5, <2>1, <2>2 DEF Outside
<1>12. ASSUME NEW pc \in Working, Works(p, pc), Knows(p)'
       PROVE  AuditInv'
  BY <1>1, <1>7, <1>8, <1>9, <1>10, <1>11, <1>12, RewrittenKept
<1>13. CASE Works(p, "release")
  <2>1. "release" \in Working /\ Knows(p)'
    BY <1>1, <1>13, ReleaseKnows DEF Working
  <2> QED BY <1>10, <1>12, <1>13, <2>1
<1>14. CASE live' = edited /\ Serving # 0 /\ Works(p, "invalidate")
  <2>1. "invalidate" \in Working
    BY DEF Working
  <2>2. /\ writer'[p].pc = "invalidate" /\ owner' = p /\ writer'[p].base = writer[p].base
        /\ writer'[p].id = writer[p].id
        /\ writer'[p].id \in 1..ops' /\ writer'[p].base <= writer'[p].id
        /\ writer'[p].op # "none"
    BY <1>1, <1>14, <2>1, OwnFacts
  <2>3. Truth' = Truth
    BY <1>1, <1>4, <1>5, <1>14, ServingIs
  <2>4. Current(p)' /\ Edited(p)' = Edited(p)
    BY <1>2, <2>2, <2>3 DEF Current, Edited
  <2>5. Holds(p)' /\ Begins(p)' /\ Commits(p)' /\ Follows(p)'
    BY <2>2, <2>4 DEF Holds, Begins, Commits, Follows, Beginning, Committing, Copying
  <2>6. live' = [generations'[Latest'].documents EXCEPT !.registry = Edited(p)]
    BY <1>1, <1>2, <1>5, <1>14 DEF edited
  <2>7. Edits(p)'
    BY <1>5, <1>14, <2>2, <2>4, <2>6 DEF Edits
  <2>8. Knows(p)'
    BY <2>5, <2>7 DEF Knows
  <2> QED BY <1>10, <1>12, <1>14, <2>1, <2>8
<1>15. CASE live' \in {live, edited} /\ Fails(p, "release")
  BY <1>0, <1>1, <1>13, <1>15, FailsWorks
<1>16. CASE Goes(p, "release")
  BY <1>0, <1>1, <1>13, <1>16, FailsWorks
<1>17. CASE live' = edited /\ Serving # 0 /\ Goes(p, "invalidate")
  BY <1>0, <1>1, <1>14, <1>17, FailsWorks
<1> QED BY <1>1, <1>15, <1>16, <1>17

\* The registry edited while a generation counted counts once it is invalidated.
LEMMA InvalidateKept ==
  ASSUME AuditInv, NEW p \in Writers, Invalidate(p)
  PROVE  AuditInv' /\ TruthSteps
<1>0. /\ Typed /\ Shape /\ Named /\ History /\ Outside /\ Resolved /\ Knows(p)
  BY DEF AuditInv
<1>1. /\ writer[p].pc = "invalidate" /\ writer[p].pc \in Working /\ writer[p].pc # "idle"
      /\ UNCHANGED <<owner, generations, pointer, live, reader, ops>>
      /\ \/ invalidation' = Id(Latest) /\ Goes(p, "unpoint")
         \/ invalidation' \in {invalidation, Id(Latest)} /\ Fails(p, "release")
  BY DEF Invalidate, At, Working
<1>2. /\ Current(p) /\ Serving # 0
      /\ live = [generations[Latest].documents EXCEPT !.registry = Edited(p)]
  BY <1>0, <1>1 DEF Knows, Holds, Edits
<1>3. /\ Edited(p) \in Registries /\ Truth.report.rev < writer[p].base
      /\ writer[p].base + 1 <= ops + 1
      /\ writer[p].base \in Nat /\ Truth.report.rev \in Nat
  BY <1>1, <1>2, AuditedTyped
<1>4. /\ live \in DocumentSets /\ live.registry.rev \in Nat /\ Latest \in Nat
      /\ Truth.registry.rev \in Nat /\ Serving \in {0, Latest} /\ Truth \in DocumentSets
      /\ Rev(Latest) <= Truth.registry.rev /\ Rev(Latest) \in Nat
  <2>1. Latest \in 1..Size
    BY <1>0, <1>2, TruthKnown DEF Shape
  <2>2. Latest > 0
    BY <1>0, <1>2, TruthKnown
  <2> QED BY <1>0, <2>1, <2>2, TruthKnown
<1>5. /\ Latest' = Latest /\ Complete' = Complete /\ Id(Latest)' = Id(Latest)
      /\ Rev(Latest)' = Rev(Latest)
  BY <1>1 DEF Latest, Activated, Complete, In, Id, Rev
<1>6. Serving = Latest /\ Latest > 0 /\ Truth = generations[Latest].documents
  BY <1>2, <1>4, ServingIs
<1>7. /\ live = [Truth EXCEPT !.registry = Edited(p)]
      /\ live.registry.rev = writer[p].base + 1 /\ live.report = Truth.report
  <2>1. live = [Truth EXCEPT !.registry = Edited(p)]
    BY <1>2, <1>6
  <2>2. live.registry = Edited(p) /\ live.report = Truth.report
    BY <1>4, <2>1 DEF DocumentSets
  <2> QED BY <2>1, <2>2 DEF Edited
<1>8. \/ /\ invalidation' = invalidation /\ Serving' = Serving
         /\ Truth' = Truth /\ Id(Serving)' = Id(Serving)
      \/ invalidation' = Id(Latest) /\ Serving' = 0 /\ Truth' = live
  <2>1. CASE invalidation' = invalidation
    <3>1. Serving' = Serving
      BY <1>1, <1>5, <2>1, ServingIs
    <3> QED BY <1>1, <2>1, <3>1, ServingIs DEF Id
  <2>2. CASE invalidation' = Id(Latest)
    <3>1. Serving' = 0
      BY <1>1, <1>5, <2>2, ServingIs DEF Id
    <3> QED BY <1>1, <2>2, <3>1, ServingIs
  <2> QED BY <1>1, <2>1, <2>2
<1>9. Truth.registry.rev <= Truth'.registry.rev
  <2>1. Truth.registry.rev = writer[p].base
    BY <1>2 DEF Current
  <2>2. Truth'.registry.rev = Truth.registry.rev \/ Truth'.registry.rev = writer[p].base + 1
    BY <1>7, <1>8
  <2> QED BY <1>3, <2>1, <2>2
<1>10. TruthSteps
  <2>1. CASE Truth' = Truth
    BY <2>1 DEF TruthSteps
  <2>2. CASE Truth' = live
    BY <1>1, <1>2, <1>7, <2>2, EditStep
  <2> QED BY <1>8, <2>1, <2>2
<1>11. Outside'
  <2>1. live'.report = NoReport \/ \E i \in 1..Latest' : live'.report = generations'[i].documents.report
    BY <1>0, <1>1, <1>5 DEF Outside
  <2>2. /\ live.report.rev < live.registry.rev
        /\ live.registry.rev <= ops + 1
        /\ Rev(Latest) < live.registry.rev
    <3>1. Rev(Latest) <= writer[p].base
      BY <1>2, <1>4 DEF Current
    <3> QED BY <1>3, <1>4, <1>7, <3>1
  <2> QED BY <1>1, <1>5, <2>1, <2>2 DEF Outside
<1>12. Resolved'
  <2>1. CASE Serving' = 0
    BY <1>5, <1>6, <2>1 DEF Resolved
  <2>2. CASE Serving' = Serving /\ Id(Serving)' = Id(Serving)
    <3>1. Id(Complete)' = Id(Complete)
      BY <1>1, <1>5 DEF Id
    <3> QED BY <1>0, <1>1, <1>2, <1>5, <1>6, <2>2, <3>1 DEF Resolved
  <2> QED BY <1>8, <2>1, <2>2
<1>13. ASSUME NEW pc \in Working, Works(p, pc), Knows(p)'
       PROVE  AuditInv'
  <2>1. invalidation' \in {invalidation, Id(Latest)} /\ live' \in DocumentSets
        /\ live.registry.rev <= live'.registry.rev
    BY <1>1, <1>4
  <2> QED BY <1>1, <1>9, <1>11, <1>12, <1>13, <2>1, RewrittenKept
<1>14. CASE Fails(p, "release")
  <2>1. "release" \in Working /\ Works(p, "release")
    BY <1>0, <1>1, <1>14, FailsWorks DEF Working
  <2> QED BY <1>1, <1>10, <1>13, <2>1, ReleaseKnows
<1>15. CASE invalidation' = Id(Latest) /\ Goes(p, "unpoint")
  <2>1. "unpoint" \in Working /\ Works(p, "unpoint")
    BY <1>0, <1>1, <1>15, FailsWorks DEF Working
  <2>2. /\ writer'[p].pc = "unpoint" /\ owner' = p
        /\ writer'[p].id \in 1..ops' /\ writer'[p].base <= writer'[p].id
        /\ writer'[p].op # "none"
    BY <1>1, <2>1, OwnFacts
  <2>3. Holds(p)' /\ Begins(p)' /\ Commits(p)' /\ Follows(p)'
    BY <2>2 DEF Holds, Begins, Commits, Follows, Beginning, Committing, Copying
  <2>4. Edits(p)'
    BY <1>5, <1>6, <1>15, <2>2 DEF Edits
  <2>5. Knows(p)'
    BY <2>3, <2>4 DEF Knows
  <2> QED BY <1>10, <1>13, <2>1, <2>5
<1> QED BY <1>1, <1>14, <1>15

-----------------------------------------------------------------------------
(* Steps that take or free the lock, or wait for it.                         *)

\* A writer that waits with a number of its own.
LEMMA Ready ==
  ASSUME NEW q \in Writers, writer'[q].pc \in {"idle", "lock"},
         writer'[q].pc = "lock" =>
           /\ writer'[q].op # "none" /\ writer'[q].id \in 1..ops'
           /\ writer'[q].base <= writer'[q].id
           /\ \A i \in 1..Size' : generations'[i].id # writer'[q].id
  PROVE  Knows(q)'
<1>1. writer'[q].pc = "idle" \/ writer'[q].pc = "lock"
  OBVIOUS
<1> QED BY <1>1
    DEF Knows, Holds, Begins, Commits, Follows, Edits, Working, Beginning, Committing, Copying

\* Busy, a request that gives up.
LEMMA BusyKept ==
  ASSUME AuditInv, NEW p \in Writers, Busy(p)
  PROVE  AuditInv' /\ Truth' = Truth
<1>0. Typed /\ Apart /\ Resolved
  BY DEF AuditInv
<1>1. /\ writer[p].pc = "lock" /\ writer' = [writer EXCEPT ![p] = Resting]
      /\ UNCHANGED <<owner, generations, pointer, invalidation, live, reader, ops, faults>>
  BY DEF Busy, files
<1>2. Leaves(p) /\ Points
  BY <1>0, <1>1, NothingLeaves DEF Typed, Points
<1>3. /\ Truth' = Truth /\ Shape' /\ Named' /\ History' /\ Outside' /\ Resolved'
      /\ \A r \in Readers : Gathers(r)'
  BY <1>1, <1>2, FilesLeft
<1>4. Resting \in WriterStates /\ Resting.pc = "idle"
  BY AuditAssumption DEF Resting, WriterStates, Waiting
<1>5. /\ writer' \in [Writers -> WriterStates] /\ writer'[p].pc = "idle"
      /\ \A q \in Writers : q # p => writer'[q] = writer[q]
  BY <1>0, <1>1, <1>4 DEF Typed
<1>6. Typed'
  BY <1>0, <1>1, <1>5 DEF Typed
<1>7. Apart'
  BY <1>0, <1>5 DEF Apart
<1>8. ASSUME NEW q \in Writers
      PROVE  Knows(q)'
  <2>1. CASE q = p
    BY <1>5, <2>1, Ready
  <2>2. CASE q # p
    BY <1>1, <1>5, <2>2, SameKept DEF files
  <2> QED BY <2>1, <2>2
<1> QED BY <1>3, <1>6, <1>7, <1>8 DEF AuditInv

\* Begin, with the next number and the registry it read.
LEMMA BeginKept ==
  ASSUME AuditInv, NEW p \in Writers, NEW op \in {"none", "audit", "edit"}, op # "none",
         Begin(p, op)
  PROVE  AuditInv' /\ Truth' = Truth
<1> DEFINE w == [pc |-> "lock", op |-> op, id |-> ops + 1, base |-> Truth.registry.rev]
<1>0. Typed /\ Shape /\ Named /\ History /\ Outside /\ Apart
  BY DEF AuditInv
<1>1. /\ writer[p].pc = "idle" /\ writer' = [writer EXCEPT ![p] = w]
      /\ ops < MaxOps /\ ops' = ops + 1
      /\ UNCHANGED <<owner, generations, pointer, invalidation, live, reader, faults>>
  BY DEF Begin, files
<1>2. Leaves(p) /\ Points
  BY <1>0, <1>1, NothingLeaves DEF Typed, Points
<1>3. /\ Truth' = Truth /\ Shape' /\ Named' /\ History' /\ Outside' /\ Resolved'
      /\ \A r \in Readers : Gathers(r)'
  BY <1>1, <1>2, FilesLeft
<1>4. /\ ops \in Nat /\ MaxOps \in Nat /\ Truth.registry.rev \in Nat
      /\ Truth.registry.rev <= ops + 1
  BY <1>0, TruthKnown, AuditAssumption
<1>5. /\ ops + 1 \in 0..MaxOps /\ ops + 1 \in 1..ops' /\ ops' \in 0..MaxOps
  BY <1>1, <1>4
<1>6. /\ w \in WriterStates
      /\ w.pc = "lock"
      /\ w.op = op
      /\ w.id = ops + 1
      /\ w.base = Truth.registry.rev
  BY <1>4, <1>5 DEF WriterStates, Waiting
<1> HIDE DEF w
<1>7. /\ writer' \in [Writers -> WriterStates] /\ writer'[p] = w
      /\ \A q \in Writers : q # p => writer'[q] = writer[q]
  BY <1>0, <1>1, <1>6 DEF Typed
<1>8. Typed'
  BY <1>0, <1>1, <1>5, <1>7 DEF Typed
<1>9. \A q \in Writers : writer[q].pc # "idle" => writer[q].id # ops + 1
  <2>1. ASSUME NEW q \in Writers, writer[q].pc # "idle"
        PROVE  writer[q].id # ops + 1
    <3>1. writer[q].id \in 1..ops
      BY <2>1 DEF AuditInv, Knows, Holds
    <3> QED BY <1>4, <3>1
  <2> QED BY <2>1
<1>10. Apart'
  BY <1>0, <1>6, <1>7, <1>9 DEF Apart
<1>11. ASSUME NEW q \in Writers
       PROVE  Knows(q)'
  <2>1. CASE q = p
    <3>1. \A i \in 1..Size' : generations'[i].id # ops + 1
      BY <1>0, <1>1, <1>4, TruthKnown DEF Named, Size
    <3> QED BY <1>4, <1>5, <1>6, <1>7, <2>1, <3>1, Ready
  <2>2. CASE q # p
    BY <1>1, <1>7, <2>2, SameKept DEF files
  <2> QED BY <2>1, <2>2
<1> QED BY <1>3, <1>8, <1>10, <1>11 DEF AuditInv

\* Unlock.
LEMMA UnlockKept ==
  ASSUME AuditInv, NEW p \in Writers, Unlock(p)
  PROVE  AuditInv' /\ Truth' = Truth
<1>0. Typed /\ Apart /\ Resolved
  BY DEF AuditInv
<1>1. /\ writer[p].pc = "release" /\ writer' = [writer EXCEPT ![p] = Resting]
      /\ owner = p /\ owner' = Free
      /\ UNCHANGED <<generations, pointer, invalidation, live, reader, ops, faults>>
  BY DEF Unlock, At, files
<1>2. Leaves(p) /\ Points
  BY <1>0, <1>1, NothingLeaves DEF Typed, Points
<1>3. /\ Truth' = Truth /\ Shape' /\ Named' /\ History' /\ Outside' /\ Resolved'
      /\ (\A r \in Readers : Gathers(r)') /\ Heirs(p)
  BY <1>1, <1>2, FilesLeft
<1>4. Resting \in WriterStates /\ Resting.pc = "idle"
  BY AuditAssumption DEF Resting, WriterStates, Waiting
<1>5. /\ writer' \in [Writers -> WriterStates] /\ writer'[p].pc = "idle"
      /\ \A q \in Writers : q # p => writer'[q] = writer[q]
  BY <1>0, <1>1, <1>4 DEF Typed
<1>6. Typed'
  BY <1>0, <1>1, <1>5 DEF Typed
<1>7. Apart'
  BY <1>0, <1>5 DEF Apart
<1>8. ASSUME NEW q \in Writers
      PROVE  Knows(q)'
  <2>1. CASE q = p
    BY <1>5, <2>1, Ready
  <2>2. CASE q # p
    BY <1>1, <1>3, <1>5, <2>2, OthersWait, WaitingKept
  <2> QED BY <2>1, <2>2
<1> QED BY <1>3, <1>6, <1>7, <1>8 DEF AuditInv

\* What the reconciliation removes.
LEMMA SettledLeaves ==
  ASSUME AuditInv, NEW p \in Writers, generations' = Settled,
         UNCHANGED <<pointer, invalidation, live>>
  PROVE  /\ Leaves(p) /\ Points
         /\ \A i \in 1..Size' : i \in 1..Size /\ generations'[i] = generations[i]
         /\ Size' > Latest => generations'[Size'].stage # "staged"
<1>0. Typed /\ Shape
  BY DEF AuditInv
<1>1. /\ Ordered(generations, Latest) /\ Complete = Finished(generations, Latest)
      /\ Latest \in Nat /\ Size \in Nat /\ Len(generations) = Size /\ Latest <= Size
      /\ Size <= Latest + 1
  BY <1>0, ShapeIsOrder DEF Ordered, Size, Typed, Shape
<1> DEFINE last == Size > Latest /\ generations[Size].stage = "staged"
           k == Size - (IF last THEN 1 ELSE 0)
<1>2. Cardinality(In({"staged"})) = IF last THEN 1 ELSE 0
  BY <1>1, Counts, OrderedCounts
<1>3. generations' = SubSeq(generations, 1, k) /\ k \in Latest..Len(generations)
  BY <1>1, <1>2 DEF Settled, Size
<1>4. k \in Nat /\ (last => k = Latest) /\ (~last => k = Size)
  BY <1>1
<1> HIDE DEF k
<1>5. /\ Ordered(generations', Latest) /\ Len(generations') = k
      /\ \A i \in 1..k : generations'[i] = generations[i]
  BY <1>1, <1>3, Shortened
<1>6. Size' = k
  BY <1>5 DEF Size
<1>7. Leaves(p)
  <2>1. Prefix(Latest) /\ Followed(p) /\ Len(generations') <= MaxGenerations
    BY <1>0, <1>1, <1>3, <1>5, AuditAssumption DEF Prefix, Followed, Typed
  <2> QED BY <1>0, <1>5, <2>1 DEF Leaves, Typed
<1>8. Points
  <2>1. CASE last
    <3>1. Complete = Latest
      BY <1>0, <2>1 DEF Shape
    <3> QED BY <3>1 DEF Points
  <2>2. CASE ~last
    <3>1. Complete' = Finished(generations', Latest)
      BY <1>7, LeavesFacts
    <3>2. Size > Latest => generations'[Size].stage = generations[Size].stage
      BY <1>1, <1>4, <1>5, <2>2
    <3>3. Complete' = Complete /\ Complete \in 0..Size
      BY <1>0, <1>1, <1>4, <1>5, <2>2, <3>1, <3>2 DEF Finished, Shape
    <3>4. Id(Complete)' = Id(Complete)
      BY <1>1, <1>4, <1>5, <2>2, <3>3 DEF Id
    <3> QED BY <3>4 DEF Points
  <2> QED BY <2>1, <2>2
<1>9. \A i \in 1..Size' : i \in 1..Size /\ generations'[i] = generations[i]
  BY <1>1, <1>3, <1>4, <1>5, <1>6
<1>10. Size' > Latest => generations'[Size'].stage # "staged"
  <2>1. ASSUME Size' > Latest
        PROVE  generations'[Size'].stage # "staged"
    <3>1. ~last /\ k = Size /\ Size' \in 1..Size'
      BY <1>1, <1>4, <1>6, <2>1
    <3> QED BY <1>5, <1>6, <2>1, <3>1
  <2> QED BY <2>1
<1> QED BY <1>7, <1>8, <1>9, <1>10

\* Lock, with the reconciliation or without.
LEMMA LockKept ==
  ASSUME AuditInv, NEW p \in Writers, Lock(p)
  PROVE  AuditInv' /\ Truth' = Truth
<1>0. Typed /\ Apart /\ Knows(p)
  BY DEF AuditInv
<1>1. /\ writer[p].pc = "lock" /\ owner = Free /\ owner' = p /\ writer[p].pc # "idle"
      /\ UNCHANGED <<pointer, invalidation, live, reader, ops, faults>>
      /\ \/ generations' = generations /\ Goes(p, "release")
         \/ generations' = Settled /\ Goes(p, "check")
  BY DEF Lock, Goes
<1>2. \A i \in 1..Size : generations[i].id # writer[p].id
  BY <1>0, <1>1 DEF Knows, Begins, Beginning
<1>3. writer[p].id \in 1..ops' /\ writer[p].base <= writer[p].id /\ writer[p].op # "none"
  BY <1>0, <1>1 DEF Knows, Holds
<1>4. ASSUME NEW pc \in Working, Goes(p, pc), Leaves(p), Points,
             Knows(p)' \/ pc = "release"
      PROVE  AuditInv' /\ Truth' = Truth
  <2>1. /\ writer' \in [Writers -> WriterStates]
        /\ writer'[p].pc = pc /\ writer'[p].id = writer[p].id
        /\ writer'[p].op = writer[p].op /\ writer'[p].base = writer[p].base
        /\ \A q \in Writers : q # p => writer'[q] = writer[q]
    BY <1>0, <1>4, GoesOn DEF Goes
  <2>2. /\ Truth' = Truth /\ Shape' /\ Named' /\ History' /\ Outside' /\ Resolved'
        /\ (\A r \in Readers : Gathers(r)') /\ Heirs(p)
        /\ generations' \in Seq(Generations) /\ Len(generations') <= MaxGenerations
    BY <1>1, <1>4, FilesLeft
  <2>3. Typed'
    BY <1>0, <1>1, <2>1, <2>2 DEF Typed
  <2>4. Apart'
    BY <1>0, <1>1, <2>1, <1>4 DEF Apart
  <2>5. Knows(p)'
    <3>1. CASE pc = "release"
      BY <1>1, <1>3, <2>1, <3>1
      DEF Knows, Holds, Begins, Commits, Follows, Edits, Beginning, Committing, Copying
    <3> QED BY <1>4, <3>1
  <2>6. ASSUME NEW q \in Writers, q # p
        PROVE  Knows(q)'
    BY <1>1, <2>1, <2>2, <2>6, OthersWait, WaitingKept
  <2> QED BY <2>2, <2>3, <2>4, <2>5, <2>6 DEF AuditInv
<1>5. CASE generations' = generations /\ Goes(p, "release")
  <2>1. Leaves(p) /\ Points /\ "release" \in Working
    BY <1>0, <1>1, <1>5, NothingLeaves DEF Typed, Points, Working
  <2> QED BY <1>4, <1>5, <2>1
<1>6. CASE generations' = Settled /\ Goes(p, "check")
  <2>1. /\ Leaves(p) /\ Points /\ "check" \in Working
        /\ \A i \in 1..Size' : i \in 1..Size /\ generations'[i] = generations[i]
        /\ Size' > Latest => generations'[Size'].stage # "staged"
    BY <1>1, <1>6, SettledLeaves DEF Working
  <2>2. Latest' = Latest
    BY <2>1, LeavesFacts
  <2>3. /\ writer'[p].pc = "check" /\ writer'[p].id = writer[p].id
        /\ writer'[p].op = writer[p].op /\ writer'[p].base = writer[p].base
    BY <1>0, <1>6, <2>1, GoesOn DEF Goes
  <2>4. \A i \in 1..Size' : generations'[i].id # writer'[p].id
    BY <1>2, <2>1, <2>3
  <2>5. Holds(p)' /\ Begins(p)'
    BY <1>1, <1>3, <2>1, <2>2, <2>3, <2>4 DEF Holds, Begins, Committing
  <2>6. Commits(p)' /\ Follows(p)' /\ Edits(p)'
    BY <2>3 DEF Commits, Follows, Edits, Committing, Copying
  <2>7. Knows(p)'
    BY <2>5, <2>6 DEF Knows
  <2> QED BY <1>4, <1>6, <2>1, <2>7
<1> QED BY <1>1, <1>5, <1>6

\* Die, at any step.
LEMMA DieKept ==
  ASSUME AuditInv, NEW p \in Writers, Die(p)
  PROVE  AuditInv' /\ Truth' = Truth
<1>0. Typed /\ Apart /\ Resolved /\ Knows(p) /\ Shape
  BY DEF AuditInv
<1>1. /\ writer[p].pc # "idle" /\ writer' = [writer EXCEPT ![p] = Resting]
      /\ owner' = (IF owner = p THEN Free ELSE owner) /\ faults' = faults + 1
      /\ UNCHANGED <<pointer, invalidation, live, reader, ops>>
      /\ generations' = generations \/ (writer[p].pc = "discard" /\ generations' \in Remains)
  BY DEF Die
<1>2. Leaves(p) /\ Points
  <2>1. CASE generations' = generations
    BY <1>0, <1>1, <2>1, NothingLeaves DEF Typed, Points
  <2>2. CASE writer[p].pc = "discard" /\ generations' \in Remains
    <3>1. Size = Latest + 1 /\ pointer = Id(Serving)
      BY <1>0, <2>2 DEF Knows, Begins
    <3> QED BY <1>1, <2>2, <3>1, RemainsLeave DEF Points
  <2> QED BY <1>1, <2>1, <2>2
<1>3. /\ Truth' = Truth /\ Shape' /\ Named' /\ History' /\ Outside' /\ Resolved'
      /\ (\A r \in Readers : Gathers(r)') /\ Heirs(p)
      /\ generations' \in Seq(Generations) /\ Len(generations') <= MaxGenerations
  BY <1>1, <1>2, FilesLeft
<1>4. Resting \in WriterStates /\ Resting.pc = "idle"
  BY AuditAssumption DEF Resting, WriterStates, Waiting
<1>5. /\ writer' \in [Writers -> WriterStates] /\ writer'[p].pc = "idle"
      /\ \A q \in Writers : q # p => writer'[q] = writer[q]
  BY <1>0, <1>1, <1>4 DEF Typed
<1>6. Typed'
  BY <1>0, <1>1, <1>3, <1>5 DEF Typed
<1>7. Apart'
  BY <1>0, <1>5 DEF Apart
<1>8. ASSUME NEW q \in Writers
      PROVE  Knows(q)'
  <2>1. CASE q = p
    BY <1>5, <2>1, Ready
  <2>2. CASE q # p /\ owner = p
    BY <1>1, <1>3, <1>5, <2>2, OthersWait, WaitingKept
  <2>3. CASE q # p /\ owner # p
    <3>1. writer[p].pc # "discard"
      BY <1>0, <2>3 DEF Knows, Holds, Working
    <3> QED BY <1>1, <1>5, <2>3, <3>1, SameKept DEF files
  <2> QED BY <2>1, <2>2, <2>3
<1> QED BY <1>3, <1>6, <1>7, <1>8 DEF AuditInv

-----------------------------------------------------------------------------
(* Steps of a reader.                                                        *)

\* A reader changes what it has gathered only.
LEMMA ReadersKeep ==
  ASSUME AuditInv, UNCHANGED <<owner, files, writer, ops, faults>>,
         reader' \in [Readers -> ReaderStates], \A q \in Readers : Gathered(reader'[q])
  PROVE  AuditInv' /\ Truth' = Truth
<1>0. Typed /\ Shape /\ Named /\ History /\ Outside /\ Resolved /\ Apart
  BY DEF AuditInv
<1>1. UNCHANGED <<owner, generations, pointer, invalidation, live, writer, ops, faults>>
  BY DEF files
<1>2. /\ Latest' = Latest /\ Complete' = Complete /\ Size' = Size /\ Serving' = Serving
      /\ Truth' = Truth /\ Id(Latest)' = Id(Latest) /\ Id(Serving)' = Id(Serving)
      /\ Id(Complete)' = Id(Complete) /\ Rev(Latest)' = Rev(Latest)
      /\ \A i : Id(i)' = Id(i) /\ Rev(i)' = Rev(i)
  BY <1>1 DEF Latest, Activated, Complete, In, Size, Serving, Active, Truth, Documents, Id, Rev
<1>4. Typed'
  BY <1>0, <1>1 DEF Typed
<1>5. Shape' /\ Apart' /\ Resolved'
  BY <1>0, <1>1, <1>2 DEF Shape, Apart, Resolved
<1>6. Named'
  <2>1. invalidation' \in {Id(i)' : i \in 0..Latest'}
    BY <1>0, <1>1, <1>2 DEF Named
  <2> QED BY <1>0, <1>1, <1>2, <2>1 DEF Named
<1>7. History'
  BY <1>0, <1>1, <1>2 DEF History, Rev
<1>8. Outside'
  BY <1>0, <1>1, <1>2 DEF Outside
<1>9. ASSUME NEW q \in Writers
      PROVE  Knows(q)'
  BY <1>1, SameKept DEF files
<1>10. ASSUME NEW q \in Readers
       PROVE  Gathers(q)'
  <2>1. Gathered(reader'[q])
    OBVIOUS
  <2>2. {Id(i)' : i \in 0..Latest'} = {Id(i) : i \in 0..Latest}
    BY <1>2
  <2>3. reader'[q].pc = "generations" => reader'[q].invalidation \in {Id(i)' : i \in 0..Latest'}
    BY <2>1, <2>2 DEF Gathered
  <2> QED BY <1>1, <1>2, <2>1, <2>3 DEF Gathers, Gathered, LaterThan
<1> QED BY <1>2, <1>4, <1>5, <1>6, <1>7, <1>8, <1>9, <1>10 DEF AuditInv

\* The same, for one reader.
LEMMA ReaderKeeps ==
  ASSUME AuditInv, NEW r \in Readers, UNCHANGED <<owner, files, writer, ops, faults>>,
         NEW next \in ReaderStates, reader' = [reader EXCEPT ![r] = next], Gathered(next)
  PROVE  AuditInv' /\ Truth' = Truth
<1>1. reader \in [Readers -> ReaderStates] /\ \A q \in Readers : Gathered(reader[q])
  BY DEF AuditInv, Typed, Gathers
<1>2. /\ reader' \in [Readers -> ReaderStates] /\ reader'[r] = next
      /\ \A q \in Readers : q # r => reader'[q] = reader[q]
  BY <1>1
<1> QED BY <1>1, <1>2, ReadersKeep

\* A reader at rest has gathered nothing.
LEMMA QuietGathered ==
  ASSUME AuditInv
  PROVE  Quiet \in ReaderStates /\ Gathered(Quiet)
<1>1. Quiet \in ReaderStates
  BY AuditAssumption DEF Quiet, ReaderStates, NoReport, Reports, Registries
<1>2. Quiet.pc = "idle"
  BY DEF Quiet
<1> QED BY <1>1, <1>2 DEF Gathered

\* StartRead, which remembers what counted.
LEMMA StartReadKept ==
  ASSUME AuditInv, NEW r \in Readers, StartRead(r)
  PROVE  AuditInv' /\ Truth' = Truth
<1> DEFINE next == [Quiet EXCEPT !.pc = "pointer", !.document = "report", !.since = Truth.registry.rev]
<1>1. Truth.registry.rev \in Nat
  BY TruthKnown DEF AuditInv
<1>2. /\ next \in ReaderStates /\ next.pc = "pointer" /\ next.document = "report"
      /\ next.since = Truth.registry.rev
  BY <1>1, QuietGathered DEF ReaderStates, Quiet
<1>3. reader' = [reader EXCEPT ![r] = next] /\ UNCHANGED <<owner, files, writer, ops, faults>>
  BY DEF StartRead, Reads
<1> HIDE DEF next
<1>4. Gathered(next)
  BY <1>1, <1>2 DEF Gathered
<1> QED BY <1>2, <1>3, <1>4, ReaderKeeps

\* ReadPointer.
LEMMA ReadPointerKept ==
  ASSUME AuditInv, NEW r \in Readers, ReadPointer(r)
  PROVE  AuditInv' /\ Truth' = Truth
<1> DEFINE got == reader[r]
           next == [got EXCEPT !.pointer = pointer, !.pc = "invalidation"]
<1>1. got \in ReaderStates /\ pointer \in 0..MaxOps /\ Gathered(got) /\ got.pc = "pointer"
  BY DEF AuditInv, Typed, Gathers, ReadPointer, Reads
<1>2. /\ next \in ReaderStates /\ next.pc = "invalidation" /\ next.document = got.document
      /\ next.since = got.since /\ next.report = got.report /\ next.registry = got.registry
  BY <1>1 DEF ReaderStates
<1>3. reader' = [reader EXCEPT ![r] = next] /\ UNCHANGED <<owner, files, writer, ops, faults>>
  BY DEF ReadPointer, Reads, AuditInv, Typed
<1> HIDE DEF next, got
<1>4. Gathered(next)
  BY <1>1, <1>2 DEF Gathered
<1> QED BY <1>2, <1>3, <1>4, ReaderKeeps

\* Nothing a report of an activated generation is on is newer than the last of them.
LEMMA ReportOld ==
  ASSUME AuditInv, NEW report, \E i \in 1..Latest : report = generations[i].documents.report
  PROVE  /\ Latest \in 1..Size /\ report.registry <= Rev(Latest)
         /\ report.registry = Rev(Latest) => report.by = generations[Latest].documents.registry.by
         /\ report.registry \in Nat /\ Rev(Latest) \in Nat
<1>0. Typed /\ Shape /\ Named /\ History /\ Outside
  BY DEF AuditInv
<1>1. PICK i \in 1..Latest : report = generations[i].documents.report
  OBVIOUS
<1>2. Latest \in Nat /\ Size \in Nat /\ Latest <= Size
  BY <1>0, TruthKnown DEF Shape
<1>3. i \in 1..Size /\ Latest \in 1..Size /\ Latest \in 1..Latest
  BY <1>2
<1>4. Rev(i) \in Nat /\ Rev(Latest) \in Nat
  BY <1>0, <1>3, TruthKnown
<1>5. report.registry = Rev(i) /\ report.by = generations[i].documents.registry.by
  BY <1>0, <1>1 DEF History, Rev
<1>6. i < Latest => Rev(i) < Rev(Latest)
  BY <1>0, <1>3 DEF History
<1>7. i = Latest \/ i < Latest
  BY <1>2
<1> QED BY <1>3, <1>4, <1>5, <1>6, <1>7

\* ReadInvalidation: it tells whether the live documents counted.
LEMMA ReadInvalidationKept ==
  ASSUME AuditInv, NEW r \in Readers, ReadInvalidation(r)
  PROVE  AuditInv' /\ Truth' = Truth
<1> DEFINE got == reader[r]
           next == [got EXCEPT !.invalidation = invalidation, !.pc = "generations"]
<1>0. Typed /\ Shape /\ Named /\ History /\ Outside
  BY DEF AuditInv
<1>1. /\ got \in ReaderStates
      /\ invalidation \in 0..MaxOps
      /\ Gathered(got)
      /\ got.pc = "invalidation"
  BY DEF AuditInv, Typed, Gathers, ReadInvalidation, Reads
<1>2. /\ next \in ReaderStates /\ next.pc = "generations" /\ next.document = got.document
      /\ next.since = got.since /\ next.report = got.report /\ next.registry = got.registry
      /\ next.invalidation = invalidation
  BY <1>1 DEF ReaderStates
<1>3. reader' = [reader EXCEPT ![r] = next] /\ UNCHANGED <<owner, files, writer, ops, faults>>
  BY DEF ReadInvalidation, Reads, AuditInv, Typed
<1>4. got.since \in Nat /\ got.since <= Truth.registry.rev /\ Truth.registry.rev \in Nat
      /\ live.registry.rev \in Nat /\ Latest \in Nat
  BY <1>0, <1>1, TruthKnown DEF Gathered, ReaderStates
<1>5. got.document = "registry" => \E i \in 1..Latest : got.report = generations[i].documents.report
  BY <1>1 DEF Gathered
<1> HIDE DEF next, got
<1>6. ASSUME invalidation = Id(Latest)
      PROVE  LaterThan(next, live.registry.rev) /\ LaterThan(next, Truth.registry.rev)
  <2>1. Serving = 0 /\ Truth = live
    BY <1>6, ServingIs DEF Id
  <2>2. got.document = "registry" => got.report.registry < live.registry.rev
    <3>1. ASSUME got.document = "registry"
          PROVE  got.report.registry < live.registry.rev
      <4>1. /\ got.report.registry <= Rev(Latest)
            /\ got.report.registry \in Nat
            /\ Rev(Latest) \in Nat
        BY <1>5, <3>1, ReportOld
      <4>2. Latest > 0
        BY <1>4, <1>5, <3>1
      <4>3. Rev(Latest) < live.registry.rev
        BY <1>0, <2>1, <4>2 DEF Outside
      <4> QED BY <1>4, <4>1, <4>3
    <3> QED BY <3>1
  <2> QED BY <1>2, <1>4, <2>1, <2>2 DEF LaterThan
<1>7. ASSUME invalidation # Id(Latest)
      PROVE  next.since <= Rev(Latest)
  <2>1. Serving = Latest
    BY <1>7, ServingIs DEF Id
  <2>2. Latest > 0
    BY <1>0, <1>4, <1>7 DEF Named, Id
  <2>3. Truth = generations[Latest].documents
    BY <2>1, <2>2, <1>4, ServingIs
  <2> QED BY <1>2, <1>4, <2>3 DEF Rev
<1>8. Gathered(next)
  BY <1>0, <1>1, <1>2, <1>4, <1>5, <1>6, <1>7 DEF Gathered, Named
<1> QED BY <1>2, <1>3, <1>8, ReaderKeeps

\* One of the three documents taken, from a generation or from outside.
LEMMA TakeKept ==
  ASSUME AuditInv, NEW r \in Readers, UNCHANGED <<owner, files, writer, ops, faults>>,
         reader[r].pc # "idle", NEW documents \in DocumentSets, Take(r, documents),
         \/ documents.report = NoReport
         \/ \E i \in 1..Latest : documents.report = generations[i].documents.report,
         reader[r].since <= documents.registry.rev,
         reader[r].document = "registry" /\ reader[r].report.registry = documents.registry.rev
           => reader[r].report.by = documents.registry.by
  PROVE  AuditInv' /\ Truth' = Truth
<1> DEFINE got == reader[r]
<1>0. Typed
  BY DEF AuditInv
<1>1. /\ got \in ReaderStates
      /\ Gathered(got)
      /\ got.document \in {"report", "registry", "catalog"}
  <2>1. got \in ReaderStates /\ Gathered(got)
    BY DEF AuditInv, Typed, Gathers
  <2>2. got.document # "none" /\ got.document \in {"none", "report", "registry", "catalog"}
    BY <2>1 DEF Gathered, ReaderStates
  <2> QED BY <2>1, <2>2
<1>2. documents.report \in Reports /\ documents.registry \in Registries
  BY DocumentFacts
<1>3. ASSUME NEW next \in ReaderStates, Gathered(next), reader' = [reader EXCEPT ![r] = next]
      PROVE  AuditInv' /\ Truth' = Truth
  BY <1>3, ReaderKeeps
<1>4. CASE reader' = [reader EXCEPT ![r] = Quiet]
  BY <1>3, <1>4, QuietGathered
<1>5. CASE got.document = "report" /\ documents.report # NoReport
  <2> DEFINE next == [got EXCEPT !.report = documents.report, !.document = "registry", !.pc = "pointer"]
  <2>1. /\ next \in ReaderStates /\ next.pc = "pointer" /\ next.document = "registry"
        /\ next.report = documents.report /\ next.since = got.since
    BY <1>1, <1>2 DEF ReaderStates
  <2>2. reader' = [reader EXCEPT ![r] = next]
    BY <1>0, <1>5 DEF Take, Typed
  <2> HIDE DEF next
  <2>3. Gathered(next)
    BY <1>1, <1>5, <2>1 DEF Gathered
  <2> QED BY <1>3, <2>1, <2>2, <2>3
<1>6. CASE got.document = "registry"
  <2> DEFINE next == [got EXCEPT !.registry = documents.registry, !.document = "catalog", !.pc = "pointer"]
  <2>1. /\ next \in ReaderStates /\ next.pc = "pointer" /\ next.document = "catalog"
        /\ next.report = got.report /\ next.since = got.since
        /\ next.registry = documents.registry
    BY <1>1, <1>2 DEF ReaderStates
  <2>2. reader' = [reader EXCEPT ![r] = next]
    BY <1>0, <1>6 DEF Take, Typed
  <2> HIDE DEF next
  <2>3. Gathered(next)
    BY <1>1, <1>6, <2>1 DEF Gathered
  <2> QED BY <1>3, <2>1, <2>2, <2>3
<1>7. CASE got.document = "catalog" /\ Related(got, documents.catalog)
  <2> DEFINE next == [got EXCEPT !.pc = "accepted"]
  <2>1. /\ next \in ReaderStates /\ next.pc = "accepted" /\ next.document = "catalog"
        /\ next.report = got.report /\ next.since = got.since /\ next.registry = got.registry
    BY <1>1, <1>7 DEF ReaderStates
  <2>2. reader' = [reader EXCEPT ![r] = next]
    BY <1>0, <1>7 DEF Take, Typed
  <2>3. got.report.registry = got.registry.rev
    BY <1>7 DEF Related
  <2> HIDE DEF next
  <2>4. Gathered(next)
    BY <1>1, <1>7, <2>1, <2>3 DEF Gathered
  <2> QED BY <1>3, <2>1, <2>2, <2>4
<1>8. \/ reader' = [reader EXCEPT ![r] = Quiet]
      \/ got.document = "report" /\ documents.report # NoReport
      \/ got.document = "registry"
      \/ got.document = "catalog" /\ Related(got, documents.catalog)
  BY <1>0, <1>1 DEF Take, Typed
<1> QED BY <1>4, <1>5, <1>6, <1>7, <1>8

\* ReadGenerations: the document of the generation, or the live one next.
LEMMA ReadGenerationsKept ==
  ASSUME AuditInv, NEW r \in Readers, ReadGenerations(r)
  PROVE  AuditInv' /\ Truth' = Truth
<1> DEFINE got == reader[r]
           active == Active(got.invalidation)
           next == [got EXCEPT !.pc = "live"]
<1>0. Typed /\ Shape /\ Named /\ History /\ Outside
  BY DEF AuditInv
<1>1. /\ UNCHANGED <<owner, files, writer, ops, faults>> /\ got.pc = "generations"
      /\ \/ reader' = [reader EXCEPT ![r] = Quiet]
         \/ active = 0 /\ reader' = [reader EXCEPT ![r] = next]
         \/ active # 0 /\ Take(r, generations[active].documents)
  BY DEF ReadGenerations, Reads, AuditInv, Typed
<1>2. got \in ReaderStates /\ Gathered(got)
  BY DEF AuditInv, Typed, Gathers
<1>3. Latest \in Nat /\ Size \in Nat /\ Latest <= Size
  BY <1>0, TruthKnown DEF Shape
<1>4. CASE reader' = [reader EXCEPT ![r] = Quiet]
  BY <1>1, <1>4, QuietGathered, ReaderKeeps
<1>5. CASE active = 0 /\ reader' = [reader EXCEPT ![r] = next]
  <2>1. /\ next \in ReaderStates /\ next.pc = "live" /\ next.document = got.document
        /\ next.since = got.since /\ next.report = got.report /\ next.registry = got.registry
    BY <1>1, <1>2 DEF ReaderStates
  <2>2. got.invalidation = Id(Latest)
    BY <1>1, <1>2, <1>3, <1>5 DEF Active, Gathered
  <2>3. LaterThan(got, live.registry.rev) /\ LaterThan(got, Truth.registry.rev)
    BY <1>1, <1>2, <2>2 DEF Gathered
  <2> HIDE DEF next
  <2>4. Gathered(next)
    BY <1>1, <1>2, <2>1, <2>3 DEF Gathered, LaterThan
  <2> QED BY <1>1, <1>5, <2>1, <2>4, ReaderKeeps
<1>6. CASE active # 0 /\ Take(r, generations[active].documents)
  <2>1. /\ active = Latest
        /\ got.invalidation # Id(Latest)
        /\ Latest \in 1..Latest
        /\ Latest \in 1..Size
    BY <1>3, <1>6 DEF Active
  <2>2. got.since <= Rev(Latest)
    BY <1>1, <1>2, <2>1 DEF Gathered
  <2>3. generations[Latest].documents \in DocumentSets
    BY <1>0, <2>1, TruthKnown
  <2>4. got.document = "registry" /\ got.report.registry = Rev(Latest)
          => got.report.by = generations[Latest].documents.registry.by
    <3>1. got.document = "registry" => \E i \in 1..Latest : got.report = generations[i].documents.report
      BY <1>1, <1>2 DEF Gathered
    <3> QED BY <3>1, ReportOld
  <2>5. \E i \in 1..Latest : generations[Latest].documents.report = generations[i].documents.report
    BY <2>1
  <2> QED BY <1>1, <1>6, <2>1, <2>2, <2>3, <2>4, <2>5, TakeKept DEF Rev
<1> QED BY <1>1, <1>4, <1>5, <1>6

\* ReadLive: a registry read here is newer than any report.
LEMMA ReadLiveKept ==
  ASSUME AuditInv, NEW r \in Readers, ReadLive(r)
  PROVE  AuditInv' /\ Truth' = Truth
<1>0. Typed /\ Shape /\ Named /\ History /\ Outside /\ Gathered(reader[r])
  BY DEF AuditInv, Gathers
<1>1. UNCHANGED <<owner, files, writer, ops, faults>> /\ reader[r].pc = "live" /\ Take(r, live)
  BY DEF ReadLive, Reads
<1>2. reader[r].since <= live.registry.rev
      /\ (reader[r].document = "registry" => reader[r].report.registry < live.registry.rev)
  BY <1>0, <1>1 DEF Gathered, LaterThan
<1>3. live \in DocumentSets /\ live.registry.rev \in Nat
  BY <1>0, TruthKnown
<1>4. reader[r].document = "registry" /\ reader[r].report.registry = live.registry.rev
        => reader[r].report.by = live.registry.by
  BY <1>2, <1>3
<1>5. live.report = NoReport \/ \E i \in 1..Latest : live.report = generations[i].documents.report
  BY <1>0 DEF Outside
<1> QED BY <1>1, <1>2, <1>3, <1>4, <1>5, TakeKept

-----------------------------------------------------------------------------
(* The theorems.                                                             *)

\* No step breaks the invariant, and a step that changes what counts is an audit
\* or an edit.
LEMMA StepKept ==
  ASSUME AuditInv, [Next]_vars
  PROVE  AuditInv' /\ TruthSteps
<1>1. ASSUME NEW p \in Writers, Begin(p, "audit") \/ Begin(p, "edit")
      PROVE  AuditInv' /\ TruthSteps
  <2>1. AuditInv' /\ Truth' = Truth
    BY <1>1, BeginKept
  <2> QED BY <2>1 DEF TruthSteps
<1>2. ASSUME NEW p \in Writers, Write(p)
      PROVE  AuditInv' /\ TruthSteps
  <2>1. CASE Activate(p)
    BY <2>1, ActivateKept
  <2>2. CASE EditRegistry(p)
    BY <2>2, EditRegistryKept
  <2>3. CASE Invalidate(p)
    BY <2>3, InvalidateKept
  <2>4. CASE Busy(p) \/ Lock(p) \/ Unlock(p) \/ Check(p) \/ Repoint(p) \/ Discard(p)
    <3>1. AuditInv' /\ Truth' = Truth
      BY <2>4, BusyKept, LockKept, UnlockKept, CheckKept, RepointKept, DiscardKept
    <3> QED BY <3>1 DEF TruthSteps
  <2>5. CASE Stage(p) \/ Commit(p) \/ WritePointer(p) \/ Unpoint(p)
    <3>1. AuditInv' /\ Truth' = Truth
      BY <2>5, StageKept, CommitKept, WritePointerKept, UnpointKept
    <3> QED BY <3>1 DEF TruthSteps
  <2>6. CASE CopyRegistry(p) \/ CopyReport(p) \/ CopyCatalog(p)
    <3>1. AuditInv' /\ Truth' = Truth
      BY <2>6, CopyRegistryKept, CopyReportKept, CopyCatalogKept
    <3> QED BY <3>1 DEF TruthSteps
  <2> QED BY <1>2, <2>1, <2>2, <2>3, <2>4, <2>5, <2>6 DEF Write
<1>3. ASSUME NEW p \in Writers, Die(p)
      PROVE  AuditInv' /\ TruthSteps
  BY <1>3, DieKept DEF TruthSteps
<1>4. ASSUME NEW r \in Readers, Read(r)
      PROVE  AuditInv' /\ TruthSteps
  <2>1. CASE Answer(r)
    BY <2>1, QuietGathered, ReaderKeeps DEF Answer, Reads, TruthSteps
  <2>2. CASE StartRead(r) \/ ReadPointer(r) \/ ReadInvalidation(r) \/ ReadGenerations(r) \/ ReadLive(r)
    <3>1. AuditInv' /\ Truth' = Truth
      BY <2>2, StartReadKept, ReadPointerKept, ReadInvalidationKept, ReadGenerationsKept, ReadLiveKept
    <3> QED BY <3>1 DEF TruthSteps
  <2> QED BY <1>4, <2>1, <2>2 DEF Read
<1>5. CASE UNCHANGED vars
  <2>1. UNCHANGED <<owner, files, reader, writer, ops, faults>>
    BY <1>5 DEF vars
  <2>2. reader' \in [Readers -> ReaderStates] /\ \A q \in Readers : Gathered(reader'[q])
    BY <2>1 DEF AuditInv, Typed, Gathers
  <2> QED BY <2>1, <2>2, ReadersKeep DEF TruthSteps
<1> QED BY <1>1, <1>2, <1>3, <1>4, <1>5 DEF Next

\* An approved Genome that was never audited.
LEMMA InitInvariant == Init => AuditInv
<1> SUFFICES ASSUME Init
             PROVE  AuditInv
  OBVIOUS
<1>1. /\ owner = Free /\ generations = <<>> /\ pointer = 0 /\ invalidation = 0
      /\ live = [registry |-> [rev |-> 1, by |-> 0], report |-> NoReport, catalog |-> {}]
      /\ writer = [p \in Writers |-> Resting] /\ reader = [r \in Readers |-> Quiet]
      /\ ops = 0 /\ faults = 0
  BY DEF Init
<1>2. MaxOps \in Nat /\ MaxGenerations \in Nat
  BY AuditAssumption
<1>3. /\ live \in DocumentSets
      /\ live.report = NoReport
      /\ live.report.rev = 0
      /\ live.registry.rev = 1
  BY <1>1, <1>2 DEF DocumentSets, NoReport, Registries, Reports
<1>4. Resting \in WriterStates /\ Resting.pc = "idle"
  BY <1>2 DEF Resting, WriterStates, Waiting
<1>5. Quiet \in ReaderStates /\ Quiet.pc = "idle"
  BY <1>2 DEF Quiet, ReaderStates, NoReport, Registries, Reports
<1>6. Typed
  BY <1>1, <1>2, <1>3, <1>4, <1>5 DEF Typed
<1>7. Ordered(generations, 0) /\ Len(generations) = 0
  BY <1>1 DEF Ordered
<1>8. Latest = 0 /\ Complete = 0
  BY <1>7, Counts, OrderedCounts DEF Finished
<1>9. Shape /\ Named /\ History /\ Apart
  BY <1>1, <1>4, <1>7, <1>8 DEF Shape, Named, History, Apart, Size, Id
<1>10. Serving = 0
  BY <1>1, <1>8, ServingIs
<1>11. Outside /\ Resolved
  BY <1>1, <1>3, <1>8, <1>10 DEF Outside, Resolved, Id
<1>12. ASSUME NEW p \in Writers
       PROVE  Knows(p)
  <2>1. writer[p].pc = "idle"
    BY <1>1, <1>4
  <2> QED BY <2>1
      DEF Knows, Holds, Begins, Commits, Follows, Edits, Working, Beginning, Committing, Copying
<1>13. ASSUME NEW r \in Readers
       PROVE  Gathers(r)
  <2>1. reader[r].pc = "idle"
    BY <1>1, <1>5
  <2> QED BY <2>1 DEF Gathers, Gathered
<1> QED BY <1>6, <1>9, <1>11, <1>12, <1>13 DEF AuditInv

\* The invariant holds of every behaviour: the generations stay a history of
\* activated audits with at most one other behind it, whatever is interrupted.
THEOREM AuditInvariant == Spec => []AuditInv
<1>1. AuditInv /\ [Next]_vars => AuditInv'
  BY StepKept
<1> QED BY InitInvariant, <1>1, PTL DEF Spec

\* The files have their types, and no more than MAX_AUDIT_GENERATIONS are kept.
THEOREM TypeCorrect == Spec => []TypeOK
<1>1. ASSUME AuditInv
      PROVE  TypeOK
  <2>1. Typed
    BY <1>1 DEF AuditInv
  <2>2. \A i \in DOMAIN generations : generations[i] \in Generations
    BY <2>1 DEF Typed
  <2> QED BY <2>1, <2>2 DEF Typed, TypeOK, Generations, Stages
<1> QED BY <1>1, AuditInvariant, PTL

\* readActiveAuditGeneration finds the active generation after every interruption
\* of a writer, unless the removal of a committed generation was torn.
THEOREM AlwaysReadable == Spec => []Readable
<1>1. ASSUME AuditInv
      PROVE  Readable
  <2>0. Typed /\ Shape /\ Named /\ History /\ Outside /\ Resolved
    BY <1>1 DEF AuditInv
  <2>1. /\ Latest \in Nat /\ Size \in Nat /\ Latest <= Size
    BY <2>0, TruthKnown DEF Shape
  <2>2. ~OutOfOrder
    <3>1. ASSUME NEW i \in DOMAIN generations, NEW j \in DOMAIN generations, i < j,
                 generations[i].stage # "activated", generations[j].stage = "activated"
          PROVE  FALSE
      <4>1. i \in 1..Size /\ j \in 1..Size
        BY <2>0 DEF Typed, Size
      <4> QED BY <2>0, <2>1, <3>1, <4>1 DEF Shape
    <3> QED BY <3>1 DEF OutOfOrder
  <2>3. CASE Latest = 0
    <3>1. invalidation = 0 /\ pointer \in {0, Id(Complete)}
      BY <2>0, <2>3, ServingIs DEF Resolved, Id
    <3> QED BY <2>2, <2>3, <3>1 DEF Readable, Broken
  <2>4. CASE Latest > 0 /\ invalidation = Id(Latest)
    BY <2>2, <2>4, <2>1 DEF Readable, Broken
  <2>5. CASE Latest > 0 /\ invalidation # Id(Latest)
    <3>1. Serving = Latest
      BY <2>5, ServingIs DEF Id
    <3>2. pointer \in {Id(Latest), Id(Complete)}
      BY <2>0, <2>1, <2>5, <3>1 DEF Resolved
    <3> QED BY <2>1, <2>2, <2>5, <3>2 DEF Readable, Broken
  <2> QED BY <2>1, <2>3, <2>4, <2>5
<1> QED BY <1>1, AuditInvariant, PTL

\* A report readDriftReport accepts is on the registry it read with it, and that
\* registry is no older than the read.
THEOREM PairsAccepted == Spec => []AcceptedPair
<1>1. ASSUME AuditInv
      PROVE  AcceptedPair
  <2>1. ASSUME NEW r \in Readers, reader[r].pc = "accepted"
        PROVE  /\ reader[r].report.by = reader[r].registry.by
               /\ reader[r].registry.rev >= reader[r].since
    <3>1. Gathered(reader[r]) /\ reader[r] \in ReaderStates
      BY <1>1 DEF AuditInv, Typed, Gathers
    <3>2. reader[r].since \in Nat /\ reader[r].registry.rev \in Nat
      BY <3>1, AuditAssumption DEF ReaderStates, Registries
    <3> QED BY <2>1, <3>1, <3>2 DEF Gathered
  <2> QED BY <2>1 DEF AcceptedPair
<1> QED BY <1>1, AuditInvariant, PTL

\* The documents a reader should see are replaced in one step, by a whole audit
\* or an edit on top of the last: the files implement GovernanceTruth.
THEOREM TruthIsOne == Spec => OneTruth
<1>1. Init => Promised!Init
  <2> SUFFICES ASSUME Init
               PROVE  Promised!Init
    OBVIOUS
  <2>1. AuditInv
    BY InitInvariant
  <2>2. Latest = 0 /\ Serving = 0
    <3>1. Size = 0 /\ Latest \in 0..Size
      BY <2>1 DEF Init, AuditInv, Shape, Size
    <3>2. invalidation = 0
      BY DEF Init
    <3> QED BY <3>1, <3>2, ServingIs
  <2>3. Truth = live
    BY <2>2, ServingIs
  <2> QED BY <2>3 DEF Init, Promised!Init, NoReport, Promised!NoReport
<1>2. AuditInv /\ [Next]_vars => [Promised!Next]_<<Truth.registry, Truth.report, Truth.catalog>>
  BY StepKept DEF TruthSteps
<1> QED BY <1>1, <1>2, AuditInvariant, PTL DEF Spec, OneTruth, Promised!Spec

=============================================================================
