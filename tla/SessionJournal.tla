--------------------------- MODULE SessionJournal ---------------------------
(* The commit protocol of packages/project-adapters/src/workspace-store.ts:  *)
(* a session is a mutable body, an immutable checkpoint and activity event   *)
(* per version, and a head that names the committed version.  saveSession    *)
(* and approveFeatureEvolveApproach write them one file at a time under a    *)
(* commit claim per session; recoverSessionCommits, which every read and     *)
(* every save runs first, takes no claim until it publishes a head.          *)
(* One step is one file operation; a listing is read with its checkpoints    *)
(* and heads, since readSessionCommitHeads refuses a head that the listing   *)
(* does not authenticate.  Creating and writing a claim is one step, and so  *)
(* is comparing and unlinking a file.                                        *)
EXTENDS Naturals, Sequences, FiniteSets

CONSTANTS
  Source,       \* the Feature EVOLVE session
  Draft,        \* the execution session its approval creates
  Contents,     \* what a session record may hold
  Approved,     \* the contents of an approved Source
  Requests,     \* requests being served
  Servers,      \* studio server processes
  ServerOf,     \* the process that serves a request
  None, Dead,   \* no record, no claim; the claim of a process that died
  Rollback,     \* whether a save may return to an earlier committed content
  MaxVersion,   \* MAX_SESSION_HISTORY_ENTRIES
  MaxDeaths,    \* bound on deaths of a server
  MaxFailures   \* bound on failing file operations

ASSUME JournalAssumption ==
  /\ Source # Draft
  /\ Approved \subseteq Contents
  /\ {None, Dead} \cap (Contents \cup Requests) = {}
  /\ None # Dead
  /\ ServerOf \in [Requests -> Servers]
  /\ Rollback \in BOOLEAN
  /\ {MaxVersion, MaxDeaths, MaxFailures} \subseteq Nat

VARIABLES
  body,      \* sessions/<id>.json
  head,      \* activity/<id>.session-head.json
  ckpt,      \* activity/<event>.session-checkpoint.json, by session
  event,     \* activity/<event>.json, by session
  claim,     \* sessions/.<id>.session-commit.claim
  req,       \* what each request is doing
  deaths, failures

files == <<body, head, ckpt, event, claim>>
vars == <<body, head, ckpt, event, claim, req, deaths, failures>>

Sessions == {Source, Draft}
NoHead == [v |-> 0, c |-> None]
Heads == {NoHead} \cup [v : 1..MaxVersion, c : Contents]

\* A file is named after its content and version; its creator stands for the
\* inode that unlinkCreatedFileIfOwned compares.
Files == [v : 1..MaxVersion, c : Contents, by : Requests]
Named(set, f) == {g \in set : g.v = f.v /\ g.c = f.c}

Unseen == [ckpt |-> [s \in Sessions |-> {}], event |-> [s \in Sessions |-> {}],
           head |-> [s \in Sessions |-> NoHead]]
Idle == [pc |-> "idle", goal |-> "load", job |-> <<>>, at |-> 1, orig |-> None,
         seen |-> Unseen, todo |-> {}, s |-> None]

Init ==
  /\ body = [s \in Sessions |-> None]
  /\ head = [s \in Sessions |-> NoHead]
  /\ ckpt = [s \in Sessions |-> {}]
  /\ event = [s \in Sessions |-> {}]
  /\ claim = [s \in Sessions |-> None]
  /\ req = [r \in Requests |-> Idle]
  /\ deaths = 0
  /\ failures = 0

-----------------------------------------------------------------------------
At(r, pc) == req[r].pc = pc
Goto(r, pc) == req' = [req EXCEPT ![r].pc = pc]

\* The request throws or returns; its memory is gone.
End(r) == req' = [req EXCEPT ![r] = Idle]

Item(r) == req[r].job[req[r].at]
Last(r) == req[r].at = Len(req[r].job)
Held(r) == {s \in Sessions : claim[s] = r}

MayFail == failures < MaxFailures
Fails == MayFail /\ failures' = failures + 1

\* Every head names an existing checkpoint (readSessionCommitHeads).
Authenticated ==
  \A s \in Sessions : head[s].v > 0 =>
    \E f \in ckpt[s] : f.v = head[s].v /\ f.c = head[s].c

\* Every checkpoint has its event and the reverse (assertActivityJournalPairing).
Paired ==
  \A s \in Sessions :
    /\ \A f \in ckpt[s] : Named(event[s], f) # {}
    /\ \A e \in event[s] : Named(ckpt[s], e) # {}

Contiguous(set) == {f.v : f \in set} = 1..Cardinality(set)

Future(r, s) == {f \in req[r].seen.ckpt[s] : f.v > req[r].seen.head[s].v}

-----------------------------------------------------------------------------
(* Requests.  Contents carry timestamps, so a save normally brings one that  *)
(* is nowhere yet or retries the current one; safe-execution-store.ts also   *)
(* saves back the very record it started from (Rollback).                    *)

InUse(s) ==
  {f.c : f \in UNION {ckpt[s] \cup req[r].seen.ckpt[s] : r \in Requests}} \cup {body[s]} \cup
  UNION {{req[r].job[i].c : i \in {j \in 1..Len(req[r].job) : req[r].job[j].s = s}} :
           r \in Requests}

Savable(s) ==
  (Contents \ (Approved \cup InUse(s))) \cup
  {f.c : f \in {g \in ckpt[s] : /\ g.v <= head[s].v
                                /\ (Rollback /\ s = Draft) \/ (g.v = head[s].v /\ body[s] = g.c)}}

\* A draft exists from its approval on; an approved source is never saved again
\* (canTransitionLearnSession, over the record loaded under the claim).
Open(s) == IF s = Draft THEN head[Draft].v > 0 ELSE body[Source] \notin Approved

\* Writers of one session hold its transition claim (withLearnTransitionClaim).
Writing(s) == \E r \in Requests : \E i \in 1..Len(req[r].job) : req[r].job[i].s = s

BeginLoad(r) ==
  /\ At(r, "idle")
  /\ Goto(r, "list")
  /\ UNCHANGED <<files, deaths, failures>>

\* A save that does not recover before it takes its claim.
BeginSaveUnrecovered(r) ==
  /\ At(r, "idle")
  /\ \E s \in Sessions : \E c \in Savable(s) :
       /\ Open(s) /\ ~Writing(s)
       /\ req' = [req EXCEPT ![r].pc = "claim", ![r].goal = "save",
                             ![r].job = <<[s |-> s, c |-> c, v |-> 0]>>]
  /\ UNCHANGED <<files, deaths, failures>>

BeginSave(r) ==
  /\ At(r, "idle")
  /\ \E s \in Sessions : \E c \in Savable(s) :
       /\ Open(s) /\ ~Writing(s)
       /\ req' = [req EXCEPT ![r].pc = "list", ![r].goal = "save",
                             ![r].job = <<[s |-> s, c |-> c, v |-> 0]>>]
  /\ UNCHANGED <<files, deaths, failures>>

\* The pair with the draft first.
PairDraftFirst(approval, draft) ==
  <<[s |-> Draft, c |-> draft, v |-> 0], [s |-> Source, c |-> approval, v |-> 0]>>

\* The records an approval writes, in the order of their bodies.
Pair(approval, draft) ==
  <<[s |-> Source, c |-> approval, v |-> 0], [s |-> Draft, c |-> draft, v |-> 0]>>

BeginApprove(r) ==
  /\ At(r, "idle")
  /\ body[Draft] = None
  /\ ~Writing(Source) /\ ~Writing(Draft)
  /\ \E approval \in Approved \ InUse(Source), draft \in Savable(Draft) :
       req' = [req EXCEPT ![r].pc = "list", ![r].goal = "approve",
                          ![r].job = Pair(approval, draft)]
  /\ UNCHANGED <<files, deaths, failures>>

-----------------------------------------------------------------------------
(* recoverSessionCommits                                                     *)

List(r) ==
  /\ At(r, "list")
  /\ IF Authenticated
     THEN req' = [req EXCEPT ![r].pc = "check",
            ![r].seen = [ckpt |-> ckpt, event |-> event, head |-> head],
            ![r].todo = {s \in Sessions :
                           \/ ~Contiguous(ckpt[s])
                           \/ \E f \in ckpt[s] : f.v > head[s].v}]
     ELSE End(r)
  /\ UNCHANGED <<files, deaths, failures>>

\* A live claim refuses the recovery, a dead one is removed.
Check(r) ==
  /\ At(r, "check")
  /\ \E s \in req[r].todo :
       \/ /\ \/ ~Contiguous(req[r].seen.ckpt[s])
             \/ claim[s] \in Requests
          /\ End(r)
          /\ UNCHANGED claim
       \/ /\ Contiguous(req[r].seen.ckpt[s])
          /\ claim[s] \notin Requests
          /\ claim' = [claim EXCEPT ![s] = None]
          /\ IF Cardinality(Future(r, s)) = 1
             THEN req' = [req EXCEPT ![r].pc = "compare", ![r].s = s]
             ELSE End(r)
  /\ UNCHANGED <<body, head, ckpt, event, deaths, failures>>

Candidate(r) == CHOOSE f \in Future(r, req[r].s) : TRUE

\* The body against the head and the candidate the listing showed.
Compare(r) ==
  LET s == req[r].s
      f == Candidate(r)
      listed == Named(req[r].seen.event[s], f) # {}
      asHead == body[s] = req[r].seen.head[s].c
  IN  /\ At(r, "compare")
      /\ \/ listed /\ body[s] = f.c /\ Goto(r, "publish")
         \/ listed /\ body[s] # f.c /\ asHead /\ Goto(r, "dropEvent")
         \/ ~listed /\ Named(event[s], f) = {} /\ asHead /\ Goto(r, "dropCheckpoint")
         \/ /\ ~asHead \/ (~listed /\ Named(event[s], f) # {})
            /\ ~(listed /\ body[s] = f.c)
            /\ End(r)
      /\ UNCHANGED <<files, deaths, failures>>

\* removeBoundedFileIfOwned: the very file of the listing, or an error.
Replaced(set, f) == f \notin set /\ Named(set, f) # {}

DropEvent(r) ==
  LET s == req[r].s
      e == CHOOSE g \in Named(req[r].seen.event[s], Candidate(r)) : TRUE
  IN  /\ At(r, "dropEvent")
      /\ event' = [event EXCEPT ![s] = @ \ {e}]
      /\ IF Replaced(event[s], e) THEN End(r) ELSE Goto(r, "dropCheckpoint")
      /\ UNCHANGED <<body, head, ckpt, claim, deaths, failures>>

NextSession(r) ==
  req' = [req EXCEPT ![r].todo = @ \ {req[r].s}, ![r].s = None, ![r].pc = "check"]

DropCheckpoint(r) ==
  LET s == req[r].s
      f == Candidate(r)
  IN  /\ At(r, "dropCheckpoint")
      /\ ckpt' = [ckpt EXCEPT ![s] = @ \ {f}]
      /\ IF Replaced(ckpt[s], f) THEN End(r) ELSE NextSession(r)
      /\ UNCHANGED <<body, head, event, claim, deaths, failures>>

PublishClaim(r) ==
  /\ At(r, "publish")
  /\ IF claim[req[r].s] = None
     THEN claim' = [claim EXCEPT ![req[r].s] = r] /\ Goto(r, "publishHead")
     ELSE End(r) /\ UNCHANGED claim
  /\ UNCHANGED <<body, head, ckpt, event, deaths, failures>>

\* A publication that trusts the listing.
StillCandidateAlways(r, s, f) == TRUE

\* Whether the head and the body are still those the recovery decided on.
StillCandidate(r, s, f) == head[s] = req[r].seen.head[s] /\ body[s] = f.c

PublishHead(r) ==
  LET s == req[r].s
      f == Candidate(r)
  IN  /\ At(r, "publishHead")
      /\ IF StillCandidate(r, s, f)
         THEN /\ head' = [head EXCEPT ![s] = [v |-> f.v, c |-> f.c]]
              /\ Goto(r, "publishEnd")
              /\ UNCHANGED claim
         ELSE /\ claim' = [claim EXCEPT ![s] = None]
              /\ End(r)
              /\ UNCHANGED head
      /\ UNCHANGED <<body, ckpt, event, deaths, failures>>

PublishEnd(r) ==
  /\ At(r, "publishEnd")
  /\ claim' = [claim EXCEPT ![req[r].s] = None]
  /\ NextSession(r)
  /\ UNCHANGED <<body, head, ckpt, event, deaths, failures>>

\* Every latest checkpoint is committed, or the recovery fails.
Settled ==
  /\ Authenticated
  /\ \A s \in Sessions : \A f \in ckpt[s] :
       \/ f.v < head[s].v
       \/ f.v = head[s].v /\ f.c = head[s].c

\* A reader lists the records there are; an approval goes on with the body it
\* read, a save with its claim.  A request that recovered after a failing head
\* write is over either way.
Recheck(r) ==
  LET go(orig) == req' = [req EXCEPT ![r].pc = "claim", ![r].at = 1, ![r].orig = orig,
                                     ![r].seen = Unseen]
  IN  /\ At(r, "check") /\ req[r].todo = {}
      /\ \/ Settled /\ req[r].goal = "save" /\ go(None)
         \/ /\ Settled /\ req[r].goal = "load"
            /\ req' = [req EXCEPT ![r].pc = "records", ![r].seen = Unseen]
         \/ /\ Settled /\ req[r].goal = "approve"
            /\ body[Source] = head[Source].c /\ body[Source] \notin {None} \cup Approved
            /\ go(body[Source])
         \/ /\ \/ ~Settled
               \/ req[r].goal = "confirm"
               \/ req[r].goal = "approve" /\ body[Source] \in {None} \cup Approved
               \/ req[r].goal = "approve" /\ body[Source] # head[Source].c
            /\ End(r)
      /\ UNCHANGED <<files, deaths, failures>>

-----------------------------------------------------------------------------
(* listSessionPage: the names of the records, the committed heads, then each *)
(* record, without a claim.  Whatever does not fit ends the attempt (ten are *)
(* made); a load compares its one record alike, listSessions insists on more.*)

Records(r) ==
  /\ At(r, "records")
  /\ req' = [req EXCEPT ![r].pc = "index", ![r].todo = {s \in Sessions : body[s] # None}]
  /\ UNCHANGED <<files, deaths, failures>>

Indexed(s) == head[s].v > 0

Index(r) ==
  /\ At(r, "index")
  /\ IF Authenticated /\ Paired /\ req[r].todo = {s \in Sessions : Indexed(s)}
     THEN req' = [req EXCEPT ![r].pc = "show", ![r].seen.head = head]
     ELSE End(r)
  /\ UNCHANGED <<files, deaths, failures>>

\* Mutant of Matches: the index is shown without looking at the records.
MatchesIndex(r, s) == TRUE

\* A record is shown only as the content its head names.
Matches(r, s) == body[s] = req[r].seen.head[s].c

Show(r) ==
  /\ At(r, "show")
  /\ \/ \E s \in req[r].todo :
          IF Matches(r, s) THEN req' = [req EXCEPT ![r].todo = @ \ {s}] ELSE End(r)
     \/ req[r].todo = {} /\ End(r)
  /\ UNCHANGED <<files, deaths, failures>>

\* A page whose records were all read and compared.
Shown(r) == At(r, "show") /\ req[r].todo = {}

-----------------------------------------------------------------------------
(* saveSession and approveFeatureEvolveApproach after their recovery         *)

AcquireClaim(r) ==
  LET s == Item(r).s
  IN  /\ At(r, "claim")
      /\ IF claim[s] = None
         THEN /\ claim' = [claim EXCEPT ![s] = r]
              /\ IF Last(r) THEN req' = [req EXCEPT ![r].pc = "checkpoint", ![r].at = 1]
                            ELSE req' = [req EXCEPT ![r].at = @ + 1]
         ELSE Goto(r, "release") /\ UNCHANGED claim
      /\ UNCHANGED <<body, head, ckpt, event, deaths, failures>>

\* The version of a save: the current one again for its own content.
PlannedVersion(s, c) == IF head[s].c = c THEN head[s].v ELSE head[s].v + 1

\* What persistSessionActivity demands of the journal before it adds to it.
Plannable(v) == Authenticated /\ Paired /\ v <= MaxVersion

\* persistSessionActivity validates the whole journal and creates the checkpoint.
WriteCheckpoint(r) ==
  LET s == Item(r).s
      f == [v |-> PlannedVersion(s, Item(r).c), c |-> Item(r).c, by |-> r]
      planned == Plannable(f.v)
  IN  /\ At(r, "checkpoint")
      /\ \/ /\ planned /\ head[s].c # f.c /\ Named(ckpt[s], f) = {}
            /\ ckpt' = [ckpt EXCEPT ![s] = @ \cup {f}]
            /\ req' = [req EXCEPT ![r].pc = "event", ![r].job[req[r].at].v = f.v]
            /\ UNCHANGED failures
         \/ /\ planned /\ head[s].c = f.c
            /\ req' = [req EXCEPT ![r].pc = "event", ![r].job[req[r].at].v = f.v]
            /\ UNCHANGED <<ckpt, failures>>
         \/ /\ ~planned \/ (head[s].c # f.c /\ Named(ckpt[s], f) # {})
            /\ Goto(r, "undoJournal")
            /\ UNCHANGED <<ckpt, failures>>
         \/ Fails /\ Goto(r, "undoJournal") /\ UNCHANGED ckpt
      /\ UNCHANGED <<body, head, event, claim, deaths>>

WriteEvent(r) ==
  LET s == Item(r).s
      e == [v |-> Item(r).v, c |-> Item(r).c, by |-> r]
  IN  /\ At(r, "event")
      /\ \/ /\ event' = [event EXCEPT ![s] = IF Named(@, e) = {} THEN @ \cup {e} ELSE @]
            /\ IF Last(r) THEN req' = [req EXCEPT ![r].pc = "body", ![r].at = 1]
               ELSE req' = [req EXCEPT ![r].pc = "checkpoint", ![r].at = @ + 1]
            /\ UNCHANGED failures
         \/ Fails /\ Goto(r, "undoJournal") /\ UNCHANGED event
      /\ UNCHANGED <<body, head, ckpt, claim, deaths>>

\* The source's body before the draft's.
WriteBody(r) ==
  LET s == Item(r).s
  IN  /\ At(r, "body")
      /\ \/ /\ body' = [body EXCEPT ![s] = Item(r).c]
            /\ IF Last(r) THEN Goto(r, "head") ELSE req' = [req EXCEPT ![r].at = @ + 1]
            /\ UNCHANGED failures
         \/ Fails /\ Goto(r, "undoBodies") /\ UNCHANGED body
      /\ UNCHANGED <<head, ckpt, event, claim, deaths>>

\* The journal is undone although the bodies are written.
AfterFailedHeadUndoing(r) == [req EXCEPT ![r].pc = "undoJournal"]

\* Once the bodies are written, only recovery may decide: the journal stays.
AfterFailedHead(r) == [req EXCEPT ![r].pc = "release", ![r].goal = "confirm"]

\* Heads are published in reverse order: the draft's before the approval's.
\* A failing write may or may not have renamed the head into place.
WriteHead(r) ==
  LET s == Item(r).s
      published == [head EXCEPT ![s] = [v |-> Item(r).v, c |-> Item(r).c]]
  IN  /\ At(r, "head")
      /\ \/ /\ head' = published
            /\ IF req[r].at = 1 THEN Goto(r, "release")
                                ELSE req' = [req EXCEPT ![r].at = @ - 1]
            /\ UNCHANGED failures
         \/ /\ Fails
            /\ head' \in {head, published}
            /\ req' = AfterFailedHead(r)
      /\ UNCHANGED <<body, ckpt, event, claim, deaths>>

\* Undoing removes what this request created, newest first: the draft's event
\* and checkpoint, then the source's; a pair that reached its bodies then
\* restores the source body it had loaded.
Created(r, i, set) ==
  LET j == req[r].job[i]
  IN  {f \in set[j.s] : f.by = r /\ f.c = j.c /\ f.v = j.v /\ f.v > head[j.s].v}

Undo(r) ==
  LET left == {i \in 1..Len(req[r].job) : Created(r, i, ckpt) \cup Created(r, i, event) # {}}
      i == CHOOSE n \in left : \A k \in left : k <= n
      s == req[r].job[i].s
  IN  /\ req[r].pc \in {"undoJournal", "undoBodies"}
      /\ \/ /\ left # {} /\ Created(r, i, event) # {}
            /\ event' = [event EXCEPT ![s] = @ \ Created(r, i, event)]
            /\ UNCHANGED <<body, ckpt, req>>
         \/ /\ left # {} /\ Created(r, i, event) = {}
            /\ ckpt' = [ckpt EXCEPT ![s] = @ \ Created(r, i, ckpt)]
            /\ UNCHANGED <<body, event, req>>
         \/ /\ left = {}
            /\ IF At(r, "undoBodies") /\ req[r].goal = "approve"
               THEN body' = [body EXCEPT ![Source] = req[r].orig]
               ELSE UNCHANGED body
            /\ Goto(r, "release")
            /\ UNCHANGED <<ckpt, event>>
      /\ UNCHANGED <<head, claim, deaths, failures>>

\* The claims go one at a time; after a failing head write recovery follows.
Release(r) ==
  /\ At(r, "release")
  /\ \/ /\ Held(r) # {}
        /\ \E s \in Held(r) : claim' = [claim EXCEPT ![s] = None]
        /\ UNCHANGED req
     \/ /\ Held(r) = {}
        /\ IF req[r].goal = "confirm"
           THEN req' = [req EXCEPT ![r] = [Idle EXCEPT !.pc = "list", !.goal = "confirm"]]
           ELSE End(r)
        /\ UNCHANGED claim
  /\ UNCHANGED <<body, head, ckpt, event, deaths, failures>>

-----------------------------------------------------------------------------
\* A server process dies with every request it serves.
Die(x) ==
  /\ deaths < MaxDeaths
  /\ \E r \in Requests : ServerOf[r] = x /\ ~At(r, "idle")
  /\ deaths' = deaths + 1
  /\ req' = [r \in Requests |-> IF ServerOf[r] = x THEN Idle ELSE req[r]]
  /\ claim' = [s \in Sessions |->
                 IF claim[s] \in Requests /\ ServerOf[claim[s]] = x THEN Dead ELSE claim[s]]
  /\ UNCHANGED <<body, head, ckpt, event, failures>>

Recover(r) ==
  \/ List(r) \/ Check(r) \/ Compare(r) \/ DropEvent(r) \/ DropCheckpoint(r)
  \/ PublishClaim(r) \/ PublishHead(r) \/ PublishEnd(r) \/ Recheck(r)
  \/ Records(r) \/ Index(r) \/ Show(r)

Write(r) ==
  \/ AcquireClaim(r) \/ WriteCheckpoint(r) \/ WriteEvent(r) \/ WriteBody(r)
  \/ WriteHead(r) \/ Undo(r) \/ Release(r)

Next ==
  \/ \E r \in Requests : BeginLoad(r) \/ BeginSave(r) \/ BeginApprove(r)
  \/ \E r \in Requests : Recover(r) \/ Write(r)
  \/ \E x \in Servers : Die(x)

Spec == Init /\ [][Next]_vars

-----------------------------------------------------------------------------
(* Properties.                                                               *)

Jobs == UNION {[1..n -> [s : Sessions, c : Contents, v : 0..MaxVersion]] : n \in 0..2}

\* Records, claims and requests keep their types.
TypeOK ==
  /\ body \in [Sessions -> Contents \cup {None}]
  /\ head \in [Sessions -> Heads]
  /\ ckpt \in [Sessions -> SUBSET Files]
  /\ event \in [Sessions -> SUBSET Files]
  /\ claim \in [Sessions -> Requests \cup {None, Dead}]
  /\ deaths \in 0..MaxDeaths /\ failures \in 0..MaxFailures
  /\ \A r \in Requests :
       /\ req[r].job \in Jobs
       /\ req[r].at \in 1..2
       /\ req[r].orig \in Contents \cup {None}
       /\ req[r].todo \subseteq Sessions
       /\ req[r].s \in Sessions \cup {None}

\* The committed contents of a session, oldest first; None where a committed
\* checkpoint is missing.
CommittedAt(s, v) ==
  IF \E f \in ckpt[s] : f.v = v /\ (v = head[s].v => f.c = head[s].c)
  THEN (CHOOSE f \in ckpt[s] : f.v = v /\ (v = head[s].v => f.c = head[s].c)).c
  ELSE None
History == [s \in Sessions |-> [v \in 1..head[s].v |-> CommittedAt(s, v)]]

Committed == INSTANCE CommittedSessions WITH history <- History

\* Whatever recoveries, writers, failures and deaths do to each other's files,
\* committed history only grows at its end.
HistoryKept == Committed!Spec

\* The checkpoints of a session stay contiguous, with one candidate at most
\* beyond the head: otherwise every read of the project fails for good.
Unambiguous ==
  \A s \in Sessions :
    /\ Contiguous(ckpt[s])
    /\ Cardinality({f \in ckpt[s] : f.v > head[s].v}) <= 1

\* An execution draft is never committed before the approval that created it
\* is committed or certain to be: checkpointed, with its event and its body.
CommittedAfterApproval ==
  head[Draft].v > 0 =>
    \E f \in ckpt[Source] :
      /\ f.c \in Approved
      /\ \/ f.v <= head[Source].v
         \/ body[Source] = f.c /\ Named(event[Source], f) # {}

\* No page shows an execution draft beside a source that still awaits its
\* decision, although the two heads are published one after the other.
ShownAfterApproval ==
  \A r \in Requests :
    Shown(r) /\ req[r].seen.head[Draft].v > 0 => req[r].seen.head[Source].c \in Approved

\* An approval and the draft it creates are seen in that order, in the files
\* and by everybody who reads them without a claim.
DraftHasApproval == CommittedAfterApproval /\ ShownAfterApproval

\* A record nobody is writing is the committed one, or the next recovery can
\* commit it.  (A crash inside an approval's rollback is excepted: it leaves
\* the approved body without the journal that was removed first.)
Readable ==
  \A s \in Sessions :
    claim[s] \notin Requests /\ body[s] \notin {None} \cup Approved =>
      \/ body[s] = head[s].c
      \/ \E f \in ckpt[s] : /\ f.v = head[s].v + 1 /\ f.c = body[s]
                            /\ Named(event[s], f) # {}

\* Whatever died or failed, the next recovery finds one way to go on, and a
\* record that later readers accept.
Recoverable == Unambiguous /\ Readable
=============================================================================
