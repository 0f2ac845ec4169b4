----------------------- MODULE MutationTransactionProofs -----------------------
(* The safety properties of MutationTransaction as theorems of Spec, for   *)
(* any number of executors, servers, paths and faults.                     *)
EXTENDS MutationTransaction, TLAPS

-----------------------------------------------------------------------------
(* The inductive invariant.                                                *)

(* Where an executor may be.                                               *)
Places == Acquiring \cup Preparing \cup Applying \cup Releasing \cup Ended

(* The executors of a server that died are done or dead.                   *)
DeadServers == \A e \in Executors : ServerOf[e] \notin up => pc[e] \in Ended

(* What a claim tells about the executor it names.                         *)
ClaimNames ==
  claim # NoClaim =>
    LET e == claim.by IN
    /\ pc[e] \notin {"START", "CREATE", "TAKEOVER", "UNLINK"}
    /\ ~ claim.whole => pc[e] \in {"WRITE_CLAIM", "DEAD"}
    /\ claim.phase = "APPLYING" =>
         claim.whole /\ pc[e] \in Applying \cup Releasing \cup Ended
    /\ pc[e] = "DONE" => outcome[e] = "RECONCILIATION_REQUIRED"

(* An executor that changes files, or is about to, owns the claim.         *)
Owned ==
  \A e \in Executors :
    /\ pc[e] = "PUBLISH" => claim = Mine(e, "PREPARING")
    /\ pc[e] \in Applying => claim = Mine(e, "APPLYING")

(* Nobody is about to remove the claim of an executor that has looked at   *)
(* its targets for the second time.                                        *)
Committed(e) ==
  claim # NoClaim /\ claim.by = e /\ (pc[e] \in {"BEGIN", "PUBLISH"} \/ claim.phase = "APPLYING")

Undisturbed ==
  \A e \in Executors : Committed(e) =>
    /\ \A f \in Executors \ {e} : pc[f] \notin {"UNLINK", "REMOVE"}
    /\ review.step = "CLEAR" => claim = review.claim

(* A human who has inspected a claim holds it.                             *)
ReviewTyped == review.step # "IDLE" => review.claim \in Claim

(* A human gets past the confirmation only for an executor that has        *)
(* stopped, or stops without another look at the files.                    *)
ReviewsEnded ==
  /\ ReviewTyped
  /\ review.step \in {"RECORD", "RECHECK", "CLEAR"} =>
       review.claim.phase = "APPLYING" /\ pc[review.claim.by] \in Ended \cup {"REMOVE"}
  /\ review.step \in {"RECHECK", "CLEAR"} => Reviewed \in recovered

ClaimInv == DeadServers /\ ClaimNames /\ Owned /\ Undisturbed /\ ReviewsEnded

(* An outcome is reported when the work on the files is over.              *)
Reported ==
  \A e \in Executors :
    /\ pc[e] \in Acquiring \cup Preparing \cup Applying => outcome[e] = "NONE"
    /\ pc[e] \in Releasing \cup {"DONE"} => outcome[e] # "NONE"
    /\ pc[e] = "REMOVE" => outcome[e] # "RECONCILIATION_REQUIRED"
    /\ pc[e] \in Acquiring \cup Preparing => written[e] = {} /\ ~ trouble[e]

Harmless == {"NO_TARGET_CHANGE", "FULLY_ROLLED_BACK"}

(* Nothing more is to come from e, and it may have left bytes.             *)
Settled(e) == pc[e] \in Releasing \cup Ended /\ outcome[e] \notin Harmless

(* Whose bytes may stand in a file, or be put back there by the owner of   *)
(* the claim.                                                              *)
Provenance ==
  /\ \A e \in Executors : \A p \in Paths :
       /\ pc[e] \in Acquiring \cup Preparing \/ outcome[e] \in Harmless => file[p] # e
       /\ original[e][p] # e
       /\ pc[e] \in Acquiring \cup {"CAPTURE"} => original[e][p] \notin Executors
  /\ \A e, f \in Executors : \A p \in Paths :
       claim # NoClaim /\ claim.by = f /\ original[f][p] = e => Settled(e)

(* Between an executor's look at a path and its write, edits are exposed.  *)
Looked ==
  \A e \in Executors :
    /\ pc[e] = "WRITE" => file[at[e]] = original[e][at[e]] \/ at[e] \in exposed
    /\ pc[e] = "RESTORE" => file[at[e]] = Intended(e, at[e]) \/ at[e] \in exposed

MutationInv ==
  TypeOK /\ ClaimInv /\ Reported /\ Provenance /\ Looked /\ UnfinishedIsClaimed

-----------------------------------------------------------------------------
(* The values of the variables.                                            *)

LEMMA InitOperation ==
  ASSUME Init
  PROVE  operation \in [Paths -> {"create", "modify", "delete"}]
<1>1. PICK lists \in Lists : WellFormed(lists) /\ UNION {lists[op] : op \in DOMAIN lists} = Paths
                             /\ operation = Records(lists)
  BY DEF Init
<1>2. DOMAIN lists = {"create", "modify", "delete"} BY DEF Lists
<1>3. ASSUME NEW p \in Paths
      PROVE  (CHOOSE op \in DOMAIN lists : p \in lists[op]) \in {"create", "modify",
           "delete"}
  <2>1. \E op \in DOMAIN lists : p \in lists[op] BY <1>1
  <2> QED BY <1>2, <2>1
<1> QED BY <1>1, <1>3 DEF Records

LEMMA InitType ==
  ASSUME Init
  PROVE  TypeOK /\ ReviewTyped
<1>1. file \in [Paths -> {Absent, Base}] BY DEF Init
<1>2. 1 \in Paths BY MutationAssumption DEF Paths
<1>3. file \in [Paths -> Bytes] BY <1>1 DEF Bytes
<1>4. review \in [step: {"IDLE", "CONFIRM", "RECORD", "RECHECK", "CLEAR"},
                 claim: Claim \cup {NoClaim}, files: [Paths -> Bytes]] /\
                      review.step = "IDLE"
  BY <1>3 DEF Init
<1>5. original \in [Executors -> [Paths -> Bytes]] /\ written \in [Executors -> SUBSET Paths]
   BY <1>3 DEF Init
<1>6. pc \in [Executors -> Places]
  BY DEF Init, Acquiring, Places
<1>7. /\ claim \in Claim \cup {NoClaim} /\ up \subseteq Servers
      /\ recovered \subseteq [claim: Claim, files: [Paths -> Bytes]]
      /\ at \in [Executors -> Paths] /\ retried \in [Executors -> BOOLEAN]
  BY <1>2 DEF Init
<1>8. /\ trouble \in [Executors -> BOOLEAN] /\ outcome \in [Executors -> Outcomes]
      /\ edits \in Nat /\ failures \in Nat /\ deaths \in Nat /\ exposed \subseteq Paths
  BY DEF Init, Outcomes
<1> QED BY <1>3, <1>4, <1>5, <1>6, <1>7, <1>8, InitOperation DEF TypeOK, Places, ReviewTyped

LEMMA TypeCapture ==
  ASSUME TypeOK, NEW e \in Executors, Capture(e)
  PROVE  TypeOK'
<1>. USE MutationAssumption, BytesAssumption DEF TypeOK, Places, Claim, Paths, Mine,
     Acquiring, Preparing, Applying, Releasing, Ended, disk, local, counts, Goto, Step,
          Quiet, Faultless
<1>1. original' \in [Executors -> [Paths -> Bytes]] BY DEF Capture, GivesUp
<1>2. outcome' \in [Executors -> Outcomes] BY DEF Capture, GivesUp, Outcomes
<1>3. pc' \in [Executors -> Places] BY DEF Capture, GivesUp
<1> QED BY <1>1, <1>2, <1>3 DEF Capture, GivesUp

LEMMA VerifiedPath ==
  ASSUME TypeOK, NEW e \in Executors, VerifyTarget(e)
  PROVE  at' \in [Executors -> Paths]
<1>1. at \in [Executors -> Paths] /\ Last \in Nat BY MutationAssumption DEF TypeOK
<1>2. at[e] < Last => at[e] + 1 \in Paths BY <1>1 DEF Paths
<1>3. at' = at \/ (at[e] < Last /\ at' = [at EXCEPT ![e] = @ + 1]) BY DEF VerifyTarget
<1> QED BY <1>1, <1>2, <1>3

LEMMA TypeVerify ==
  ASSUME TypeOK, NEW e \in Executors, VerifyTarget(e)
  PROVE  TypeOK'
<1>. USE MutationAssumption, BytesAssumption DEF TypeOK, Places, Claim, Paths, Mine,
     Acquiring, Preparing, Applying, Releasing, Ended, disk, local, counts, Goto, Step,
          Quiet, Faultless
<1>1. at' \in [Executors -> Paths] BY VerifiedPath
<1>3. pc' \in [Executors -> Places] BY DEF VerifyTarget
<1> QED BY <1>1, <1>3 DEF VerifyTarget

LEMMA RolledBackPaths ==
  ASSUME TypeOK, NEW e \in Executors, RollBack(e)
  PROVE  at' \in [Executors -> Paths] /\ written' \in [Executors -> SUBSET Paths]
<1>1. at \in [Executors -> Paths] /\ written \in [Executors -> SUBSET Paths]
  BY DEF TypeOK, Places
<1>2. \/ at' = at /\ written' = written
      \/ \E p \in written[e] : at' = [at EXCEPT ![e] = p]
                             /\ (written' = written \/ written' = [written
                                  EXCEPT ![e] = @ \ {p}])
   BY DEF RollBack
<1>3. at' \in [Executors -> Paths] BY <1>1, <1>2
<1>4. written' \in [Executors -> SUBSET Paths] BY <1>1, <1>2
<1> QED BY <1>3, <1>4

LEMMA TypeRollBack ==
  ASSUME TypeOK, NEW e \in Executors, RollBack(e)
  PROVE  TypeOK'
<1>. USE MutationAssumption, BytesAssumption DEF TypeOK, Places, Claim, Paths, Mine,
     Acquiring, Preparing, Applying, Releasing, Ended, disk, local, counts, Goto, Step,
          Quiet, Faultless
<1>1. at' \in [Executors -> Paths] BY RolledBackPaths
<1>2. written' \in [Executors -> SUBSET Paths] BY RolledBackPaths
<1>3. pc' \in [Executors -> Places] BY DEF RollBack
<1>4. trouble' \in [Executors -> BOOLEAN] BY DEF RollBack
<1>5. exposed' \subseteq Paths BY DEF RollBack
<1> QED BY <1>1, <1>3, <1>2, <1>4, <1>5 DEF RollBack

LEMMA RestoredPath ==
  ASSUME TypeOK, NEW e \in Executors, Restore(e)
  PROVE  written' \in [Executors -> SUBSET Paths]
<1>1. written \in [Executors -> SUBSET Paths] BY DEF TypeOK, Places
<1>2. written' = [written EXCEPT ![e] = @ \ {at[e]}] BY DEF Restore
<1> QED BY <1>1, <1>2

LEMMA TypeRestore ==
  ASSUME TypeOK, NEW e \in Executors, Restore(e)
  PROVE  TypeOK'
<1>. USE MutationAssumption, BytesAssumption DEF TypeOK, Places, Claim, Paths, Mine,
     Acquiring, Preparing, Applying, Releasing, Ended, disk, local, counts, Goto, Step,
          Quiet, Faultless
<1>1. file' \in [Paths -> Bytes]
  <2>1. file \in [Paths -> Bytes] /\ original[e] \in [Paths -> Bytes] /\ at[e] \in Paths
    OBVIOUS
  <2>2. file' = file \/ file' = [file EXCEPT ![at[e]] = original[e][at[e]]]
    BY DEF Restore
  <2> QED BY <2>1, <2>2
<1>2. written' \in [Executors -> SUBSET Paths] BY RestoredPath
<1>3. pc' \in [Executors -> Places] BY DEF Restore
<1>4. trouble' \in [Executors -> BOOLEAN] BY DEF Restore
<1> QED BY <1>1, <1>3, <1>2, <1>4 DEF Restore

LEMMA TypeProve ==
  ASSUME TypeOK, NEW e \in Executors, ProveRolledBack(e)
  PROVE  TypeOK'
<1>. USE MutationAssumption, BytesAssumption DEF TypeOK, Places, Claim, Paths, Mine,
     Acquiring, Preparing, Applying, Releasing, Ended, disk, local, counts, Goto, Step,
          Quiet, Faultless
<1>2. outcome' \in [Executors -> Outcomes] BY DEF ProveRolledBack, Report, Outcomes
<1>3. pc' \in [Executors -> Places] BY DEF ProveRolledBack
<1> QED BY <1>2, <1>3 DEF ProveRolledBack

LEMMA TypeRecord ==
  ASSUME TypeOK, ReviewTyped, RecordRecovery
  PROVE  TypeOK'
<1>. USE MutationAssumption, BytesAssumption DEF TypeOK, Places, Claim, Paths, Mine,
     Acquiring, Preparing, Applying, Releasing, Ended, disk, local, counts, Reviewing
<1>1. recovered' \subseteq [claim: Claim, files: [Paths -> Bytes]]
  BY DEF RecordRecovery, ReviewTyped, Reviewed
<1> QED BY <1>1 DEF RecordRecovery

LEMMA TypeDie ==
  ASSUME TypeOK, NEW server \in Servers, Die(server)
  PROVE  TypeOK'
<1>. USE MutationAssumption, BytesAssumption DEF TypeOK, Places
<1>3. pc' \in [Executors -> Places] BY DEF Die, Ended
<1>4. review' \in [step: {"IDLE", "CONFIRM", "RECORD", "RECHECK", "CLEAR"},
                 claim: Claim \cup {NoClaim}, files: [Paths -> Bytes]] BY DEF
                      Die
<1>5. deaths' \in Nat /\ up' \subseteq Servers BY DEF Die
<1> QED BY <1>3, <1>4, <1>5 DEF Die, disk, local


LEMMA TypeStep ==
  ASSUME TypeOK, ReviewTyped, [Next]_vars
  PROVE  TypeOK'
<1>. USE MutationAssumption, BytesAssumption DEF TypeOK, Places, Claim, Bytes, Paths, Mine,
     Outcomes, Acquiring, Preparing,
          Applying, Releasing, Ended, disk, local, counts, Goto, Step, Quiet,
          Faultless, GivesUp, Report, Intended, Reviewing, Reviewed
<1>1. ASSUME NEW e \in Executors, CheckRecovered(e) PROVE TypeOK'
  BY <1>1 DEF CheckRecovered
<1>2. ASSUME NEW e \in Executors, CreateClaim(e) PROVE TypeOK'
  BY <1>2 DEF CreateClaim
<1>3. ASSUME NEW e \in Executors, WriteClaim(e) PROVE TypeOK'
  BY <1>3 DEF WriteClaim
<1>4. ASSUME NEW e \in Executors, Register(e) PROVE TypeOK'
  BY <1>4 DEF Register
<1>5. ASSUME NEW e \in Executors, TakeOver(e) PROVE TypeOK'
  BY <1>5 DEF TakeOver
<1>6. ASSUME NEW e \in Executors, Unlink(e) PROVE TypeOK'
  BY <1>6 DEF Unlink
<1>7. ASSUME NEW e \in Executors, Capture(e) PROVE TypeOK'
  BY <1>7, TypeCapture
<1>8. ASSUME NEW e \in Executors, RunAgent(e) PROVE TypeOK'
  BY <1>8 DEF RunAgent
<1>9. ASSUME NEW e \in Executors, BeginTargetMutation(e) PROVE TypeOK'
  BY <1>9 DEF BeginTargetMutation
<1>10. ASSUME NEW e \in Executors, Publish(e) PROVE TypeOK'
  BY <1>10 DEF Publish
<1>11. ASSUME NEW e \in Executors, CheckTarget(e) PROVE TypeOK'
  BY <1>11 DEF CheckTarget
<1>12. ASSUME NEW e \in Executors, WriteTarget(e) PROVE TypeOK'
  BY <1>12 DEF WriteTarget
<1>13. ASSUME NEW e \in Executors, WriteFails(e) PROVE TypeOK'
  BY <1>13 DEF WriteFails
<1>14. ASSUME NEW e \in Executors, VerifyTarget(e) PROVE TypeOK'
  BY <1>14, TypeVerify
<1>15. ASSUME NEW e \in Executors, ValidateApplied(e) PROVE TypeOK'
  BY <1>15 DEF ValidateApplied
<1>16. ASSUME NEW e \in Executors, RollBack(e) PROVE TypeOK'
  BY <1>16, TypeRollBack
<1>17. ASSUME NEW e \in Executors, Restore(e) PROVE TypeOK'
  BY <1>17, TypeRestore
<1>18. ASSUME NEW e \in Executors, ProveRolledBack(e) PROVE TypeOK'
  BY <1>18, TypeProve
<1>19. ASSUME NEW e \in Executors, Evidence(e) PROVE TypeOK'
  BY <1>19 DEF Evidence
<1>20. ASSUME NEW e \in Executors, Release(e) PROVE TypeOK'
  BY <1>20 DEF Release
<1>21. ASSUME NEW e \in Executors, RemoveClaim(e) PROVE TypeOK'
  BY <1>21 DEF RemoveClaim
<1>22. CASE Inspect
  BY <1>22 DEF Inspect
<1>23. CASE Confirm
  BY <1>23 DEF Confirm
<1>24. CASE RecordRecovery
  BY <1>24, TypeRecord
<1>25. CASE Recheck
  BY <1>25 DEF Recheck
<1>26. CASE ClearClaim
  BY <1>26 DEF ClearClaim
<1>27. CASE Edit
  BY <1>27 DEF Edit
<1>28. ASSUME NEW server \in Servers, Die(server) PROVE TypeOK'
  BY <1>28, TypeDie
<1>29. CASE UNCHANGED vars
  BY <1>29 DEF vars
<1> QED
  BY <1>1, <1>2, <1>3, <1>4, <1>5, <1>6, <1>7, <1>8, <1>9, <1>10, <1>11, <1>12, <1>13,
       <1>14, <1>15, <1>16, <1>17, <1>18, <1>19, <1>20, <1>21, <1>22, <1>23, <1>24, <1>25,
            <1>26, <1>27, <1>28, <1>29 DEF Next, Acquire, Prepare, Apply, Reconcile


LEMMA ReviewTypedStep ==
  ASSUME TypeOK, ReviewTyped, [Next]_vars
  PROVE  ReviewTyped'
<1>. USE MutationAssumption, BytesAssumption DEF TypeOK, Places, ReviewTyped, Quiet,
     Faultless, Reviewing
<1>1. ASSUME NEW e \in Executors, CheckRecovered(e) PROVE ReviewTyped'
  BY <1>1 DEF CheckRecovered
<1>2. ASSUME NEW e \in Executors, CreateClaim(e) PROVE ReviewTyped'
  BY <1>2 DEF CreateClaim
<1>3. ASSUME NEW e \in Executors, WriteClaim(e) PROVE ReviewTyped'
  BY <1>3 DEF WriteClaim
<1>4. ASSUME NEW e \in Executors, Register(e) PROVE ReviewTyped'
  BY <1>4 DEF Register
<1>5. ASSUME NEW e \in Executors, TakeOver(e) PROVE ReviewTyped'
  BY <1>5 DEF TakeOver
<1>6. ASSUME NEW e \in Executors, Unlink(e) PROVE ReviewTyped'
  BY <1>6 DEF Unlink
<1>7. ASSUME NEW e \in Executors, Capture(e) PROVE ReviewTyped'
  BY <1>7 DEF Capture
<1>8. ASSUME NEW e \in Executors, RunAgent(e) PROVE ReviewTyped'
  BY <1>8 DEF RunAgent
<1>9. ASSUME NEW e \in Executors, BeginTargetMutation(e) PROVE ReviewTyped'
  BY <1>9 DEF BeginTargetMutation
<1>10. ASSUME NEW e \in Executors, Publish(e) PROVE ReviewTyped'
  BY <1>10 DEF Publish
<1>11. ASSUME NEW e \in Executors, CheckTarget(e) PROVE ReviewTyped'
  BY <1>11 DEF CheckTarget
<1>12. ASSUME NEW e \in Executors, WriteTarget(e) PROVE ReviewTyped'
  BY <1>12 DEF WriteTarget
<1>13. ASSUME NEW e \in Executors, WriteFails(e) PROVE ReviewTyped'
  BY <1>13 DEF WriteFails
<1>14. ASSUME NEW e \in Executors, VerifyTarget(e) PROVE ReviewTyped'
  BY <1>14 DEF VerifyTarget
<1>15. ASSUME NEW e \in Executors, ValidateApplied(e) PROVE ReviewTyped'
  BY <1>15 DEF ValidateApplied
<1>16. ASSUME NEW e \in Executors, RollBack(e) PROVE ReviewTyped'
  BY <1>16 DEF RollBack
<1>17. ASSUME NEW e \in Executors, Restore(e) PROVE ReviewTyped'
  BY <1>17 DEF Restore
<1>18. ASSUME NEW e \in Executors, ProveRolledBack(e) PROVE ReviewTyped'
  BY <1>18 DEF ProveRolledBack
<1>19. ASSUME NEW e \in Executors, Evidence(e) PROVE ReviewTyped'
  BY <1>19 DEF Evidence
<1>20. ASSUME NEW e \in Executors, Release(e) PROVE ReviewTyped'
  BY <1>20 DEF Release
<1>21. ASSUME NEW e \in Executors, RemoveClaim(e) PROVE ReviewTyped'
  BY <1>21 DEF RemoveClaim
<1>22. CASE Inspect
  BY <1>22 DEF Inspect
<1>23. CASE Confirm
  BY <1>23 DEF Confirm
<1>24. CASE RecordRecovery
  BY <1>24 DEF RecordRecovery
<1>25. CASE Recheck
  BY <1>25 DEF Recheck
<1>26. CASE ClearClaim
  BY <1>26 DEF ClearClaim
<1>27. CASE Edit
  BY <1>27 DEF Edit
<1>28. ASSUME NEW server \in Servers, Die(server) PROVE ReviewTyped'
  BY <1>28 DEF Die
<1>29. CASE UNCHANGED vars
  BY <1>29 DEF vars
<1> QED
  BY <1>1, <1>2, <1>3, <1>4, <1>5, <1>6, <1>7, <1>8, <1>9, <1>10, <1>11, <1>12, <1>13,
       <1>14, <1>15, <1>16, <1>17, <1>18, <1>19, <1>20, <1>21, <1>22, <1>23, <1>24, <1>25,
            <1>26, <1>27, <1>28, <1>29 DEF Next, Acquire, Prepare, Apply, Reconcile

(* Every variable has its type, also where processes may be suspended.     *)
THEOREM TypeCorrect == Spec => []TypeOK
<1>1. Init => TypeOK /\ ReviewTyped
  BY InitType
<1>2. TypeOK /\ ReviewTyped /\ [Next]_vars => TypeOK' /\ ReviewTyped'
  BY TypeStep, ReviewTypedStep
<1> QED BY <1>1, <1>2, PTL DEF Spec

-----------------------------------------------------------------------------
(* The claim.                                                              *)

LEMMA MineIsClaim ==
  ASSUME NEW e \in Executors, NEW phase \in {"PREPARING", "APPLYING"}
  PROVE  /\ Mine(e, phase) \in Claim /\ Mine(e, phase) # NoClaim
         /\ Mine(e, phase).by = e /\ Mine(e, phase).phase = phase /\ Mine(e,
              phase).whole
<1>1. Mine(e, phase) \in Claim BY SMT DEF Mine, Claim
<1>2. Mine(e, phase).by = e /\ Mine(e, phase).phase = phase BY Zenon DEF Mine
<1>3. Mine(e, phase).whole BY Zenon DEF Mine
<1> QED BY <1>1, <1>2, <1>3, BytesAssumption

LEMMA CreatedClaim ==
  ASSUME TypeOK, NEW e \in Executors, CreateClaim(e), claim' # claim
  PROVE  /\ claim = NoClaim /\ claim' \in Claim
         /\ claim'.by = e /\ claim'.phase = "PREPARING" /\ ~ claim'.whole
         /\ pc' = [pc EXCEPT ![e] = "WRITE_CLAIM"] /\ outcome' = outcome
<1>1. claim = NoClaim /\ claim' = [Mine(e, "PREPARING") EXCEPT !.whole = FALSE]
      /\ pc' = [pc EXCEPT ![e] = "WRITE_CLAIM"] /\ outcome' = outcome
  BY DEF CreateClaim, disk, local, GivesUp, Goto
<1>2. claim' = [by |-> e, phase |-> "PREPARING", whole |-> FALSE]
  BY <1>1 DEF Mine
<1>3. claim' \in Claim BY <1>2, SMT DEF Claim
<1>4. claim'.by = e /\ claim'.phase = "PREPARING" BY <1>2, Zenon
<1>5. ~ claim'.whole BY <1>2, Zenon
<1> QED BY <1>1, <1>3, <1>4, <1>5

LEMMA KeptClaim ==
  ASSUME TypeOK, NEW e \in Executors, CreateClaim(e), claim' = claim
  PROVE  /\ claim # NoClaim /\ UNCHANGED review
         /\ \/ pc' = [pc EXCEPT ![e] = "TAKEOVER"] /\ outcome' = outcome
            \/ /\ pc' = [pc EXCEPT ![e] = "DONE"]
               /\ outcome' = [outcome EXCEPT ![e] = "NO_TARGET_CHANGE"]
<1>0. claim = NoClaim => [Mine(e, "PREPARING") EXCEPT !.whole = FALSE] # NoClaim
  BY BytesAssumption DEF Mine, Claim
<1>1. claim # NoClaim BY <1>0 DEF CreateClaim
<1>2. pc[e] = "CREATE" /\ pc[e] \in Acquiring BY DEF CreateClaim, Acquiring
<1> QED BY <1>1, <1>2 DEF CreateClaim, GivesUp, Goto, Faultless, Quiet, local

LEMMA NamesCreated ==
  ASSUME TypeOK, ClaimInv, Reported, NEW e \in Executors, CreateClaim(e)
  PROVE  ClaimNames'
<1>0. pc \in [Executors -> Places]
  /\ outcome \in [Executors -> Outcomes] /\ pc[e] = "CREATE" BY DEF TypeOK, Places,
       CreateClaim
<1>1. CASE claim' = claim
  <2>1. claim # NoClaim => claim.by \in Executors /\ claim.by # e
    BY <1>0 DEF TypeOK, Places, Claim, ClaimInv, ClaimNames
  <2> QED BY <1>0, <1>1, <2>1, KeptClaim DEF ClaimInv, ClaimNames
<1>2. CASE claim' # claim
  BY <1>0, <1>2, CreatedClaim DEF ClaimNames
<1> QED BY <1>1, <1>2

LEMMA OwnedCreated ==
  ASSUME TypeOK, ClaimInv, Reported, NEW e \in Executors, CreateClaim(e)
  PROVE  Owned'
<1>0. pc \in [Executors -> Places]
   /\ pc[e] = "CREATE" BY DEF TypeOK, Places, CreateClaim
<1>1. CASE claim' = claim
  BY <1>0, <1>1, KeptClaim DEF ClaimInv, Owned, Applying
<1>2. CASE claim' # claim
  BY <1>0, <1>2, CreatedClaim, MineIsClaim DEF ClaimInv, Owned, Applying
<1> QED BY <1>1, <1>2

LEMMA OwnedWritten ==
  ASSUME TypeOK, ClaimInv, Reported, NEW e \in Executors, WriteClaim(e)
  PROVE  Owned'
<1>0. pc \in [Executors -> Places]
   /\ pc[e] = "WRITE_CLAIM" /\ pc' = [pc EXCEPT ![e] = "REGISTER"] 
  BY DEF TypeOK, Places, WriteClaim, Step, Goto
<1>1. CASE claim' = claim
  BY <1>0, <1>1 DEF ClaimInv, Owned, Applying
<1>2. CASE claim # NoClaim /\ claim.by = e
  BY <1>0, <1>2, MineIsClaim DEF ClaimInv, Owned, Applying
<1> QED BY <1>1, <1>2 DEF WriteClaim

LEMMA OwnedPublished ==
  ASSUME TypeOK, ClaimInv, Reported, NEW e \in Executors, Publish(e)
  PROVE  Owned'
<1>0. pc \in [Executors -> Places]
   /\ pc[e] = "PUBLISH" /\ pc' = [pc EXCEPT ![e] = "CHECK"]
   /\ claim = Mine(e, "PREPARING") /\ claim' = Mine(e, "APPLYING")
  BY DEF TypeOK, Places, Publish, Step, Goto, ClaimInv, Owned
<1> QED  BY <1>0, MineIsClaim DEF ClaimInv, Owned, Applying

LEMMA OwnedCleared ==
  ASSUME TypeOK, ClaimInv, Reported, ClearClaim
  PROVE  Owned'
<1>0. review.step = "CLEAR" /\ pc' = pc
  BY DEF ClearClaim, Reviewing, local
<1>1. \A e \in Executors : pc[e] # "PUBLISH" /\ pc[e] \notin Applying
  BY <1>0, MineIsClaim DEF ClaimInv, Owned, Undisturbed, Committed,
       ReviewsEnded, Applying, Ended
<1> QED  BY <1>0, <1>1 DEF Owned

LEMMA UndisturbedCreated ==
  ASSUME TypeOK, ClaimInv, Reported, NEW e \in Executors, CreateClaim(e)
  PROVE  Undisturbed'
<1>0. pc \in [Executors -> Places]
   /\ pc[e] = "CREATE" BY DEF TypeOK, Places, CreateClaim
<1>1. CASE claim' = claim
  BY <1>0, <1>1, KeptClaim DEF ClaimInv, Undisturbed, Committed
<1>2. CASE claim' # claim
  BY <1>0, <1>2, CreatedClaim DEF Undisturbed, Committed
<1> QED BY <1>1, <1>2

LEMMA UndisturbedPublished ==
  ASSUME TypeOK, ClaimInv, Reported, NEW e \in Executors, Publish(e)
  PROVE  Undisturbed'
<1>0. pc \in [Executors -> Places]
   /\ pc[e] = "PUBLISH" /\ pc' = [pc EXCEPT ![e] = "CHECK"] /\ UNCHANGED
        review
   /\ claim = Mine(e, "PREPARING") /\ claim' = Mine(e, "APPLYING")
  BY DEF TypeOK, Places, Publish, Step, Goto, ClaimInv, Owned, Faultless, Quiet
<1>1. /\ \A f \in Executors \ {e} : pc[f] \notin {"UNLINK", "REMOVE"}
      /\ review.step = "CLEAR" => claim = review.claim
  BY <1>0, MineIsClaim DEF ClaimInv, Undisturbed, Committed
<1>2. review.step # "CLEAR"
  BY <1>0, <1>1, MineIsClaim DEF ClaimInv, ReviewsEnded
<1> QED BY <1>0, <1>1, <1>2, MineIsClaim DEF Undisturbed, Committed


LEMMA DeadServersStep ==
  ASSUME MutationInv, [Next]_vars
  PROVE  DeadServers'
<1>. USE MutationAssumption, BytesAssumption DEF TypeOK, Places, Claim, Mine, Acquiring,
     Preparing, Applying, Releasing,
          Ended, Goto, Step, Quiet, Faultless, GivesUp, Report, Reviewing,
          disk, local, counts, ClaimInv, ReviewTyped, MutationInv, DeadServers
<1>1. ASSUME NEW e \in Executors, CheckRecovered(e) PROVE DeadServers'
  BY <1>1 DEF CheckRecovered
<1>2. ASSUME NEW e \in Executors, CreateClaim(e) PROVE DeadServers'
  BY <1>2 DEF CreateClaim
<1>3. ASSUME NEW e \in Executors, WriteClaim(e) PROVE DeadServers'
  BY <1>3 DEF WriteClaim
<1>4. ASSUME NEW e \in Executors, Register(e) PROVE DeadServers'
  BY <1>4 DEF Register
<1>5. ASSUME NEW e \in Executors, TakeOver(e) PROVE DeadServers'
  BY <1>5 DEF TakeOver
<1>6. ASSUME NEW e \in Executors, Unlink(e) PROVE DeadServers'
  BY <1>6 DEF Unlink
<1>7. ASSUME NEW e \in Executors, Capture(e) PROVE DeadServers'
  BY <1>7 DEF Capture
<1>8. ASSUME NEW e \in Executors, RunAgent(e) PROVE DeadServers'
  BY <1>8 DEF RunAgent
<1>9. ASSUME NEW e \in Executors, BeginTargetMutation(e) PROVE DeadServers'
  BY <1>9 DEF BeginTargetMutation
<1>10. ASSUME NEW e \in Executors, Publish(e) PROVE DeadServers'
  BY <1>10 DEF Publish
<1>11. ASSUME NEW e \in Executors, CheckTarget(e) PROVE DeadServers'
  BY <1>11 DEF CheckTarget
<1>12. ASSUME NEW e \in Executors, WriteTarget(e) PROVE DeadServers'
  BY <1>12 DEF WriteTarget
<1>13. ASSUME NEW e \in Executors, WriteFails(e) PROVE DeadServers'
  BY <1>13 DEF WriteFails
<1>14. ASSUME NEW e \in Executors, VerifyTarget(e) PROVE DeadServers'
  BY <1>14 DEF VerifyTarget
<1>15. ASSUME NEW e \in Executors, ValidateApplied(e) PROVE DeadServers'
  BY <1>15 DEF ValidateApplied
<1>16. ASSUME NEW e \in Executors, RollBack(e) PROVE DeadServers'
  BY <1>16 DEF RollBack
<1>17. ASSUME NEW e \in Executors, Restore(e) PROVE DeadServers'
  BY <1>17 DEF Restore
<1>18. ASSUME NEW e \in Executors, ProveRolledBack(e) PROVE DeadServers'
  BY <1>18 DEF ProveRolledBack
<1>19. ASSUME NEW e \in Executors, Evidence(e) PROVE DeadServers'
  BY <1>19 DEF Evidence
<1>20. ASSUME NEW e \in Executors, Release(e) PROVE DeadServers'
  BY <1>20 DEF Release
<1>21. ASSUME NEW e \in Executors, RemoveClaim(e) PROVE DeadServers'
  BY <1>21 DEF RemoveClaim
<1>22. CASE Inspect
  BY <1>22 DEF Inspect
<1>23. CASE Confirm
  BY <1>23 DEF Confirm
<1>24. CASE RecordRecovery
  BY <1>24 DEF RecordRecovery
<1>25. CASE Recheck
  BY <1>25 DEF Recheck
<1>26. CASE ClearClaim
  BY <1>26 DEF ClearClaim
<1>27. CASE Edit
  BY <1>27 DEF Edit
<1>28. ASSUME NEW server \in Servers, Die(server) PROVE DeadServers'
  BY <1>28 DEF Die
<1>29. CASE UNCHANGED vars
  BY <1>29 DEF vars
<1> QED
  BY <1>1, <1>2, <1>3, <1>4, <1>5, <1>6, <1>7, <1>8, <1>9, <1>10, <1>11, <1>12, <1>13,
       <1>14, <1>15, <1>16, <1>17, <1>18, <1>19, <1>20, <1>21, <1>22, <1>23, <1>24, <1>25,
            <1>26, <1>27, <1>28, <1>29 DEF Next, Acquire, Prepare, Apply, Reconcile


LEMMA ClaimNamesStep ==
  ASSUME MutationInv, [Next]_vars
  PROVE  ClaimNames'
<1>. USE MutationAssumption, BytesAssumption DEF TypeOK, Places, Claim, Mine, Acquiring,
     Preparing, Applying, Releasing,
          Ended, Goto, Step, Quiet, Faultless, GivesUp, Report, Reviewing,
          disk, local, counts, ClaimInv, ReviewTyped, MutationInv, ClaimNames,
          DeadServers, Owned, Undisturbed, Reported
<1>1. ASSUME NEW e \in Executors, CheckRecovered(e) PROVE ClaimNames'
  BY <1>1 DEF CheckRecovered
<1>2. ASSUME NEW e \in Executors, CreateClaim(e) PROVE ClaimNames'
  BY <1>2, NamesCreated
<1>3. ASSUME NEW e \in Executors, WriteClaim(e) PROVE ClaimNames'
  BY <1>3 DEF WriteClaim
<1>4. ASSUME NEW e \in Executors, Register(e) PROVE ClaimNames'
  BY <1>4 DEF Register
<1>5. ASSUME NEW e \in Executors, TakeOver(e) PROVE ClaimNames'
  BY <1>5 DEF TakeOver
<1>6. ASSUME NEW e \in Executors, Unlink(e) PROVE ClaimNames'
  BY <1>6 DEF Unlink
<1>7. ASSUME NEW e \in Executors, Capture(e) PROVE ClaimNames'
  BY <1>7 DEF Capture
<1>8. ASSUME NEW e \in Executors, RunAgent(e) PROVE ClaimNames'
  BY <1>8 DEF RunAgent
<1>9. ASSUME NEW e \in Executors, BeginTargetMutation(e) PROVE ClaimNames'
  BY <1>9 DEF BeginTargetMutation
<1>10. ASSUME NEW e \in Executors, Publish(e) PROVE ClaimNames'
  BY <1>10 DEF Publish
<1>11. ASSUME NEW e \in Executors, CheckTarget(e) PROVE ClaimNames'
  BY <1>11 DEF CheckTarget
<1>12. ASSUME NEW e \in Executors, WriteTarget(e) PROVE ClaimNames'
  BY <1>12 DEF WriteTarget
<1>13. ASSUME NEW e \in Executors, WriteFails(e) PROVE ClaimNames'
  BY <1>13 DEF WriteFails
<1>14. ASSUME NEW e \in Executors, VerifyTarget(e) PROVE ClaimNames'
  BY <1>14 DEF VerifyTarget
<1>15. ASSUME NEW e \in Executors, ValidateApplied(e) PROVE ClaimNames'
  BY <1>15 DEF ValidateApplied
<1>16. ASSUME NEW e \in Executors, RollBack(e) PROVE ClaimNames'
  BY <1>16 DEF RollBack
<1>17. ASSUME NEW e \in Executors, Restore(e) PROVE ClaimNames'
  BY <1>17 DEF Restore
<1>18. ASSUME NEW e \in Executors, ProveRolledBack(e) PROVE ClaimNames'
  BY <1>18 DEF ProveRolledBack
<1>19. ASSUME NEW e \in Executors, Evidence(e) PROVE ClaimNames'
  BY <1>19 DEF Evidence
<1>20. ASSUME NEW e \in Executors, Release(e) PROVE ClaimNames'
  BY <1>20 DEF Release
<1>21. ASSUME NEW e \in Executors, RemoveClaim(e) PROVE ClaimNames'
  BY <1>21 DEF RemoveClaim
<1>22. CASE Inspect
  BY <1>22 DEF Inspect
<1>23. CASE Confirm
  BY <1>23 DEF Confirm
<1>24. CASE RecordRecovery
  BY <1>24 DEF RecordRecovery
<1>25. CASE Recheck
  BY <1>25 DEF Recheck
<1>26. CASE ClearClaim
  BY <1>26 DEF ClearClaim
<1>27. CASE Edit
  BY <1>27 DEF Edit
<1>28. ASSUME NEW server \in Servers, Die(server) PROVE ClaimNames'
  BY <1>28 DEF Die
<1>29. CASE UNCHANGED vars
  BY <1>29 DEF vars
<1> QED
  BY <1>1, <1>2, <1>3, <1>4, <1>5, <1>6, <1>7, <1>8, <1>9, <1>10, <1>11, <1>12, <1>13,
       <1>14, <1>15, <1>16, <1>17, <1>18, <1>19, <1>20, <1>21, <1>22, <1>23, <1>24, <1>25,
            <1>26, <1>27, <1>28, <1>29 DEF Next, Acquire, Prepare, Apply, Reconcile


LEMMA OwnedStep ==
  ASSUME MutationInv, [Next]_vars
  PROVE  Owned'
<1>. USE MutationAssumption, BytesAssumption DEF TypeOK, Places, Claim, Mine, Acquiring,
     Preparing, Applying, Releasing,
          Ended, Goto, Step, Quiet, Faultless, GivesUp, Report, Reviewing,
          disk, local, counts, ClaimInv, ReviewTyped, MutationInv, ClaimNames,
          Owned, Undisturbed, Committed
<1>1. ASSUME NEW e \in Executors, CheckRecovered(e) PROVE Owned'
  BY <1>1 DEF CheckRecovered
<1>2. ASSUME NEW e \in Executors, CreateClaim(e) PROVE Owned'
  BY <1>2, OwnedCreated
<1>3. ASSUME NEW e \in Executors, WriteClaim(e) PROVE Owned'
  BY <1>3, OwnedWritten
<1>4. ASSUME NEW e \in Executors, Register(e) PROVE Owned'
  BY <1>4 DEF Register
<1>5. ASSUME NEW e \in Executors, TakeOver(e) PROVE Owned'
  BY <1>5 DEF TakeOver
<1>6. ASSUME NEW e \in Executors, Unlink(e) PROVE Owned'
  BY <1>6 DEF Unlink
<1>7. ASSUME NEW e \in Executors, Capture(e) PROVE Owned'
  BY <1>7 DEF Capture
<1>8. ASSUME NEW e \in Executors, RunAgent(e) PROVE Owned'
  BY <1>8 DEF RunAgent
<1>9. ASSUME NEW e \in Executors, BeginTargetMutation(e) PROVE Owned'
  BY <1>9 DEF BeginTargetMutation
<1>10. ASSUME NEW e \in Executors, Publish(e) PROVE Owned'
  BY <1>10, OwnedPublished
<1>11. ASSUME NEW e \in Executors, CheckTarget(e) PROVE Owned'
  BY <1>11 DEF CheckTarget
<1>12. ASSUME NEW e \in Executors, WriteTarget(e) PROVE Owned'
  BY <1>12 DEF WriteTarget
<1>13. ASSUME NEW e \in Executors, WriteFails(e) PROVE Owned'
  BY <1>13 DEF WriteFails
<1>14. ASSUME NEW e \in Executors, VerifyTarget(e) PROVE Owned'
  BY <1>14 DEF VerifyTarget
<1>15. ASSUME NEW e \in Executors, ValidateApplied(e) PROVE Owned'
  BY <1>15 DEF ValidateApplied
<1>16. ASSUME NEW e \in Executors, RollBack(e) PROVE Owned'
  BY <1>16 DEF RollBack
<1>17. ASSUME NEW e \in Executors, Restore(e) PROVE Owned'
  BY <1>17 DEF Restore
<1>18. ASSUME NEW e \in Executors, ProveRolledBack(e) PROVE Owned'
  BY <1>18 DEF ProveRolledBack
<1>19. ASSUME NEW e \in Executors, Evidence(e) PROVE Owned'
  BY <1>19 DEF Evidence
<1>20. ASSUME NEW e \in Executors, Release(e) PROVE Owned'
  BY <1>20 DEF Release
<1>21. ASSUME NEW e \in Executors, RemoveClaim(e) PROVE Owned'
  BY <1>21 DEF RemoveClaim
<1>22. CASE Inspect
  BY <1>22 DEF Inspect
<1>23. CASE Confirm
  BY <1>23 DEF Confirm
<1>24. CASE RecordRecovery
  BY <1>24 DEF RecordRecovery
<1>25. CASE Recheck
  BY <1>25 DEF Recheck
<1>26. CASE ClearClaim
  BY <1>26, OwnedCleared
<1>27. CASE Edit
  BY <1>27 DEF Edit
<1>28. ASSUME NEW server \in Servers, Die(server) PROVE Owned'
  BY <1>28 DEF Die
<1>29. CASE UNCHANGED vars
  BY <1>29 DEF vars
<1> QED
  BY <1>1, <1>2, <1>3, <1>4, <1>5, <1>6, <1>7, <1>8, <1>9, <1>10, <1>11, <1>12, <1>13,
       <1>14, <1>15, <1>16, <1>17, <1>18, <1>19, <1>20, <1>21, <1>22, <1>23, <1>24, <1>25,
            <1>26, <1>27, <1>28, <1>29 DEF Next, Acquire, Prepare, Apply, Reconcile


LEMMA UndisturbedStep ==
  ASSUME MutationInv, ~ Suspensions, [Next]_vars
  PROVE  Undisturbed'
<1>. USE MutationAssumption, BytesAssumption DEF TypeOK, Places, Claim, Mine, Acquiring,
     Preparing, Applying, Releasing,
          Ended, Goto, Step, Quiet, Faultless, GivesUp, Report, Reviewing,
          disk, local, counts, ClaimInv, ReviewTyped, MutationInv,
          Undisturbed, Committed, ClaimNames, Owned, DeadServers,
          ReviewsEnded, OwnerAlive, Abandoned, Outlasted, AsReviewed
<1>1. ASSUME NEW e \in Executors, CheckRecovered(e) PROVE Undisturbed'
  BY <1>1 DEF CheckRecovered
<1>2. ASSUME NEW e \in Executors, CreateClaim(e) PROVE Undisturbed'
  BY <1>2, UndisturbedCreated
<1>3. ASSUME NEW e \in Executors, WriteClaim(e) PROVE Undisturbed'
  BY <1>3 DEF WriteClaim
<1>4. ASSUME NEW e \in Executors, Register(e) PROVE Undisturbed'
  BY <1>4 DEF Register
<1>5. ASSUME NEW e \in Executors, TakeOver(e) PROVE Undisturbed'
  BY <1>5 DEF TakeOver
<1>6. ASSUME NEW e \in Executors, Unlink(e) PROVE Undisturbed'
  BY <1>6 DEF Unlink
<1>7. ASSUME NEW e \in Executors, Capture(e) PROVE Undisturbed'
  BY <1>7 DEF Capture
<1>8. ASSUME NEW e \in Executors, RunAgent(e) PROVE Undisturbed'
  BY <1>8 DEF RunAgent
<1>9. ASSUME NEW e \in Executors, BeginTargetMutation(e) PROVE Undisturbed'
  BY <1>9 DEF BeginTargetMutation
<1>10. ASSUME NEW e \in Executors, Publish(e) PROVE Undisturbed'
  BY <1>10, UndisturbedPublished
<1>11. ASSUME NEW e \in Executors, CheckTarget(e) PROVE Undisturbed'
  BY <1>11 DEF CheckTarget
<1>12. ASSUME NEW e \in Executors, WriteTarget(e) PROVE Undisturbed'
  BY <1>12 DEF WriteTarget
<1>13. ASSUME NEW e \in Executors, WriteFails(e) PROVE Undisturbed'
  BY <1>13 DEF WriteFails
<1>14. ASSUME NEW e \in Executors, VerifyTarget(e) PROVE Undisturbed'
  BY <1>14 DEF VerifyTarget
<1>15. ASSUME NEW e \in Executors, ValidateApplied(e) PROVE Undisturbed'
  BY <1>15 DEF ValidateApplied
<1>16. ASSUME NEW e \in Executors, RollBack(e) PROVE Undisturbed'
  BY <1>16 DEF RollBack
<1>17. ASSUME NEW e \in Executors, Restore(e) PROVE Undisturbed'
  BY <1>17 DEF Restore
<1>18. ASSUME NEW e \in Executors, ProveRolledBack(e) PROVE Undisturbed'
  BY <1>18 DEF ProveRolledBack
<1>19. ASSUME NEW e \in Executors, Evidence(e) PROVE Undisturbed'
  BY <1>19 DEF Evidence
<1>20. ASSUME NEW e \in Executors, Release(e) PROVE Undisturbed'
  BY <1>20 DEF Release
<1>21. ASSUME NEW e \in Executors, RemoveClaim(e) PROVE Undisturbed'
  BY <1>21 DEF RemoveClaim
<1>22. CASE Inspect
  BY <1>22 DEF Inspect
<1>23. CASE Confirm
  BY <1>23 DEF Confirm
<1>24. CASE RecordRecovery
  BY <1>24 DEF RecordRecovery
<1>25. CASE Recheck
  BY <1>25 DEF Recheck
<1>26. CASE ClearClaim
  BY <1>26 DEF ClearClaim
<1>27. CASE Edit
  BY <1>27 DEF Edit
<1>28. ASSUME NEW server \in Servers, Die(server) PROVE Undisturbed'
  BY <1>28 DEF Die
<1>29. CASE UNCHANGED vars
  BY <1>29 DEF vars
<1> QED
  BY <1>1, <1>2, <1>3, <1>4, <1>5, <1>6, <1>7, <1>8, <1>9, <1>10, <1>11, <1>12, <1>13,
       <1>14, <1>15, <1>16, <1>17, <1>18, <1>19, <1>20, <1>21, <1>22, <1>23, <1>24, <1>25,
            <1>26, <1>27, <1>28, <1>29 DEF Next, Acquire, Prepare, Apply, Reconcile


LEMMA ReviewsEndedStep ==
  ASSUME MutationInv, [Next]_vars
  PROVE  ReviewsEnded'
<1>. USE MutationAssumption, BytesAssumption DEF TypeOK, Places, Claim, Mine, Acquiring,
     Preparing, Applying, Releasing,
          Ended, Goto, Step, Quiet, Faultless, GivesUp, Report, Reviewing,
          disk, local, counts, ClaimInv, ReviewTyped, MutationInv,
          ReviewsEnded, ClaimNames, DeadServers, OwnerAlive, Reconcilable,
          AsReviewed, Reviewed
<1>1. ASSUME NEW e \in Executors, CheckRecovered(e) PROVE ReviewsEnded'
  BY <1>1 DEF CheckRecovered
<1>2. ASSUME NEW e \in Executors, CreateClaim(e) PROVE ReviewsEnded'
  BY <1>2 DEF CreateClaim
<1>3. ASSUME NEW e \in Executors, WriteClaim(e) PROVE ReviewsEnded'
  BY <1>3 DEF WriteClaim
<1>4. ASSUME NEW e \in Executors, Register(e) PROVE ReviewsEnded'
  BY <1>4 DEF Register
<1>5. ASSUME NEW e \in Executors, TakeOver(e) PROVE ReviewsEnded'
  BY <1>5 DEF TakeOver
<1>6. ASSUME NEW e \in Executors, Unlink(e) PROVE ReviewsEnded'
  BY <1>6 DEF Unlink
<1>7. ASSUME NEW e \in Executors, Capture(e) PROVE ReviewsEnded'
  BY <1>7 DEF Capture
<1>8. ASSUME NEW e \in Executors, RunAgent(e) PROVE ReviewsEnded'
  BY <1>8 DEF RunAgent
<1>9. ASSUME NEW e \in Executors, BeginTargetMutation(e) PROVE ReviewsEnded'
  BY <1>9 DEF BeginTargetMutation
<1>10. ASSUME NEW e \in Executors, Publish(e) PROVE ReviewsEnded'
  BY <1>10 DEF Publish
<1>11. ASSUME NEW e \in Executors, CheckTarget(e) PROVE ReviewsEnded'
  BY <1>11 DEF CheckTarget
<1>12. ASSUME NEW e \in Executors, WriteTarget(e) PROVE ReviewsEnded'
  BY <1>12 DEF WriteTarget
<1>13. ASSUME NEW e \in Executors, WriteFails(e) PROVE ReviewsEnded'
  BY <1>13 DEF WriteFails
<1>14. ASSUME NEW e \in Executors, VerifyTarget(e) PROVE ReviewsEnded'
  BY <1>14 DEF VerifyTarget
<1>15. ASSUME NEW e \in Executors, ValidateApplied(e) PROVE ReviewsEnded'
  BY <1>15 DEF ValidateApplied
<1>16. ASSUME NEW e \in Executors, RollBack(e) PROVE ReviewsEnded'
  BY <1>16 DEF RollBack
<1>17. ASSUME NEW e \in Executors, Restore(e) PROVE ReviewsEnded'
  BY <1>17 DEF Restore
<1>18. ASSUME NEW e \in Executors, ProveRolledBack(e) PROVE ReviewsEnded'
  BY <1>18 DEF ProveRolledBack
<1>19. ASSUME NEW e \in Executors, Evidence(e) PROVE ReviewsEnded'
  BY <1>19 DEF Evidence
<1>20. ASSUME NEW e \in Executors, Release(e) PROVE ReviewsEnded'
  BY <1>20 DEF Release
<1>21. ASSUME NEW e \in Executors, RemoveClaim(e) PROVE ReviewsEnded'
  BY <1>21 DEF RemoveClaim
<1>22. CASE Inspect
  BY <1>22 DEF Inspect
<1>23. CASE Confirm
  BY <1>23 DEF Confirm
<1>24. CASE RecordRecovery
  BY <1>24 DEF RecordRecovery
<1>25. CASE Recheck
  BY <1>25 DEF Recheck
<1>26. CASE ClearClaim
  BY <1>26 DEF ClearClaim
<1>27. CASE Edit
  BY <1>27 DEF Edit
<1>28. ASSUME NEW server \in Servers, Die(server) PROVE ReviewsEnded'
  BY <1>28 DEF Die
<1>29. CASE UNCHANGED vars
  BY <1>29 DEF vars
<1> QED
  BY <1>1, <1>2, <1>3, <1>4, <1>5, <1>6, <1>7, <1>8, <1>9, <1>10, <1>11, <1>12, <1>13,
       <1>14, <1>15, <1>16, <1>17, <1>18, <1>19, <1>20, <1>21, <1>22, <1>23, <1>24, <1>25,
            <1>26, <1>27, <1>28, <1>29 DEF Next, Acquire, Prepare, Apply, Reconcile

-----------------------------------------------------------------------------
(* What the claim says of unfinished work.                                 *)

LEMMA ReportedRollBack ==
  ASSUME TypeOK, Reported, NEW e \in Executors, RollBack(e)
  PROVE  Reported'
<1>0. pc \in [Executors -> Places]
   /\ pc[e] = "ROLLBACK" /\ outcome' = outcome
  BY DEF TypeOK, Places, RollBack
<1>1. /\ \/ pc' = pc
         \/ pc' = [pc EXCEPT ![e] = "PROVE"]
         \/ pc' = [pc EXCEPT ![e] = "RESTORE"]
      /\ \A f \in Executors \ {e} : written'[f] = written[f] /\ trouble'[f] = trouble[f]
  BY DEF RollBack, Goto, TypeOK, Places
<1> QED BY <1>0, <1>1 DEF Reported, Acquiring, Preparing, Applying, Releasing


LEMMA ReportedStep ==
  ASSUME MutationInv, [Next]_vars
  PROVE  Reported'
<1>. USE MutationAssumption, BytesAssumption DEF TypeOK, Places, Claim, Mine, Acquiring,
     Preparing, Applying, Releasing,
          Ended, Goto, Step, Quiet, Faultless, GivesUp, Report, Reviewing,
          disk, local, counts, ClaimInv, ReviewTyped, MutationInv, Reported
<1>1. ASSUME NEW e \in Executors, CheckRecovered(e) PROVE Reported'
  BY <1>1 DEF CheckRecovered
<1>2. ASSUME NEW e \in Executors, CreateClaim(e) PROVE Reported'
  BY <1>2 DEF CreateClaim
<1>3. ASSUME NEW e \in Executors, WriteClaim(e) PROVE Reported'
  BY <1>3 DEF WriteClaim
<1>4. ASSUME NEW e \in Executors, Register(e) PROVE Reported'
  BY <1>4 DEF Register
<1>5. ASSUME NEW e \in Executors, TakeOver(e) PROVE Reported'
  BY <1>5 DEF TakeOver
<1>6. ASSUME NEW e \in Executors, Unlink(e) PROVE Reported'
  BY <1>6 DEF Unlink
<1>7. ASSUME NEW e \in Executors, Capture(e) PROVE Reported'
  BY <1>7 DEF Capture
<1>8. ASSUME NEW e \in Executors, RunAgent(e) PROVE Reported'
  BY <1>8 DEF RunAgent
<1>9. ASSUME NEW e \in Executors, BeginTargetMutation(e) PROVE Reported'
  BY <1>9 DEF BeginTargetMutation
<1>10. ASSUME NEW e \in Executors, Publish(e) PROVE Reported'
  BY <1>10 DEF Publish
<1>11. ASSUME NEW e \in Executors, CheckTarget(e) PROVE Reported'
  BY <1>11 DEF CheckTarget
<1>12. ASSUME NEW e \in Executors, WriteTarget(e) PROVE Reported'
  BY <1>12 DEF WriteTarget
<1>13. ASSUME NEW e \in Executors, WriteFails(e) PROVE Reported'
  BY <1>13 DEF WriteFails
<1>14. ASSUME NEW e \in Executors, VerifyTarget(e) PROVE Reported'
  BY <1>14 DEF VerifyTarget
<1>15. ASSUME NEW e \in Executors, ValidateApplied(e) PROVE Reported'
  BY <1>15 DEF ValidateApplied
<1>16. ASSUME NEW e \in Executors, RollBack(e) PROVE Reported'
  BY <1>16, ReportedRollBack
<1>17. ASSUME NEW e \in Executors, Restore(e) PROVE Reported'
  BY <1>17 DEF Restore
<1>18. ASSUME NEW e \in Executors, ProveRolledBack(e) PROVE Reported'
  BY <1>18 DEF ProveRolledBack
<1>19. ASSUME NEW e \in Executors, Evidence(e) PROVE Reported'
  BY <1>19 DEF Evidence
<1>20. ASSUME NEW e \in Executors, Release(e) PROVE Reported'
  BY <1>20 DEF Release
<1>21. ASSUME NEW e \in Executors, RemoveClaim(e) PROVE Reported'
  BY <1>21 DEF RemoveClaim
<1>22. CASE Inspect
  BY <1>22 DEF Inspect
<1>23. CASE Confirm
  BY <1>23 DEF Confirm
<1>24. CASE RecordRecovery
  BY <1>24 DEF RecordRecovery
<1>25. CASE Recheck
  BY <1>25 DEF Recheck
<1>26. CASE ClearClaim
  BY <1>26 DEF ClearClaim
<1>27. CASE Edit
  BY <1>27 DEF Edit
<1>28. ASSUME NEW server \in Servers, Die(server) PROVE Reported'
  BY <1>28 DEF Die
<1>29. CASE UNCHANGED vars
  BY <1>29 DEF vars
<1> QED
  BY <1>1, <1>2, <1>3, <1>4, <1>5, <1>6, <1>7, <1>8, <1>9, <1>10, <1>11, <1>12, <1>13,
       <1>14, <1>15, <1>16, <1>17, <1>18, <1>19, <1>20, <1>21, <1>22, <1>23, <1>24, <1>25,
            <1>26, <1>27, <1>28, <1>29 DEF Next, Acquire, Prepare, Apply, Reconcile

LEMMA UnfinishedCreated ==
  ASSUME TypeOK, ClaimInv, Reported, UnfinishedIsClaimed, NEW e \in Executors,
       CreateClaim(e)
  PROVE  UnfinishedIsClaimed'
<1>0. pc[e] = "CREATE" /\ written' = written /\ trouble' = trouble /\ recovered' = recovered
      /\ written[e] = {} /\ ~ trouble[e]
  BY DEF CreateClaim, disk, local, GivesUp, Reported, Acquiring
<1>1. CASE claim' = claim
  BY <1>0, <1>1, KeptClaim DEF UnfinishedIsClaimed, Spent, TypeOK, Places, Mine
<1>2. CASE claim' # claim
  BY <1>0, <1>2, CreatedClaim, MineIsClaim DEF UnfinishedIsClaimed, Spent
<1> QED BY <1>1, <1>2

LEMMA UnfinishedWritten ==
  ASSUME TypeOK, ClaimInv, Reported, UnfinishedIsClaimed, NEW e \in Executors,
       WriteClaim(e)
  PROVE  UnfinishedIsClaimed'
<1>0. pc[e] = "WRITE_CLAIM" /\ written' = written /\ trouble' = trouble /\ recovered' = recovered
      /\ outcome' = outcome
  BY DEF WriteClaim, Step, local
<1>1. CASE claim' = claim
  BY <1>0, <1>1 DEF UnfinishedIsClaimed, Spent, Mine
<1>2. CASE claim # NoClaim /\ claim.by = e
  BY <1>0, <1>2, MineIsClaim DEF UnfinishedIsClaimed, Spent, ClaimInv,
       ClaimNames, Reported, Acquiring
<1> QED BY <1>1, <1>2 DEF WriteClaim

LEMMA UnfinishedCleared ==
  ASSUME TypeOK, ClaimInv, Reported, UnfinishedIsClaimed, ClearClaim
  PROVE  UnfinishedIsClaimed'
<1>0. review.step = "CLEAR" /\ written' = written /\ trouble' = trouble /\ recovered' = recovered
      /\ outcome' = outcome /\ Reviewed \in recovered
  BY DEF ClearClaim, Reviewing, local, ClaimInv, ReviewsEnded
<1>1. ASSUME NEW e \in Executors, claim = Mine(e, "APPLYING") PROVE Spent(ProposalOf[e])
  <2>1. review.claim = claim /\ claim.by = e
    BY <1>0, <1>1, MineIsClaim DEF ClaimInv, Undisturbed, Committed
  <2>2. Reviewed.claim.by = e BY <2>1 DEF Reviewed
  <2> QED BY <1>0, <2>2 DEF Spent
<1> QED BY <1>0, <1>1 DEF UnfinishedIsClaimed, Spent


LEMMA UnfinishedStep ==
  ASSUME MutationInv, [Next]_vars
  PROVE  UnfinishedIsClaimed'
<1>. USE MutationAssumption, BytesAssumption DEF TypeOK, Places, Claim, Mine, Acquiring,
     Preparing, Applying, Releasing,
          Ended, Goto, Step, Quiet, Faultless, GivesUp, Report, Reviewing,
          disk, local, counts, ClaimInv, ReviewTyped, MutationInv,
          UnfinishedIsClaimed, Owned, ClaimNames, Undisturbed, Committed,
          Reported, ReviewsEnded, Reviewed, Spent
<1>1. ASSUME NEW e \in Executors, CheckRecovered(e) PROVE UnfinishedIsClaimed'
  BY <1>1 DEF CheckRecovered
<1>2. ASSUME NEW e \in Executors, CreateClaim(e) PROVE UnfinishedIsClaimed'
  BY <1>2, UnfinishedCreated
<1>3. ASSUME NEW e \in Executors, WriteClaim(e) PROVE UnfinishedIsClaimed'
  BY <1>3, UnfinishedWritten
<1>4. ASSUME NEW e \in Executors, Register(e) PROVE UnfinishedIsClaimed'
  BY <1>4 DEF Register
<1>5. ASSUME NEW e \in Executors, TakeOver(e) PROVE UnfinishedIsClaimed'
  BY <1>5 DEF TakeOver
<1>6. ASSUME NEW e \in Executors, Unlink(e) PROVE UnfinishedIsClaimed'
  BY <1>6 DEF Unlink
<1>7. ASSUME NEW e \in Executors, Capture(e) PROVE UnfinishedIsClaimed'
  BY <1>7 DEF Capture
<1>8. ASSUME NEW e \in Executors, RunAgent(e) PROVE UnfinishedIsClaimed'
  BY <1>8 DEF RunAgent
<1>9. ASSUME NEW e \in Executors, BeginTargetMutation(e) PROVE UnfinishedIsClaimed'
  BY <1>9 DEF BeginTargetMutation
<1>10. ASSUME NEW e \in Executors, Publish(e) PROVE UnfinishedIsClaimed'
  BY <1>10 DEF Publish
<1>11. ASSUME NEW e \in Executors, CheckTarget(e) PROVE UnfinishedIsClaimed'
  BY <1>11 DEF CheckTarget
<1>12. ASSUME NEW e \in Executors, WriteTarget(e) PROVE UnfinishedIsClaimed'
  BY <1>12 DEF WriteTarget
<1>13. ASSUME NEW e \in Executors, WriteFails(e) PROVE UnfinishedIsClaimed'
  BY <1>13 DEF WriteFails
<1>14. ASSUME NEW e \in Executors, VerifyTarget(e) PROVE UnfinishedIsClaimed'
  BY <1>14 DEF VerifyTarget
<1>15. ASSUME NEW e \in Executors, ValidateApplied(e) PROVE UnfinishedIsClaimed'
  BY <1>15 DEF ValidateApplied
<1>16. ASSUME NEW e \in Executors, RollBack(e) PROVE UnfinishedIsClaimed'
  BY <1>16 DEF RollBack
<1>17. ASSUME NEW e \in Executors, Restore(e) PROVE UnfinishedIsClaimed'
  BY <1>17 DEF Restore
<1>18. ASSUME NEW e \in Executors, ProveRolledBack(e) PROVE UnfinishedIsClaimed'
  BY <1>18 DEF ProveRolledBack
<1>19. ASSUME NEW e \in Executors, Evidence(e) PROVE UnfinishedIsClaimed'
  BY <1>19 DEF Evidence
<1>20. ASSUME NEW e \in Executors, Release(e) PROVE UnfinishedIsClaimed'
  BY <1>20 DEF Release
<1>21. ASSUME NEW e \in Executors, RemoveClaim(e) PROVE UnfinishedIsClaimed'
  BY <1>21 DEF RemoveClaim
<1>22. CASE Inspect
  BY <1>22 DEF Inspect
<1>23. CASE Confirm
  BY <1>23 DEF Confirm
<1>24. CASE RecordRecovery
  BY <1>24 DEF RecordRecovery
<1>25. CASE Recheck
  BY <1>25 DEF Recheck
<1>26. CASE ClearClaim
  BY <1>26, UnfinishedCleared
<1>27. CASE Edit
  BY <1>27 DEF Edit
<1>28. ASSUME NEW server \in Servers, Die(server) PROVE UnfinishedIsClaimed'
  BY <1>28 DEF Die
<1>29. CASE UNCHANGED vars
  BY <1>29 DEF vars
<1> QED
  BY <1>1, <1>2, <1>3, <1>4, <1>5, <1>6, <1>7, <1>8, <1>9, <1>10, <1>11, <1>12, <1>13,
       <1>14, <1>15, <1>16, <1>17, <1>18, <1>19, <1>20, <1>21, <1>22, <1>23, <1>24, <1>25,
            <1>26, <1>27, <1>28, <1>29 DEF Next, Acquire, Prepare, Apply, Reconcile

-----------------------------------------------------------------------------
(* Whose bytes are where.                                                  *)

LEMMA ProvenanceAcquiring ==
  ASSUME TypeOK, Provenance, NEW e \in Executors, NEW next \in Acquiring,
         pc[e] \in Acquiring, UNCHANGED <<file, claim, original>>,
         \/ pc' = [pc EXCEPT ![e] = next] /\ outcome' = outcome
         \/ /\ pc' = [pc EXCEPT ![e] = "DONE"]
            /\ outcome' = [outcome EXCEPT ![e] = "NO_TARGET_CHANGE"]
  PROVE  Provenance'
<1>0. pc \in [Executors -> Places] /\ outcome \in [Executors -> Outcomes]
  BY DEF TypeOK, Places
<1>. USE DEF Provenance, Settled, Harmless, Acquiring, Preparing, Releasing, Ended
<1>1. CASE pc' = [pc EXCEPT ![e] = next] /\ outcome' = outcome
  BY <1>0, <1>1
<1>2. CASE /\ pc' = [pc EXCEPT ![e] = "DONE"]
           /\ outcome' = [outcome EXCEPT ![e] = "NO_TARGET_CHANGE"]
  BY <1>0, <1>2
<1> QED BY <1>1, <1>2

LEMMA ProvenanceCreated ==
  ASSUME TypeOK, ClaimInv, Reported, Provenance, NEW e \in Executors,
       CreateClaim(e)
  PROVE  Provenance'
<1>0. pc[e] = "CREATE" /\ original' = original /\ file' = file
  /\ pc \in [Executors -> Places]
  /\ outcome \in [Executors -> Outcomes] /\ original \in [Executors -> [Paths
       -> Bytes]]
  BY DEF CreateClaim, disk, local, GivesUp, TypeOK, Places
<1>1. CASE claim' = claim
  BY <1>0, <1>1, KeptClaim, ProvenanceAcquiring DEF Acquiring
<1>2. CASE claim' # claim
  BY <1>0, <1>2, CreatedClaim DEF Provenance, Settled, Harmless, Acquiring,
       Preparing, Releasing, Ended
<1> QED BY <1>1, <1>2

LEMMA ProvenancePublished ==
  ASSUME TypeOK, ClaimInv, Reported, Provenance, NEW e \in Executors,
       Publish(e)
  PROVE  Provenance'
<1>0. pc \in [Executors -> Places]
   /\ pc[e] = "PUBLISH" /\ pc' = [pc EXCEPT ![e] = "CHECK"] /\ UNCHANGED
        <<file, original, outcome>>
   /\ claim = Mine(e, "PREPARING") /\ claim' = Mine(e, "APPLYING")
  BY DEF TypeOK, Places, Publish, Step, Goto, ClaimInv, Owned, local
<1>1. claim # NoClaim /\ claim.by = e /\ claim'.by = e BY <1>0, MineIsClaim
<1> QED BY <1>0, <1>1 DEF Provenance, Settled, Harmless, Acquiring, Preparing, Releasing,
     Ended

LEMMA ProvenanceCaptured ==
  ASSUME TypeOK, ClaimInv, Reported, Provenance, NEW e \in Executors,
       Capture(e)
  PROVE  Provenance'
<1>0. pc \in [Executors -> Places]
   /\ pc[e] = "CAPTURE" /\ file' = file /\ claim' = claim
   /\ outcome \in [Executors -> Outcomes] /\ original \in [Executors -> [Paths
        -> Bytes]]
  BY DEF TypeOK, Places, Capture, disk, GivesUp
<1>1. CASE original' = original
  <2>1. \/ pc' = [pc EXCEPT ![e] = "AGENT"] /\ outcome' = outcome
        \/ pc' = [pc EXCEPT ![e] = "RELEASE"] /\ outcome' = [outcome EXCEPT
             ![e] = "NO_TARGET_CHANGE"]
    BY <1>0 DEF Capture, GivesUp, Goto, local, Acquiring
  <2>2. CASE pc' = [pc EXCEPT ![e] = "AGENT"] /\ outcome' = outcome
    BY <1>0, <1>1, <2>2
       DEF Provenance, Settled, Harmless, Acquiring, Preparing, Releasing, Ended
  <2>3. CASE /\ pc' = [pc EXCEPT ![e] = "RELEASE"]
             /\ outcome' = [outcome EXCEPT ![e] = "NO_TARGET_CHANGE"]
    BY <1>0, <1>1, <2>3
       DEF Provenance, Settled, Harmless, Acquiring, Preparing, Releasing, Ended
  <2> QED BY <2>1, <2>2, <2>3
<1>2. CASE original' = [original EXCEPT ![e] = file]
                /\ pc' = [pc EXCEPT ![e] = "AGENT"] /\ outcome' = outcome
  <2>1. ASSUME NEW f \in Executors, NEW p \in Paths, claim # NoClaim, claim.by
       = e, file[p] = f
        PROVE Settled(f)
    <3>1. pc[f] \notin Applying
      BY <1>0, <2>1, MineIsClaim DEF ClaimInv, Owned, Applying
    <3> QED BY <1>0, <2>1, <3>1 DEF Provenance, Settled, Places
  <2>2. \A p \in Paths : file[p] # e BY <1>0 DEF Provenance, Preparing
  <2> QED BY <1>0, <1>2, <2>1, <2>2 DEF Provenance, Settled, Acquiring,
       Preparing, Releasing, Ended
<1> QED BY <1>0, <1>1, <1>2 DEF Capture, GivesUp, Goto, local

LEMMA ProvenanceRestored ==
  ASSUME TypeOK, ClaimInv, Reported, Provenance, NEW e \in Executors,
       Restore(e)
  PROVE  Provenance'
<1>0. pc \in [Executors -> Places]
   /\ pc[e] = "RESTORE" /\ UNCHANGED <<claim, original, outcome>>
   /\ pc' = [pc EXCEPT ![e] = "ROLLBACK"] /\ at[e] \in Paths
   /\ outcome \in [Executors -> Outcomes] /\ file \in [Paths -> Bytes]
   /\ file' \in {file, [file EXCEPT ![at[e]] = original[e][at[e]]]}
  BY DEF TypeOK, Places, Restore, Step, Goto
<1>1. claim # NoClaim /\ claim.by = e
  BY <1>0, MineIsClaim DEF ClaimInv, Owned, Applying
<1>2. \A f \in Executors : original[e][at[e]] = f => Settled(f)
  BY <1>0, <1>1 DEF Provenance
<1> QED BY <1>0, <1>2 DEF Provenance, Settled, Harmless, Acquiring, Preparing, Releasing,
     Ended


LEMMA ProvenanceStep ==
  ASSUME MutationInv, [Next]_vars
  PROVE  Provenance'
<1>. USE MutationAssumption, BytesAssumption DEF TypeOK, Places, Claim, Mine, Acquiring,
     Preparing, Applying, Releasing,
          Ended, Goto, Step, Quiet, Faultless, GivesUp, Report, Reviewing,
          disk, local, counts, ClaimInv, ReviewTyped, MutationInv, Provenance,
          Settled, Harmless, Owned, Bytes, Reported, ClaimNames, Intended,
          MatchesOriginal
<1>1. ASSUME NEW e \in Executors, CheckRecovered(e) PROVE Provenance'
  <2>1. pc[e] = "START" /\ UNCHANGED <<file, claim, original>>
    BY <1>1 DEF CheckRecovered
  <2>2. \/ pc' = [pc EXCEPT ![e] = "CREATE"] /\ outcome' = outcome
        \/ /\ pc' = [pc EXCEPT ![e] = "DONE"]
           /\ outcome' = [outcome EXCEPT ![e] = "NO_TARGET_CHANGE"]
    BY <1>1 DEF CheckRecovered
  <2> QED BY <2>1, <2>2, ProvenanceAcquiring, Zenon
<1>2. ASSUME NEW e \in Executors, CreateClaim(e) PROVE Provenance'
  BY <1>2, ProvenanceCreated
<1>3. ASSUME NEW e \in Executors, WriteClaim(e) PROVE Provenance'
  BY <1>3 DEF WriteClaim
<1>4. ASSUME NEW e \in Executors, Register(e) PROVE Provenance'
  BY <1>4 DEF Register
<1>5. ASSUME NEW e \in Executors, TakeOver(e) PROVE Provenance'
  <2>1. pc[e] = "TAKEOVER" /\ UNCHANGED <<file, claim, original>>
    BY <1>5 DEF TakeOver
  <2>2. \/ pc' = [pc EXCEPT ![e] = "CREATE"] /\ outcome' = outcome
        \/ pc' = [pc EXCEPT ![e] = "UNLINK"] /\ outcome' = outcome
        \/ /\ pc' = [pc EXCEPT ![e] = "DONE"]
           /\ outcome' = [outcome EXCEPT ![e] = "NO_TARGET_CHANGE"]
    BY <1>5 DEF TakeOver
  <2> QED BY <2>1, <2>2, ProvenanceAcquiring, Zenon
<1>6. ASSUME NEW e \in Executors, Unlink(e) PROVE Provenance'
  BY <1>6 DEF Unlink
<1>7. ASSUME NEW e \in Executors, Capture(e) PROVE Provenance'
  BY <1>7, ProvenanceCaptured
<1>8. ASSUME NEW e \in Executors, RunAgent(e) PROVE Provenance'
  BY <1>8 DEF RunAgent
<1>9. ASSUME NEW e \in Executors, BeginTargetMutation(e) PROVE Provenance'
  BY <1>9 DEF BeginTargetMutation
<1>10. ASSUME NEW e \in Executors, Publish(e) PROVE Provenance'
  BY <1>10, ProvenancePublished
<1>11. ASSUME NEW e \in Executors, CheckTarget(e) PROVE Provenance'
  BY <1>11 DEF CheckTarget
<1>12. ASSUME NEW e \in Executors, WriteTarget(e) PROVE Provenance'
  BY <1>12 DEF WriteTarget
<1>13. ASSUME NEW e \in Executors, WriteFails(e) PROVE Provenance'
  BY <1>13 DEF WriteFails
<1>14. ASSUME NEW e \in Executors, VerifyTarget(e) PROVE Provenance'
  BY <1>14 DEF VerifyTarget
<1>15. ASSUME NEW e \in Executors, ValidateApplied(e) PROVE Provenance'
  BY <1>15 DEF ValidateApplied
<1>16. ASSUME NEW e \in Executors, RollBack(e) PROVE Provenance'
  BY <1>16 DEF RollBack
<1>17. ASSUME NEW e \in Executors, Restore(e) PROVE Provenance'
  BY <1>17, ProvenanceRestored
<1>18. ASSUME NEW e \in Executors, ProveRolledBack(e) PROVE Provenance'
  BY <1>18 DEF ProveRolledBack
<1>19. ASSUME NEW e \in Executors, Evidence(e) PROVE Provenance'
  BY <1>19 DEF Evidence
<1>20. ASSUME NEW e \in Executors, Release(e) PROVE Provenance'
  BY <1>20 DEF Release
<1>21. ASSUME NEW e \in Executors, RemoveClaim(e) PROVE Provenance'
  BY <1>21 DEF RemoveClaim
<1>22. CASE Inspect
  BY <1>22 DEF Inspect
<1>23. CASE Confirm
  BY <1>23 DEF Confirm
<1>24. CASE RecordRecovery
  BY <1>24 DEF RecordRecovery
<1>25. CASE Recheck
  BY <1>25 DEF Recheck
<1>26. CASE ClearClaim
  BY <1>26 DEF ClearClaim
<1>27. CASE Edit
  BY <1>27 DEF Edit
<1>28. ASSUME NEW server \in Servers, Die(server) PROVE Provenance'
  BY <1>28 DEF Die
<1>29. CASE UNCHANGED vars
  BY <1>29 DEF vars
<1> QED
  BY <1>1, <1>2, <1>3, <1>4, <1>5, <1>6, <1>7, <1>8, <1>9, <1>10, <1>11, <1>12, <1>13,
       <1>14, <1>15, <1>16, <1>17, <1>18, <1>19, <1>20, <1>21, <1>22, <1>23, <1>24, <1>25,
            <1>26, <1>27, <1>28, <1>29 DEF Next, Acquire, Prepare, Apply, Reconcile


LEMMA LookedStep ==
  ASSUME MutationInv, [Next]_vars
  PROVE  Looked'
<1>. USE MutationAssumption, BytesAssumption DEF TypeOK, Places, Claim, Mine, Acquiring,
     Preparing, Applying, Releasing,
          Ended, Goto, Step, Quiet, Faultless, GivesUp, Report, Reviewing,
          disk, local, counts, ClaimInv, ReviewTyped, MutationInv, Looked,
          Owned, Intended, Exposing
<1>1. ASSUME NEW e \in Executors, CheckRecovered(e) PROVE Looked'
  BY <1>1 DEF CheckRecovered
<1>2. ASSUME NEW e \in Executors, CreateClaim(e) PROVE Looked'
  BY <1>2 DEF CreateClaim
<1>3. ASSUME NEW e \in Executors, WriteClaim(e) PROVE Looked'
  BY <1>3 DEF WriteClaim
<1>4. ASSUME NEW e \in Executors, Register(e) PROVE Looked'
  BY <1>4 DEF Register
<1>5. ASSUME NEW e \in Executors, TakeOver(e) PROVE Looked'
  BY <1>5 DEF TakeOver
<1>6. ASSUME NEW e \in Executors, Unlink(e) PROVE Looked'
  BY <1>6 DEF Unlink
<1>7. ASSUME NEW e \in Executors, Capture(e) PROVE Looked'
  BY <1>7 DEF Capture
<1>8. ASSUME NEW e \in Executors, RunAgent(e) PROVE Looked'
  BY <1>8 DEF RunAgent
<1>9. ASSUME NEW e \in Executors, BeginTargetMutation(e) PROVE Looked'
  BY <1>9 DEF BeginTargetMutation
<1>10. ASSUME NEW e \in Executors, Publish(e) PROVE Looked'
  BY <1>10 DEF Publish
<1>11. ASSUME NEW e \in Executors, CheckTarget(e) PROVE Looked'
  BY <1>11 DEF CheckTarget
<1>12. ASSUME NEW e \in Executors, WriteTarget(e) PROVE Looked'
  BY <1>12 DEF WriteTarget
<1>13. ASSUME NEW e \in Executors, WriteFails(e) PROVE Looked'
  BY <1>13 DEF WriteFails
<1>14. ASSUME NEW e \in Executors, VerifyTarget(e) PROVE Looked'
  BY <1>14 DEF VerifyTarget
<1>15. ASSUME NEW e \in Executors, ValidateApplied(e) PROVE Looked'
  BY <1>15 DEF ValidateApplied
<1>16. ASSUME NEW e \in Executors, RollBack(e) PROVE Looked'
  BY <1>16 DEF RollBack
<1>17. ASSUME NEW e \in Executors, Restore(e) PROVE Looked'
  BY <1>17 DEF Restore
<1>18. ASSUME NEW e \in Executors, ProveRolledBack(e) PROVE Looked'
  BY <1>18 DEF ProveRolledBack
<1>19. ASSUME NEW e \in Executors, Evidence(e) PROVE Looked'
  BY <1>19 DEF Evidence
<1>20. ASSUME NEW e \in Executors, Release(e) PROVE Looked'
  BY <1>20 DEF Release
<1>21. ASSUME NEW e \in Executors, RemoveClaim(e) PROVE Looked'
  BY <1>21 DEF RemoveClaim
<1>22. CASE Inspect
  BY <1>22 DEF Inspect
<1>23. CASE Confirm
  BY <1>23 DEF Confirm
<1>24. CASE RecordRecovery
  BY <1>24 DEF RecordRecovery
<1>25. CASE Recheck
  BY <1>25 DEF Recheck
<1>26. CASE ClearClaim
  BY <1>26 DEF ClearClaim
<1>27. CASE Edit
  BY <1>27 DEF Edit
<1>28. ASSUME NEW server \in Servers, Die(server) PROVE Looked'
  BY <1>28 DEF Die
<1>29. CASE UNCHANGED vars
  BY <1>29 DEF vars
<1> QED
  BY <1>1, <1>2, <1>3, <1>4, <1>5, <1>6, <1>7, <1>8, <1>9, <1>10, <1>11, <1>12, <1>13,
       <1>14, <1>15, <1>16, <1>17, <1>18, <1>19, <1>20, <1>21, <1>22, <1>23, <1>24, <1>25,
            <1>26, <1>27, <1>28, <1>29 DEF Next, Acquire, Prepare, Apply, Reconcile

-----------------------------------------------------------------------------
(* The theorems.                                                           *)

LEMMA InitInv ==
  ASSUME Init
  PROVE  ClaimInv /\ Reported /\ Provenance /\ Looked /\ UnfinishedIsClaimed
<1>0. file \in [Paths -> {Absent, Base}] BY DEF Init
<1>1. ClaimInv
  BY MutationAssumption DEF Init, ClaimInv, DeadServers, ClaimNames, Owned, Undisturbed,
       Committed, ReviewsEnded, ReviewTyped, Applying
<1>2. Reported BY DEF Init, Reported, Acquiring, Preparing, Applying, Releasing
<1>3. Provenance BY <1>0, BytesAssumption DEF Init, Provenance, Harmless, Settled
<1>4. Looked BY DEF Init, Looked
<1>5. UnfinishedIsClaimed BY DEF Init, UnfinishedIsClaimed
<1> QED BY <1>1, <1>2, <1>3, <1>4, <1>5

(* The inductive invariant, for processes that are not suspended between   *)
(* two file operations for as long as an agent's turn takes.               *)
LEMMA MutationInvariant ==
  ASSUME ~ Suspensions
  PROVE  Spec => []MutationInv
<1>1. Init => MutationInv
  BY InitType, InitInv DEF MutationInv
<1>2. MutationInv /\ [Next]_vars => MutationInv'
  <2> SUFFICES ASSUME MutationInv, [Next]_vars PROVE MutationInv'
    OBVIOUS
  <2>1. TypeOK' BY TypeStep DEF MutationInv, ClaimInv, ReviewsEnded
  <2>2. ClaimInv'
    BY DeadServersStep, ClaimNamesStep, OwnedStep, UndisturbedStep, ReviewsEndedStep
       DEF ClaimInv
  <2> QED
    BY <2>1, <2>2, ReportedStep, ProvenanceStep, LookedStep, UnfinishedStep DEF MutationInv
<1> QED BY <1>1, <1>2, PTL DEF Spec

(* Two executors never change the workspace's files at the same time.      *)
THEOREM MutualExclusion ==
  ASSUME ~ Suspensions
  PROVE  Spec => []OneMutator
<1>1. MutationInv => OneMutator
  BY MineIsClaim DEF MutationInv, ClaimInv, Owned, OneMutator
<1> QED BY <1>1, MutationInvariant, PTL

(* Unfinished work is claimed, and a claim nobody will remove stands for   *)
(* unfinished work.                                                        *)
THEOREM ClaimsAreTrue ==
  ASSUME ~ Suspensions
  PROVE  Spec => []ClaimTellsTruth
<1>1. MutationInv => ClaimTellsTruth
  BY DEF MutationInv, ClaimInv, ClaimNames, ClaimTellsTruth, ClaimExplained
<1> QED BY <1>1, MutationInvariant, PTL

(* An executor that reports no change or a rollback has left no byte.      *)
THEOREM RolledBackWhole ==
  ASSUME ~ Suspensions
  PROVE  Spec => []NothingLeftBehind
<1>1. MutationInv => NothingLeftBehind
  BY DEF MutationInv, Provenance, Harmless, NothingLeftBehind
<1> QED BY <1>1, MutationInvariant, PTL

(* Bytes of others are only overwritten where nobody could have seen them. *)
THEOREM ForeignBytesSurvive ==
  ASSUME ~ Suspensions
  PROVE  Spec => ForeignBytesKept
<1>. DEFINE Kept ==
       \A p \in Paths : file[p] = Foreign /\ file'[p] # Foreign /\ edits' = edits =>
         \/ p \in exposed
         \/ \E e \in Executors : pc[e] = "WRITE" /\ original[e][p] = Foreign
<1>1. MutationInv /\ [Next]_vars => Kept
  <2> SUFFICES ASSUME MutationInv, [Next]_vars PROVE Kept
    OBVIOUS
  <2>1. ASSUME NEW e \in Executors, WriteTarget(e) \/ WriteFails(e) PROVE Kept
    <3>1. pc[e] = "WRITE" /\ file \in [Paths -> Bytes] /\ at[e] \in Paths
          /\ \A p \in Paths : p # at[e] => file'[p] = file[p]
      BY <2>1 DEF MutationInv, TypeOK, Places, WriteTarget, WriteFails, Step
    <3> QED BY <3>1 DEF MutationInv, Looked
  <2>2. ASSUME NEW e \in Executors, Restore(e) PROVE Kept
    <3>1. pc[e] = "RESTORE" /\ file \in [Paths -> Bytes] /\ at[e] \in Paths
          /\ \A p \in Paths : p # at[e] => file'[p] = file[p]
      BY <2>2 DEF MutationInv, TypeOK, Places, Restore, Step
    <3>2. Intended(e, at[e]) # Foreign
      BY BytesAssumption DEF Intended
    <3> QED BY <3>1, <3>2 DEF MutationInv, Looked
  <2>3. CASE Edit
    BY <2>3 DEF Edit, MutationInv, TypeOK, Places
  <2>4. CASE file' = file
    BY <2>4
  <2> QED
    BY <2>1, <2>2, <2>3, <2>4
       DEF Next, Acquire, Prepare, Apply, Reconcile, CheckRecovered, CreateClaim,
           WriteClaim, Register, TakeOver, Unlink, Capture, RunAgent,
           BeginTargetMutation, Publish, CheckTarget, VerifyTarget, ValidateApplied,
           RollBack, ProveRolledBack, Evidence, Release, RemoveClaim, Inspect, Confirm,
           RecordRecovery, Recheck, ClearClaim, Die, GivesUp, disk, vars
<1> QED BY <1>1, MutationInvariant, PTL DEF Spec, ForeignBytesKept
==============================================================================
