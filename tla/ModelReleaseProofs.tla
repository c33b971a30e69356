-------------------------- MODULE ModelReleaseProofs --------------------------
(***************************************************************************)
(* Theorems about ModelRelease, for any models, snapshots, requests and    *)
(* bounds.                                                                 *)
(***************************************************************************)
EXTENDS ModelRelease, TLAPS

-----------------------------------------------------------------------------
(* Sessions.                                                               *)

\* A flush writes a row.
LEMMA UpdatedType ==
  ASSUME NEW row \in Row, NEW read \in Row, NEW new \in Row
  PROVE  Updated(row, read, new) \in Row
BY DEF Row, Updated, Changed

\* A flush over the row that the session had read leaves exactly the new row.
LEMMA UpdatedExactly ==
  ASSUME NEW row \in Row, NEW new \in Row
  PROVE  Updated(row, row, new) = new
BY DEF Row, Updated, Changed

\* A committed write is a row.
LEMMA WriteType ==
  ASSUME NEW a \in Actors, NEW new \in Row, Write(a, new),
         release \in Row, dirty \in Row, copy[a] \in Row
  PROVE  release' \in Row /\ dirty' \in Row /\ lock' = NoActor
BY UpdatedType DEF Write, View

\* A commit keeps the rows' types.
LEMMA CommitType ==
  ASSUME NEW a, Commit(a) \/ RollBack(a), release \in Row, dirty \in Row,
         lock \in Actors \union {NoActor}
  PROVE  release' \in Row /\ dirty' \in Row /\ lock' \in Actors \union {NoActor}
BY DEF Commit, RollBack, View

-----------------------------------------------------------------------------
(* Type correctness.                                                       *)

\* What a deployer read is the row with its candidate, and a snapshot in use
\* has a model: the two facts that make the written rows rows.
CopyHasCandidate ==
  \A d \in Deployers : pc[d] \in {"gate", "legacy", "switch"} => copy[d].candidate = job[d]
UsedHaveModels ==
  \A i \in SnapshotIds : snapshot[i].status # "UNUSED" => snapshot[i].model \in Models
TypeInv == TypeOK /\ CopyHasCandidate /\ UsedHaveModels

\* The own view of a run is a run, and committing a run keeps the type.
LEMMA CommitRunType ==
  ASSUME TypeOK, NEW d \in Deployers, job[d] \in Models, NEW r \in Run, CommitRun(d, r)
  PROVE  run' \in [Models -> Run]
BY DEF TypeOK, CommitRun

LEMMA OwnRunType ==
  ASSUME TypeOK, NEW d \in Deployers, job[d] \in Models
  PROVE  OwnRun(d) \in Run
BY DEF TypeOK, OwnRun, Run

\* A step that ends a deployer's attempt.
LEMMA FailsType ==
  ASSUME TypeInv, NEW d \in Deployers, Fails(d) \/ Postpone(d), pc[d] # "idle",
         faults' \in 0..MaxFaults, cutShort' \subseteq Models, SameServing
  PROVE  TypeInv'
<1> job[d] \in Models BY DEF TypeInv, TypeOK
<1>1. run' \in [Models -> Run]
  BY CommitRunType, OwnRunType DEF TypeInv, TypeOK, Fails, Postpone
<1>2. release' \in Row /\ dirty' \in Row /\ lock' \in Actors \union {NoActor}
  BY CommitType DEF TypeInv, TypeOK, Fails, Postpone
<1>3. CopyHasCandidate' /\ UsedHaveModels'
  BY DEF TypeInv, CopyHasCandidate, UsedHaveModels, Fails, Postpone, Stay, Goto, TypeOK,
         Actors, Deployers, DeployerSteps
<1> QED
  BY <1>1, <1>2, <1>3
  DEF TypeInv, TypeOK, Fails, Postpone, Stay, Goto, SameServing, Actors, Deployers,
      DeployerSteps, RollbackSteps

\* The steps of a deployer keep the types.
LEMMA DeployerTypes ==
  ASSUME TypeInv, NEW d \in Deployers,
         \/ DeployerGoesOn(d) \/ Crash(d)
         \/ ReloadFails(d) \/ GateFails(d) \/ SearchReloadFails(d)
  PROVE  TypeInv'
<1> USE DEF TypeInv
<1>0. pc[d] # "idle" => job[d] \in Models /\ OwnRun(d) \in Run
  BY OwnRunType DEF TypeOK
<1>m. ASSUME NEW s \in DeployerSteps, Goto(d, s), SameRows, SameServing,
             UNCHANGED <<copy, job, handling, target, request, faults, cutShort>>,
             pc[d] # "idle",
             s \in {"gate", "legacy", "switch"} => pc[d] \in {"gate", "legacy", "switch"}
      PROVE  TypeInv'
  BY <1>m, <1>0 DEF TypeOK, CopyHasCandidate, UsedHaveModels, Goto, SameRows, SameServing,
         Actors, Deployers, DeployerSteps, RollbackSteps
<1>f. UNCHANGED <<faults, cutShort>> => faults' \in 0..MaxFaults /\ cutShort' \subseteq Models
  BY DEF TypeOK
<1>g. Fault => faults' \in 0..MaxFaults
  BY ReleaseAssumption DEF TypeOK, Fault
<1>s. cutShort \subseteq Models BY DEF TypeOK
<1>1. CASE OpenRead(d)
  BY <1>1, <1>m, <1>f, FailsType DEF OpenRead, DeployerSteps
<1>2. CASE OpenWrite(d)
  <2>1. CASE release.status = "STABLE"
    <3>1. dirty' \in Row
      BY <1>2, <2>1, <1>0 DEF OpenWrite, TypeOK, Row, OrNone
    <3> QED
      BY <1>2, <2>1, <3>1 DEF OpenWrite, TypeOK, CopyHasCandidate, UsedHaveModels, Goto,
         SameServing, Actors, Deployers, DeployerSteps, RollbackSteps
  <2> QED BY <1>2, <2>1, <1>f, FailsType DEF OpenWrite
<1>3. CASE Reload(d)
  <2>1. ReloadTargets \subseteq Models
    BY DEF ReloadTargets, TypeOK, Row, OrNone
  <2> QED
    BY <1>3, <2>1 DEF Reload, TypeOK, CopyHasCandidate, UsedHaveModels, Goto, SameRows,
       Actors, Deployers, DeployerSteps, RollbackSteps
<1>4. CASE ReloadFails(d)
  <2>1. ReloadTargets \subseteq Models
    BY DEF ReloadTargets, TypeOK, Row, OrNone
  <2> QED
    BY <1>4, <1>g, <2>1 DEF ReloadFails, TypeOK, CopyHasCandidate, UsedHaveModels, Goto,
       SameRows, Actors, Deployers, DeployerSteps, RollbackSteps
<1>5. CASE RecordFailure(d)
  <2> DEFINE n == run[job[d]].attempts + 1
             r == [OwnRun(d) EXCEPT !.attempts = n,
                     !.status = IF n >= MaxAttempts THEN "DEPLOYMENT_BLOCKED" ELSE @]
  <2>1. n \in Nat BY <1>5, <1>0 DEF TypeOK, Run, RecordFailure
  <2> HIDE DEF n
  <2>2. r \in Run BY <1>5, <1>0, <2>1 DEF Run, RecordFailure
  <2>3. CommitRun(d, r) BY <1>5 DEF RecordFailure, n
  <2> HIDE DEF r
  <2>4. run' \in [Models -> Run] BY <1>5, <1>0, <2>2, <2>3, CommitRunType DEF RecordFailure
  <2>5. release' \in Row /\ dirty' \in Row /\ lock' \in Actors \union {NoActor}
    BY <1>5, CommitType DEF RecordFailure, TypeOK
  <2> QED
    BY <1>5, <2>4, <2>5 DEF RecordFailure, Stay, TypeOK, CopyHasCandidate, UsedHaveModels,
       Goto, SameServing, Actors, Deployers, DeployerSteps, RollbackSteps
<1>6. CASE CutoverRead(d)
  <2>1. CASE View(d).status = "CANDIDATE_REINDEXING" /\ View(d).candidate = job[d]
    <3>1. View(d) \in Row BY DEF View, TypeOK
    <3> QED
      BY <1>6, <2>1, <3>1 DEF CutoverRead, TypeOK, CopyHasCandidate, UsedHaveModels, Goto,
         SameRows, SameServing, Actors, Deployers, DeployerSteps, RollbackSteps
  <2> QED BY <1>6, <2>1, <1>f, FailsType DEF CutoverRead
<1>7. CASE ReadinessGate(d)
  BY <1>7, <1>m, <1>f, FailsType DEF ReadinessGate, DeployerSteps
<1>8. CASE LegacyGate(d)
  BY <1>8, <1>m, <1>f, FailsType DEF LegacyGate, DeployerSteps
<1>9. CASE GateFails(d) BY <1>9, <1>g, <1>s, FailsType DEF GateFails
<1>10. CASE Switch(d)
  <2> DEFINE t == CutoverTime(d)
             new == [status |-> "STABLE", active |-> copy[d].candidate,
                     previous |-> copy[d].active, candidate |-> NoModel, switched |-> t]
             r == [OwnRun(d) EXCEPT !.cutover = t]
  <2>1. t \in Nat BY <1>10, <1>0 DEF CutoverTime, TypeOK, Run, Switch
  <2>2. copy[d] \in Row /\ copy[d].candidate \in Models /\ d \in Actors
    BY <1>10, <1>0 DEF TypeOK, CopyHasCandidate, Switch, Actors
  <2>3. /\ Write(d, new) /\ CommitRun(d, r)
        /\ RecordCutover(copy[d].candidate, t)
    BY <1>10 DEF Switch
  <2> HIDE DEF t
  <2>4. new \in Row BY <2>1, <2>2 DEF Row, OrNone
  <2>5. r \in Run BY <1>10, <1>0, <2>1 DEF Run, Switch
  <2> HIDE DEF new, r
  <2>6. release' \in Row /\ dirty' \in Row /\ lock' = NoActor
    BY <2>2, <2>3, <2>4, WriteType DEF TypeOK
  <2>7. run' \in [Models -> Run] BY <1>10, <1>0, <2>3, <2>5, CommitRunType DEF Switch
  <2>8. snapshot' \in [SnapshotIds -> Snapshot] /\ UsedHaveModels'
    BY <2>1, <2>2, <2>3
    DEF RecordCutover, TypeOK, UsedHaveModels, Snapshot, Aged, OrNone
  <2> QED
    BY <1>10, <2>6, <2>7, <2>8 DEF Switch, TypeOK, CopyHasCandidate, Goto, SameServing,
       Actors, Deployers, DeployerSteps, RollbackSteps
<1>11. CASE SearchReload(d, "complete")
  BY <1>11 DEF SearchReload, TypeOK, CopyHasCandidate, UsedHaveModels, Goto, SameRows, Row,
     Actors, Deployers, DeployerSteps, RollbackSteps
<1>12. CASE SearchReloadFails(d) BY <1>12, <1>0, <1>g, <1>s, FailsType DEF SearchReloadFails
<1>13. CASE Complete(d)
  <2> DEFINE r == [OwnRun(d) EXCEPT !.status = "DEPLOY_COMPLETED", !.attempts = 0]
  <2>1. r \in Run /\ CommitRun(d, r) BY <1>13, <1>0 DEF Run, Complete
  <2> HIDE DEF r
  <2>2. run' \in [Models -> Run] BY <1>13, <1>0, <2>1, CommitRunType DEF Complete
  <2>3. release' \in Row /\ dirty' \in Row /\ lock' \in Actors \union {NoActor}
    BY <1>13, CommitType DEF Complete, TypeOK
  <2> QED
    BY <1>13, <2>2, <2>3 DEF Complete, Stay, TypeOK, CopyHasCandidate, UsedHaveModels,
       Goto, SameServing, Actors, Deployers, DeployerSteps, RollbackSteps
<1>14. CASE Crash(d)
  <2>1. release' \in Row /\ dirty' \in Row /\ lock' \in Actors \union {NoActor}
    BY <1>14, CommitType DEF Crash, TypeOK
  <2> QED
    BY <1>14, <1>0, <1>g, <1>s, <2>1 DEF Crash, Stay, TypeOK, CopyHasCandidate, UsedHaveModels,
       Goto, SameServing, Actors, Deployers, DeployerSteps, RollbackSteps
<1> QED
  BY <1>1, <1>2, <1>3, <1>4, <1>5, <1>6, <1>7, <1>8, <1>9, <1>10, <1>11, <1>12, <1>13,
     <1>14 DEF DeployerGoesOn

\* The steps of the rollback worker keep the types.
LEMMA RollbackTypes ==
  ASSUME TypeInv, RollbackGoesOn \/ RollbackFails \/ IndexGone
  PROVE  TypeInv'
<1> USE DEF TypeInv
<1>a. "rollback" \in Actors BY DEF Actors
<1>g. Fault => faults' \in 0..MaxFaults
  BY ReleaseAssumption DEF TypeOK, Fault
<1> USE DEF TypeOK, CopyHasCandidate, UsedHaveModels, Stay, Goto, SameRows, SameServing,
            Actors, Deployers, DeployerSteps, RollbackSteps
<1>1. CASE RollbackRead
  <2>1. target' \in OrNone BY <1>1 DEF RollbackRead, Targets, SnapshotsWith, Snapshot
  <2>2. pc' \in [Actors -> DeployerSteps \union RollbackSteps]
        /\ pc' = [pc EXCEPT !["rollback"] = pc'["rollback"]]
        /\ pc'["rollback"] \in {"ack", "check", "mark"}
    BY <1>1 DEF RollbackRead
  <2> QED BY <1>1, <2>1, <2>2 DEF RollbackRead
<1>2. CASE Mark
  <2>1. Preparing \in Row BY DEF Preparing, Row
  <2>2. dirty' \in Row BY <1>2, <2>1, UpdatedType DEF Mark
  <2> QED BY <1>2, <2>1, <2>2 DEF Mark
<1>3. CASE CheckTarget
  <2>1. release' \in Row /\ dirty' \in Row /\ lock' \in Actors \union {NoActor}
    BY <1>3, CommitType DEF CheckTarget
  <2> QED BY <1>3, <2>1 DEF CheckTarget
<1>4. CASE IndexGone
  <2>1. release' \in Row /\ dirty' \in Row /\ lock' \in Actors \union {NoActor}
    BY <1>4, CommitType DEF IndexGone
  <2> QED BY <1>4, <1>g, <2>1 DEF IndexGone
<1>5. CASE Restore
  <2>1. PICK i \in SnapshotsWith("PREVIOUS_STABLE"), next \in SUBSET SnapshotsWith("SUPERSEDED") :
          /\ Write("rollback", [status |-> "STABLE", active |-> snapshot[i].model,
                                previous |-> NoModel, candidate |-> NoModel,
                                switched |-> clock + 1])
          /\ snapshot' = [j \in SnapshotIds |->
                            [snapshot[j] EXCEPT !.status = Restored(i, next, j)]]
    BY <1>5 DEF Restore
  <2>2. snapshot[i].model \in Models BY DEF SnapshotsWith
  <2>3. [status |-> "STABLE", active |-> snapshot[i].model, previous |-> NoModel,
         candidate |-> NoModel, switched |-> clock + 1] \in Row
    BY <2>2 DEF Row, OrNone
  <2>4. release' \in Row /\ dirty' \in Row /\ lock' = NoActor
    BY <1>a, <2>1, <2>3, WriteType
  <2>5. \A j \in SnapshotIds :
          /\ Restored(i, next, j) \in {"UNUSED", "ACTIVE", "PREVIOUS_STABLE", "SUPERSEDED",
                                        "ROLLED_BACK"}
          /\ Restored(i, next, j) # "UNUSED" => snapshot[j].status # "UNUSED"
    BY DEF Restored, SnapshotsWith, Snapshot
  <2>6. snapshot' \in [SnapshotIds -> Snapshot] /\ UsedHaveModels'
    BY <2>1, <2>5 DEF Snapshot
  <2> QED BY <1>5, <2>4, <2>6 DEF Restore
<1>6. CASE SearchReload("rollback", "ack")
  BY <1>6 DEF SearchReload, Row
<1>7. CASE Ack BY <1>7 DEF Ack, Request
<1>8. CASE RollbackFails
  <2>1. release' \in Row /\ dirty' \in Row /\ lock' \in Actors \union {NoActor}
    BY <1>8, CommitType DEF RollbackFails
  <2> QED BY <1>8, <1>g, <2>1 DEF RollbackFails
<1> QED
  BY <1>1, <1>2, <1>3, <1>4, <1>5, <1>6, <1>7, <1>8 DEF RollbackGoesOn

\* A process starts, a rollback is requested, or the reindex finishes.
LEMMA StartTypes ==
  ASSUME TypeInv, Scan \/ Train \/ RequestRollback \/ Receive \/ Reindex
  PROVE  TypeInv'
<1> USE DEF TypeInv, TypeOK, CopyHasCandidate, UsedHaveModels, Goto, SameRows, SameServing,
            Actors, Deployers, DeployerSteps, RollbackSteps
<1>1. CASE Scan BY <1>1 DEF Scan, MayStart, OrNone
<1>2. CASE Train BY <1>2 DEF Train, MayStart, OrNone
<1>3. CASE RequestRollback
  BY <1>3 DEF RequestRollback, localVars, Request, Row, OrNone
<1>4. CASE Receive BY <1>4 DEF Receive, MayStart
<1>5. CASE Reindex BY <1>5 DEF Reindex, localVars
<1> QED BY <1>1, <1>2, <1>3, <1>4, <1>5

\* A step that changes nothing keeps the types.
LEMMA StutterTypes ==
  ASSUME TypeInv, UNCHANGED vars
  PROVE  TypeInv'
BY DEF TypeInv, TypeOK, CopyHasCandidate, UsedHaveModels, vars, dbVars, localVars

LEMMA InitTypes == Init => TypeInv
<1> SUFFICES ASSUME Init PROVE TypeInv OBVIOUS
<1>1. FirstRow \in Row /\ NoSnapshot \in Snapshot
  BY ReleaseAssumption DEF FirstRow, NoSnapshot, Row, Snapshot, OrNone
<1>2. TypeOK
  BY <1>1, ReleaseAssumption
  DEF Init, TypeOK, Row, Snapshot, Run, Request, OrNone, Actors, Deployers, DeployerSteps,
      RollbackSteps
<1>3. CopyHasCandidate /\ UsedHaveModels
  BY ReleaseAssumption DEF Init, CopyHasCandidate, UsedHaveModels, NoSnapshot, Actors, Deployers
<1> QED BY <1>2, <1>3 DEF TypeInv

LEMMA NextTypes == TypeInv /\ [Next]_vars => TypeInv'
BY DeployerTypes, RollbackTypes, StartTypes, StutterTypes DEF Next

\* Every variable keeps its type, in every interleaving of the three processes.
THEOREM TypeCorrect == Spec => []TypeOK
<1>1. Spec => []TypeInv BY InitTypes, NextTypes, PTL DEF Spec
<1>2. TypeInv => TypeOK BY DEF TypeInv
<1> QED BY <1>1, <1>2, PTL

-----------------------------------------------------------------------------
(* One snapshot of each kind.                                              *)

\* Only a cutover and a restore move snapshots.
LEMMA SnapshotsMove ==
  ASSUME [Next]_vars
  PROVE  snapshot' = snapshot \/ (\E d \in Deployers : Switch(d)) \/ Restore
<1>1. ASSUME NEW d \in Deployers, ~Switch(d),
             \/ DeployerGoesOn(d) \/ Crash(d)
             \/ ReloadFails(d) \/ GateFails(d) \/ SearchReloadFails(d)
      PROVE  snapshot' = snapshot
  BY <1>1 DEF DeployerGoesOn, OpenRead, OpenWrite, Reload, RecordFailure, CutoverRead,
     ReadinessGate, LegacyGate, SearchReload, Complete, Crash, ReloadFails, GateFails,
     SearchReloadFails, Fails, Postpone, SameRows
<1>2. ASSUME RollbackGoesOn \/ RollbackFails \/ IndexGone, ~Restore
      PROVE  snapshot' = snapshot
  BY <1>2 DEF RollbackGoesOn, RollbackRead, Mark, CheckTarget, SearchReload, Ack,
     RollbackFails, IndexGone, SameRows
<1>3. ASSUME Scan \/ Train \/ RequestRollback \/ Receive \/ Reindex
      PROVE  snapshot' = snapshot
  BY <1>3 DEF Scan, Train, RequestRollback, Receive, Reindex, SameRows
<1> QED BY <1>1, <1>2, <1>3 DEF Next, vars, dbVars

\* The snapshot a cutover adds is one that was not in use.
LEMMA NewIdIsUnused ==
  ASSUME SnapshotsWith("UNUSED") # {}
  PROVE  NewId \in SnapshotIds /\ snapshot[NewId].status = "UNUSED"
BY DEF NewId, SnapshotsWith

\* A cutover moves the snapshots one place.
LEMMA CutoverSnapshots ==
  ASSUME TypeOK, NEW m \in Models, NEW t \in Nat, RecordCutover(m, t)
  PROVE  /\ NewId \in SnapshotIds
         /\ SnapshotsWith("ACTIVE")' = {NewId} /\ snapshot'[NewId].model = m
         /\ SnapshotsWith("PREVIOUS_STABLE")' = SnapshotsWith("ACTIVE")
<1>1. NewId \in SnapshotIds /\ snapshot[NewId].status = "UNUSED"
  BY NewIdIsUnused DEF RecordCutover
<1>2. /\ snapshot'[NewId] = [status |-> "ACTIVE", model |-> m, at |-> t]
      /\ \A i \in SnapshotIds \ {NewId} : snapshot'[i].status = Aged(snapshot[i].status)
  BY <1>1 DEF RecordCutover, TypeOK, Snapshot
<1> QED BY <1>1, <1>2 DEF SnapshotsWith, Aged, TypeOK, Snapshot

\* A restore makes a target active and puts at most one superseded snapshot
\* in its place.
LEMMA RestoreSnapshots ==
  ASSUME TypeOK, OneOfEach, Restore
  PROVE  \E i \in SnapshotsWith("PREVIOUS_STABLE") :
           /\ SnapshotsWith("ACTIVE")' = {i} /\ snapshot'[i].model = snapshot[i].model
           /\ Write("rollback", [status |-> "STABLE", active |-> snapshot[i].model,
                                 previous |-> NoModel, candidate |-> NoModel,
                                 switched |-> clock + 1])
           /\ \A j, k \in SnapshotsWith("PREVIOUS_STABLE")' : j = k
<1>1. PICK i \in SnapshotsWith("PREVIOUS_STABLE"), next \in SUBSET SnapshotsWith("SUPERSEDED") :
        /\ NextTarget(next)
        /\ Write("rollback", [status |-> "STABLE", active |-> snapshot[i].model,
                              previous |-> NoModel, candidate |-> NoModel,
                              switched |-> clock + 1])
        /\ snapshot' = [j \in SnapshotIds |->
                          [snapshot[j] EXCEPT !.status = Restored(i, next, j)]]
  BY DEF Restore
<1>2. \A j, k \in next : j = k BY <1>1 DEF NextTarget, Latest
<1>3. \A j \in SnapshotIds : /\ snapshot'[j].status = Restored(i, next, j)
                             /\ snapshot'[j].model = snapshot[j].model
  BY <1>1 DEF TypeOK, Snapshot
<1>4. \A j \in SnapshotIds : /\ Restored(i, next, j) = "ACTIVE" <=> j = i
                             /\ Restored(i, next, j) = "PREVIOUS_STABLE" => j \in next
  BY DEF Restored, SnapshotsWith, OneOfEach
<1>5. i \in SnapshotIds BY DEF SnapshotsWith
<1>6. SnapshotsWith("ACTIVE")' = {i} BY <1>3, <1>4, <1>5 DEF SnapshotsWith
<1>7. \A j, k \in SnapshotsWith("PREVIOUS_STABLE")' : j = k
  BY <1>2, <1>3, <1>4 DEF SnapshotsWith
<1>8. snapshot'[i].model = snapshot[i].model BY <1>3, <1>5
<1> QED BY <1>1, <1>6, <1>7, <1>8

LEMMA InitOneOfEach == Init => OneOfEach
<1> SUFFICES ASSUME Init PROVE OneOfEach OBVIOUS
<1>1. FirstId \in SnapshotIds BY ReleaseAssumption DEF FirstId
<1> QED BY <1>1 DEF Init, OneOfEach, SnapshotsWith, NoSnapshot

LEMMA NextOneOfEach == TypeInv /\ OneOfEach /\ [Next]_vars => OneOfEach'
<1> SUFFICES ASSUME TypeInv, OneOfEach, [Next]_vars PROVE OneOfEach' OBVIOUS
<1>1. CASE snapshot' = snapshot BY <1>1 DEF OneOfEach, SnapshotsWith
<1>2. ASSUME NEW d \in Deployers, Switch(d) PROVE OneOfEach'
  <2>1. RecordCutover(copy[d].candidate, CutoverTime(d)) BY <1>2 DEF Switch
  <2>2. copy[d].candidate \in Models
    BY <1>2 DEF Switch, TypeInv, TypeOK, CopyHasCandidate
  <2>3. CutoverTime(d) \in Nat
    BY <1>2 DEF Switch, CutoverTime, TypeInv, TypeOK, Run
  <2> QED BY <2>1, <2>2, <2>3, CutoverSnapshots DEF OneOfEach, TypeInv
<1>3. CASE Restore
  <2>1. PICK i \in SnapshotIds :
          /\ SnapshotsWith("ACTIVE")' = {i}
          /\ \A j, k \in SnapshotsWith("PREVIOUS_STABLE")' : j = k
    BY <1>3, RestoreSnapshots DEF TypeInv, SnapshotsWith
  <2> QED BY <2>1 DEF OneOfEach
<1> QED BY <1>1, <1>2, <1>3, SnapshotsMove

\* One snapshot is active and at most one is the rollback target, whatever
\* deployments and rollbacks overlap and whichever of their steps fail.
THEOREM OneActiveOneTarget == Spec => []OneOfEach
<1>1. Init => TypeInv /\ OneOfEach BY InitTypes, InitOneOfEach
<1>2. TypeInv /\ OneOfEach /\ [Next]_vars => (TypeInv /\ OneOfEach)'
  BY NextTypes, NextOneOfEach
<1> QED BY <1>1, <1>2, PTL DEF Spec

-----------------------------------------------------------------------------
(* Rows and sessions while deployments and rollbacks take turns.           *)

BeforeSwitch == {"open", "openWrite", "reload", "record", "cutover", "gate", "legacy", "switch"}
Opened == {"reload", "record", "cutover", "gate", "legacy", "switch"}
Chosen == {"gate", "legacy", "switch"}

\* Who holds the row's lock has opened a candidate, or marked a rollback, over
\* a stable row.
LockInv ==
  /\ \A d \in Deployers : lock = d =>
       /\ pc[d] \in Opened /\ release.status = "STABLE"
       /\ dirty = [release EXCEPT !.status = "CANDIDATE_REINDEXING", !.candidate = job[d]]
  /\ lock = "rollback" =>
       /\ pc["rollback"] \in {"check", "restore"} /\ release.status = "STABLE"
       /\ dirty = [release EXCEPT !.status = "ROLLBACK_PREPARING"]

\* A rollback in progress finds no deployment in progress.
TurnsInv == pc["rollback"] # "idle" => \A d \in Deployers : pc[d] = "idle"

\* The scheduler deploys a finished run, the trainer one that is not: they
\* never have the same model before its cutover.
JobsInv ==
  /\ pc["trainer"] \in BeforeSwitch => run[job["trainer"]].status = "NOT_READY"
  /\ pc["scheduler"] # "idle" => run[job["scheduler"]].status # "NOT_READY"

\* From the check of the candidate to the cutover the row stays as it was read.
CandidateInv ==
  \A d \in Deployers : pc[d] \in Chosen =>
    /\ copy[d] = View(d)
    /\ View(d).status = "CANDIDATE_REINDEXING" /\ View(d).candidate = job[d]

\* So does the row a rollback decided on.
ReadInv ==
  /\ pc["rollback"] \in {"mark", "check", "restore"} => copy["rollback"] = View("rollback")
  /\ pc["rollback"] = "mark" => release.status = "STABLE"

RowsInv ==
  LockInv /\ TurnsInv /\ JobsInv /\ CandidateInv /\ ReadInv /\ CandidateWhileReindexing

\* The two deployers deploy different models until one of them is cut over.
LEMMA JobsDiffer ==
  ASSUME TypeInv, RowsInv, NEW d \in Deployers, NEW e \in Deployers, d # e,
         pc[d] \in BeforeSwitch, pc[e] \in BeforeSwitch
  PROVE  job[d] # job[e]
BY DEF RowsInv, JobsInv, Deployers, BeforeSwitch

\* A deployer goes on without touching the rows.
LEMMA MoveRows ==
  ASSUME TypeInv, RowsInv, NEW d \in Deployers, NEW s \in DeployerSteps, Goto(d, s),
         pc[d] # "idle", SameRows, UNCHANGED <<copy, job>>,
         lock = d => s \in Opened,
         s \in BeforeSwitch => pc[d] \in BeforeSwitch,
         s \in Chosen => pc[d] \in Chosen
  PROVE  RowsInv'
<1> USE DEF TypeInv, TypeOK, Goto, SameRows, Actors, Deployers
<1>1. TurnsInv' BY DEF RowsInv, TurnsInv
<1>2. LockInv' /\ ReadInv' BY DEF RowsInv, LockInv, TurnsInv, ReadInv, View
<1>3. JobsInv' BY DEF RowsInv, JobsInv
<1>4. CandidateInv' BY DEF RowsInv, CandidateInv, View, Chosen
<1>5. CandidateWhileReindexing' BY DEF RowsInv, CandidateWhileReindexing
<1> QED BY <1>1, <1>2, <1>3, <1>4, <1>5 DEF RowsInv

\* A deployer's attempt ends: it commits what it has, or rolls back.
LEMMA EndRows ==
  ASSUME TypeInv, RowsInv, NEW d \in Deployers, pc[d] # "idle", Stay(d),
         \/ RollBack(d) /\ UNCHANGED run
         \/ Commit(d) /\ \E r \in Run : r.status # "NOT_READY" /\ CommitRun(d, r)
  PROVE  RowsInv'
<1> USE DEF TypeInv, TypeOK, Stay, Goto, Actors, Deployers
<1>1. TurnsInv' BY DEF RowsInv, TurnsInv
<1>2. JobsInv'
  <2>1. CASE UNCHANGED run BY <2>1 DEF RowsInv, JobsInv, BeforeSwitch
  <2>2. CASE \E r \in Run : r.status # "NOT_READY" /\ CommitRun(d, r)
    BY <2>2 DEF RowsInv, JobsInv, CommitRun, BeforeSwitch
  <2> QED BY <2>1, <2>2
<1>3. CASE lock = d
  <2>1. /\ \A e \in Deployers : pc'[e] \notin Chosen
        /\ pc'["rollback"] = "idle" /\ lock' = NoActor
    BY <1>3, ReleaseAssumption
    DEF RowsInv, LockInv, TurnsInv, CandidateInv, View, Commit, RollBack, Chosen
  <2>2. CandidateWhileReindexing'
    <3>1. CASE RollBack(d) BY <3>1 DEF RowsInv, CandidateWhileReindexing, RollBack
    <3>2. CASE Commit(d)
      <4>1. /\ release' = [release EXCEPT !.status = "CANDIDATE_REINDEXING",
                                         !.candidate = job[d]]
            /\ job[d] # NoModel
        BY <1>3, <3>2, ReleaseAssumption DEF RowsInv, LockInv, Commit, View
      <4> QED BY <4>1 DEF CandidateWhileReindexing, Row
    <3> QED BY <3>1, <3>2
  <2>3. LockInv' BY <2>1, ReleaseAssumption DEF LockInv
  <2> QED BY <1>1, <1>2, <2>1, <2>2, <2>3 DEF RowsInv, CandidateInv, ReadInv
<1>4. CASE lock # d
  <2>1. UNCHANGED <<release, dirty, lock>> BY <1>4 DEF Commit, RollBack, View
  <2>2. LockInv' /\ ReadInv' BY <1>4, <2>1 DEF RowsInv, LockInv, TurnsInv, ReadInv, View
  <2>3. CandidateInv' BY <1>4, <2>1 DEF RowsInv, CandidateInv, View, Chosen
  <2>4. CandidateWhileReindexing' BY <2>1 DEF RowsInv, CandidateWhileReindexing
  <2> QED BY <1>1, <1>2, <2>2, <2>3, <2>4 DEF RowsInv
<1> QED BY <1>3, <1>4

\* A failed or postponed attempt ends like that.
LEMMA FailsEnds ==
  ASSUME TypeInv, RowsInv, NEW d \in Deployers, pc[d] # "idle", Fails(d) \/ Postpone(d)
  PROVE  RowsInv'
<1>1. OwnRun(d) \in Run /\ OwnRun(d).status # "NOT_READY"
  <2>1. job[d] \in Models BY DEF TypeInv, TypeOK
  <2>2. OwnRun(d) \in Run BY <2>1, OwnRunType DEF TypeInv
  <2>3. run[job[d]] \in Run BY <2>1 DEF TypeInv, TypeOK
  <2> QED BY <2>2, <2>3 DEF OwnRun, Run
<1> QED BY <1>1, EndRows DEF Fails, Postpone

\* The conditional UPDATE opens the candidate in the deployer's own session.
LEMMA OpenRows ==
  ASSUME TypeInv, RowsInv, NEW d \in Deployers, OpenWrite(d)
  PROVE  RowsInv'
<1> USE DEF TypeInv, TypeOK, Goto, Actors, Deployers
<1>1. CASE release.status # "STABLE"
  BY <1>1, FailsEnds DEF OpenWrite
<1>2. CASE release.status = "STABLE"
  <2>0. /\ pc[d] = "openWrite" /\ pc' = [pc EXCEPT ![d] = "reload"] /\ lock \in {NoActor, d}
        /\ dirty' = [release EXCEPT !.status = "CANDIDATE_REINDEXING", !.candidate = job[d]]
        /\ lock' = d /\ UNCHANGED <<release, run, copy, job>>
    BY <1>2 DEF OpenWrite, CanLock
  <2>1. TurnsInv' BY <2>0 DEF RowsInv, TurnsInv
  <2>2. LockInv' BY <1>2, <2>0, ReleaseAssumption DEF LockInv, Opened
  <2>3. JobsInv' BY <2>0 DEF RowsInv, JobsInv, BeforeSwitch
  <2>4. CandidateInv'
    BY <1>2, <2>0, ReleaseAssumption DEF RowsInv, CandidateInv, View, Chosen, LockInv, Opened
  <2>5. ReadInv' BY <2>0 DEF RowsInv, ReadInv, TurnsInv
  <2>6. CandidateWhileReindexing' BY <2>0 DEF RowsInv, CandidateWhileReindexing
  <2> QED BY <2>1, <2>2, <2>3, <2>4, <2>5, <2>6 DEF RowsInv
<1> QED BY <1>1, <1>2

\* The cutover writes exactly the new release, and nobody else holds the row or
\* relies on it.
LEMMA SwitchWrites ==
  ASSUME TypeInv, RowsInv, NEW d \in Deployers, Switch(d)
  PROVE  /\ release' = [status |-> "STABLE", active |-> job[d], previous |-> copy[d].active,
                       candidate |-> NoModel, switched |-> CutoverTime(d)]
         /\ lock \in {NoActor, d} /\ lock' = NoActor
<1> DEFINE new == [status |-> "STABLE", active |-> copy[d].candidate,
                   previous |-> copy[d].active, candidate |-> NoModel,
                   switched |-> CutoverTime(d)]
<1>1. copy[d] = View(d) /\ copy[d].candidate = job[d] /\ job[d] \in Models
  BY DEF Switch, RowsInv, CandidateInv, Chosen, TypeInv, TypeOK
<1>2. View(d) \in Row BY DEF View, TypeInv, TypeOK
<1>3. CutoverTime(d) \in Nat
  BY <1>1 DEF CutoverTime, TypeInv, TypeOK, Run
<1>4. new \in Row BY <1>1, <1>2, <1>3 DEF Row, OrNone
<1>5. Write(d, new) BY DEF Switch
<1> HIDE DEF new
<1>6. release' = new BY <1>1, <1>2, <1>4, <1>5, UpdatedExactly DEF Write
<1> QED BY <1>1, <1>5, <1>6 DEF new, Write, CanLock

LEMMA SwitchRows ==
  ASSUME TypeInv, RowsInv, NEW d \in Deployers, Switch(d)
  PROVE  RowsInv'
<1> USE DEF TypeInv, TypeOK, Actors, Deployers
<1>0. /\ pc[d] = "switch" /\ pc' = [pc EXCEPT ![d] = "search"] /\ UNCHANGED <<copy, job, dirty>>
  BY DEF Switch, Goto, Write
<1>1. release'.status = "STABLE" /\ release'.candidate = NoModel /\ lock' = NoActor
      /\ lock \in {NoActor, d}
  BY SwitchWrites
<1>2. pc'["rollback"] = "idle" BY <1>0 DEF RowsInv, TurnsInv
<1>3. TurnsInv' /\ ReadInv' BY <1>2 DEF TurnsInv, ReadInv
<1>4. LockInv' BY <1>1, ReleaseAssumption DEF LockInv
<1>5. CandidateWhileReindexing' BY <1>1 DEF CandidateWhileReindexing
<1>6. CandidateInv'
  <2> SUFFICES ASSUME NEW e \in Deployers, pc'[e] \in Chosen PROVE FALSE
    BY DEF CandidateInv
  <2>1. e # d /\ pc[e] \in Chosen BY <1>0 DEF Chosen
  <2>2. View(e).status = "CANDIDATE_REINDEXING" /\ View(e).candidate = job[e]
        /\ View(d).status = "CANDIDATE_REINDEXING" /\ View(d).candidate = job[d]
    BY <1>0, <2>1 DEF RowsInv, CandidateInv, Chosen
  <2>3. lock # e BY <1>1, <2>1, ReleaseAssumption
  <2>4. lock # d BY <2>2, <2>3 DEF RowsInv, LockInv, View
  <2>5. job[d] = job[e] BY <2>2, <2>3, <2>4 DEF View
  <2> QED BY <1>0, <2>1, <2>5, JobsDiffer DEF BeforeSwitch, Chosen
<1>7. JobsInv'
  <2>1. run' = [run EXCEPT ![job[d]] = [OwnRun(d) EXCEPT !.cutover = CutoverTime(d)]]
    BY DEF Switch, CommitRun
  <2>2. job[d] \in Models /\ run[job[d]] \in Run /\ OwnRun(d) \in Run BY <1>0, OwnRunType
  <2>3. OwnRun(d).status # "NOT_READY" BY <2>2 DEF OwnRun, Run
  <2>4. run'[job[d]].status # "NOT_READY"
        /\ \A m \in Models \ {job[d]} : run'[m] = run[m]
    BY <2>1, <2>2, <2>3 DEF Run
  <2>5. ASSUME d = "scheduler", pc["trainer"] \in BeforeSwitch
        PROVE  job["trainer"] # job[d]
    BY <1>0, <2>5, JobsDiffer DEF BeforeSwitch
  <2>6. \A e \in Deployers : pc[e] # "idle" => job[e] \in Models OBVIOUS
  <2> QED BY <1>0, <2>4, <2>5, <2>6 DEF RowsInv, JobsInv, BeforeSwitch
<1> QED BY <1>3, <1>4, <1>5, <1>6, <1>7 DEF RowsInv

\* The steps of a deployer keep the rows consistent.
LEMMA DeployerRows ==
  ASSUME TypeInv, RowsInv, NEW d \in Deployers,
         \/ DeployerGoesOn(d) \/ Crash(d)
         \/ ReloadFails(d) \/ GateFails(d) \/ SearchReloadFails(d)
  PROVE  RowsInv'
<1> USE DEF BeforeSwitch, Chosen, Opened, DeployerSteps
<1>0. pc[d] # "idle" => job[d] \in Models /\ run[job[d]] \in Run /\ OwnRun(d) \in Run
                        /\ OwnRun(d).status # "NOT_READY"
  <2> SUFFICES ASSUME pc[d] # "idle"
               PROVE  /\ job[d] \in Models /\ run[job[d]] \in Run /\ OwnRun(d) \in Run
                      /\ OwnRun(d).status # "NOT_READY"
    OBVIOUS
  <2>1. job[d] \in Models /\ run[job[d]] \in Run BY DEF TypeInv, TypeOK
  <2>2. OwnRun(d) \in Run BY <2>1, OwnRunType DEF TypeInv
  <2> QED BY <2>1, <2>2 DEF OwnRun, Run
<1>m. pc[d] \in {"open", "search"} => lock # d
  BY DEF RowsInv, LockInv
<1>1. CASE OpenRead(d) BY <1>1, <1>m, MoveRows, FailsEnds DEF OpenRead
<1>2. CASE OpenWrite(d) BY <1>2, OpenRows
<1>3. CASE Reload(d) BY <1>3, MoveRows DEF Reload
<1>4. CASE ReloadFails(d) BY <1>4, MoveRows DEF ReloadFails
<1>5. CASE RecordFailure(d)
  <2>1. PICK r : /\ CommitRun(d, r)
                 /\ r = [OwnRun(d) EXCEPT !.attempts = run[job[d]].attempts + 1,
                          !.status = IF run[job[d]].attempts + 1 >= MaxAttempts
                                     THEN "DEPLOYMENT_BLOCKED" ELSE @]
    BY <1>5 DEF RecordFailure
  <2>2. r \in Run /\ r.status # "NOT_READY"
    <3>1. run[job[d]].attempts + 1 \in Nat BY <1>0, <1>5 DEF Run, RecordFailure
    <3> QED BY <1>0, <1>5, <2>1, <3>1 DEF Run, RecordFailure
  <2> QED BY <1>5, <2>1, <2>2, EndRows DEF RecordFailure
<1>6. CASE CutoverRead(d)
  <2>1. CASE View(d).status = "CANDIDATE_REINDEXING" /\ View(d).candidate = job[d]
    <3>0. /\ pc[d] = "cutover" /\ pc' = [pc EXCEPT ![d] = "gate"] /\ SameRows
          /\ copy' = [copy EXCEPT ![d] = View(d)] /\ UNCHANGED job
      BY <1>6, <2>1 DEF CutoverRead, Goto
    <3> USE DEF TypeInv, TypeOK, SameRows, Actors, Deployers
    <3>1. TurnsInv' /\ JobsInv' BY <3>0 DEF RowsInv, TurnsInv, JobsInv
    <3>2. LockInv' /\ ReadInv' BY <3>0 DEF RowsInv, LockInv, ReadInv, TurnsInv
    <3>3. CandidateInv' BY <2>1, <3>0 DEF RowsInv, CandidateInv, View
    <3>4. CandidateWhileReindexing' BY <3>0 DEF RowsInv, CandidateWhileReindexing
    <3> QED BY <3>1, <3>2, <3>3, <3>4 DEF RowsInv
  <2> QED BY <1>6, <2>1, FailsEnds DEF CutoverRead
<1>7. CASE ReadinessGate(d) BY <1>7, MoveRows, FailsEnds DEF ReadinessGate
<1>8. CASE LegacyGate(d) BY <1>8, MoveRows, FailsEnds DEF LegacyGate
<1>9. CASE GateFails(d) BY <1>9, FailsEnds DEF GateFails
<1>10. CASE Switch(d) BY <1>10, SwitchRows
<1>11. CASE SearchReload(d, "complete") BY <1>11, <1>m, MoveRows DEF SearchReload
<1>12. CASE SearchReloadFails(d) BY <1>12, FailsEnds DEF SearchReloadFails
<1>13. CASE Complete(d)
  <2>1. PICK r : /\ CommitRun(d, r)
                 /\ r = [OwnRun(d) EXCEPT !.status = "DEPLOY_COMPLETED", !.attempts = 0]
    BY <1>13 DEF Complete
  <2>2. r \in Run /\ r.status # "NOT_READY" BY <1>0, <1>13, <2>1 DEF Run, Complete
  <2> QED BY <1>13, <2>1, <2>2, EndRows DEF Complete
<1>14. CASE Crash(d) BY <1>14, EndRows DEF Crash
<1> QED
  BY <1>1, <1>2, <1>3, <1>4, <1>5, <1>6, <1>7, <1>8, <1>9, <1>10, <1>11, <1>12, <1>13,
     <1>14 DEF DeployerGoesOn

\* A restore writes exactly the release it restores.
LEMMA RestoreWrites ==
  ASSUME TypeInv, RowsInv, NEW m \in Models, pc["rollback"] = "restore",
         Write("rollback", [status |-> "STABLE", active |-> m, previous |-> NoModel,
                            candidate |-> NoModel, switched |-> clock + 1])
  PROVE  /\ release' = [status |-> "STABLE", active |-> m, previous |-> NoModel,
                       candidate |-> NoModel, switched |-> clock + 1]
         /\ lock' = NoActor /\ dirty' = dirty
<1> DEFINE new == [status |-> "STABLE", active |-> m, previous |-> NoModel,
                   candidate |-> NoModel, switched |-> clock + 1]
<1>1. new \in Row BY DEF Row, OrNone, TypeInv, TypeOK
<1>2. View("rollback") \in Row BY DEF View, TypeInv, TypeOK
<1>3. copy["rollback"] = View("rollback") BY DEF RowsInv, ReadInv
<1>4. Write("rollback", new) OBVIOUS
<1> HIDE DEF new
<1>5. release' = new BY <1>1, <1>2, <1>3, <1>4, UpdatedExactly DEF Write
<1> QED BY <1>4, <1>5 DEF new, Write

\* While a rollback works no deployer holds the row or relies on it.
LEMMA RollbackAlone ==
  ASSUME TypeInv, RowsInv, pc["rollback"] # "idle"
  PROVE  /\ \A d \in Deployers : pc[d] = "idle"
         /\ lock \in {NoActor, "rollback"}
         /\ pc["rollback"] \notin {"check", "restore"} => lock = NoActor
<1>1. \A d \in Deployers : pc[d] = "idle" BY DEF RowsInv, TurnsInv
<1>2. \A d \in Deployers : lock # d BY <1>1 DEF RowsInv, LockInv, Opened
<1> QED BY <1>1, <1>2 DEF RowsInv, LockInv, TypeInv, TypeOK, Actors

\* The steps of the rollback worker keep the rows consistent.
LEMMA RollbackRows ==
  ASSUME TypeInv, RowsInv, RollbackGoesOn \/ RollbackFails \/ IndexGone
  PROVE  RowsInv'
<1>a. pc["rollback"] # "idle"
  BY DEF RollbackGoesOn, RollbackRead, Mark, CheckTarget, Restore, SearchReload, Ack,
     RollbackFails, IndexGone
<1>b. /\ \A d \in Deployers : pc[d] = "idle"
      /\ lock \in {NoActor, "rollback"}
      /\ pc["rollback"] \notin {"check", "restore"} => lock = NoActor
  BY <1>a, RollbackAlone
<1>c. /\ pc' = [pc EXCEPT !["rollback"] = pc'["rollback"]] /\ UNCHANGED <<run, job>>
      /\ \A d \in Deployers : copy'[d] = copy[d]
  BY DEF RollbackGoesOn, RollbackRead, Mark, CheckTarget, Restore, SearchReload, Ack,
     RollbackFails, IndexGone, Stay, Goto, SameRows, TypeInv, TypeOK, Actors, Deployers
<1> USE ReleaseAssumption DEF TypeInv, TypeOK, Goto, Actors, Deployers
<1>d. \A d \in Deployers : pc'[d] = "idle" BY <1>b, <1>c
<1>e. TurnsInv' /\ JobsInv' /\ CandidateInv'
  BY <1>d DEF TurnsInv, JobsInv, CandidateInv, BeforeSwitch, Chosen
<1>1. CASE RollbackRead
  <2>1. UNCHANGED <<release, dirty, lock>> /\ lock = NoActor
        /\ copy'["rollback"] = release
        /\ (pc'["rollback"] = "mark" => release.status = "STABLE")
    BY <1>1, <1>b DEF RollbackRead, SameRows
  <2> QED
    BY <1>e, <2>1 DEF RowsInv, LockInv, ReadInv, View, CandidateWhileReindexing
<1>2. CASE Mark
  <2>1. release.status = "STABLE" /\ copy["rollback"] = release /\ lock = NoActor
    BY <1>2, <1>b DEF Mark, RowsInv, ReadInv, View
  <2>2. Preparing \in Row /\ Preparing = [release EXCEPT !.status = "ROLLBACK_PREPARING"]
    BY <2>1 DEF Preparing, Row
  <2>3. dirty' = Preparing /\ copy'["rollback"] = Preparing
    BY <1>2, <2>1, <2>2, UpdatedExactly DEF Mark
  <2>4. lock' = "rollback" /\ release' = release /\ pc'["rollback"] = "check"
    BY <1>2 DEF Mark
  <2> QED
    BY <1>e, <2>1, <2>2, <2>3, <2>4
    DEF RowsInv, LockInv, ReadInv, View, CandidateWhileReindexing
<1>3. CASE CheckTarget /\ target \in loaded
  BY <1>3, <1>e DEF CheckTarget, SameRows, RowsInv, LockInv, ReadInv, View,
     CandidateWhileReindexing
<1>4. CASE (CheckTarget /\ target \notin loaded) \/ IndexGone
  <2>1. Commit("rollback") /\ pc'["rollback"] = "ack" BY <1>4 DEF CheckTarget, IndexGone
  <2>2. lock' = NoActor BY <2>1, <1>b DEF Commit
  <2>3. CandidateWhileReindexing'
    <3>1. CASE lock = "rollback"
      <4>1. release' = [release EXCEPT !.status = "ROLLBACK_PREPARING"]
            /\ release.status = "STABLE"
        BY <2>1, <3>1 DEF Commit, View, RowsInv, LockInv
      <4> QED BY <4>1 DEF RowsInv, CandidateWhileReindexing, Row
    <3>2. CASE lock # "rollback"
      BY <2>1, <3>2 DEF Commit, View, RowsInv, CandidateWhileReindexing
    <3> QED BY <3>1, <3>2
  <2> QED BY <1>e, <2>1, <2>2, <2>3 DEF RowsInv, LockInv, ReadInv
<1>5. CASE Restore
  <2>1. PICK m \in Models :
          Write("rollback", [status |-> "STABLE", active |-> m, previous |-> NoModel,
                             candidate |-> NoModel, switched |-> clock + 1])
    BY <1>5 DEF Restore, SnapshotsWith, UsedHaveModels
  <2>2. release'.status = "STABLE" /\ release'.candidate = NoModel /\ lock' = NoActor
    BY <1>5, <2>1, RestoreWrites DEF Restore
  <2>3. pc'["rollback"] = "search" BY <1>5 DEF Restore
  <2> QED BY <1>e, <2>2, <2>3 DEF RowsInv, LockInv, ReadInv, CandidateWhileReindexing
<1>6. CASE SearchReload("rollback", "ack") \/ Ack
  <2>1. UNCHANGED <<release, dirty, lock>> /\ lock = NoActor /\ pc'["rollback"] \in {"ack", "idle"}
    BY <1>6, <1>b DEF SearchReload, Ack, SameRows, Stay
  <2> QED BY <1>e, <2>1 DEF RowsInv, LockInv, ReadInv, CandidateWhileReindexing
<1>7. CASE RollbackFails
  <2>1. lock' = NoActor /\ release' = release /\ pc'["rollback"] = "idle"
    BY <1>7, <1>b DEF RollbackFails, RollBack, Stay
  <2> QED BY <1>e, <2>1 DEF RowsInv, LockInv, ReadInv, CandidateWhileReindexing
<1> QED BY <1>1, <1>2, <1>3, <1>4, <1>5, <1>6, <1>7 DEF RollbackGoesOn

\* A process that starts, when the two take turns, finds the rows as they are.
LEMMA StartRows ==
  ASSUME ~Overlap, TypeInv, RowsInv, Scan \/ Train \/ RequestRollback \/ Receive \/ Reindex
  PROVE  RowsInv'
<1> USE DEF TypeInv, TypeOK, Goto, MayStart, SameRows, Actors, Deployers, BeforeSwitch, Chosen,
            Opened
<1>0. UNCHANGED <<release, dirty, lock, run, copy>>
  BY DEF Scan, Train, RequestRollback, Receive, Reindex, localVars
<1>1. CASE Scan
  <2>1. TurnsInv' /\ LockInv' /\ JobsInv'
    BY <1>0, <1>1, ReleaseAssumption DEF Scan, RowsInv, TurnsInv, LockInv, JobsInv, Eligible
  <2>2. CandidateInv' /\ ReadInv' /\ CandidateWhileReindexing'
    BY <1>0, <1>1 DEF Scan, RowsInv, CandidateInv, ReadInv, View, CandidateWhileReindexing
  <2> QED BY <2>1, <2>2 DEF RowsInv
<1>2. CASE Train
  <2>1. TurnsInv' /\ LockInv' /\ JobsInv'
    BY <1>0, <1>2, ReleaseAssumption DEF Train, RowsInv, TurnsInv, LockInv, JobsInv
  <2>2. CandidateInv' /\ ReadInv' /\ CandidateWhileReindexing'
    BY <1>0, <1>2 DEF Train, RowsInv, CandidateInv, ReadInv, View, CandidateWhileReindexing
  <2> QED BY <2>1, <2>2 DEF RowsInv
<1>3. CASE Receive
  BY <1>0, <1>3 DEF Receive, RowsInv, TurnsInv, LockInv, JobsInv, CandidateInv, ReadInv, View,
     CandidateWhileReindexing
<1>4. CASE RequestRollback \/ Reindex
  BY <1>0, <1>4 DEF RequestRollback, Reindex, localVars, RowsInv, TurnsInv, LockInv, JobsInv,
     CandidateInv, ReadInv, View, CandidateWhileReindexing
<1> QED BY <1>1, <1>2, <1>3, <1>4

LEMMA InitRows == Init => RowsInv
BY ReleaseAssumption
DEF Init, RowsInv, LockInv, TurnsInv, JobsInv, CandidateInv, ReadInv, CandidateWhileReindexing,
    FirstRow, Actors, Deployers, BeforeSwitch, Chosen

LEMMA NextRows == ~Overlap /\ TypeInv /\ RowsInv /\ [Next]_vars => RowsInv'
<1>1. ASSUME TypeInv, RowsInv, UNCHANGED vars PROVE RowsInv'
  BY <1>1 DEF vars, dbVars, localVars, RowsInv, LockInv, TurnsInv, JobsInv, CandidateInv,
     ReadInv, View, CandidateWhileReindexing
<1> QED BY <1>1, DeployerRows, RollbackRows, StartRows DEF Next

\* While deployments and rollbacks take turns, the candidate fields are set
\* exactly while a candidate is being deployed, faults included.
THEOREM CandidateMatchesStatus ==
  ASSUME ~Overlap
  PROVE  Spec => []CandidateWhileReindexing
<1>1. Init => TypeInv /\ RowsInv BY InitTypes, InitRows
<1>2. TypeInv /\ RowsInv /\ [Next]_vars => (TypeInv /\ RowsInv)' BY NextTypes, NextRows
<1>3. RowsInv => CandidateWhileReindexing BY DEF RowsInv
<1> QED BY <1>1, <1>2, <1>3, PTL DEF Spec

-----------------------------------------------------------------------------
(* Rows and snapshots.                                                     *)

\* What a rollback decided on still holds while it works.
RollbackInv ==
  /\ pc["rollback"] # "idle" => request[handling].state = "queued"
  /\ pc["rollback"] \in {"mark", "check", "restore"} => Targets = {target}

SnapshotsInv == OneOfEach /\ ActiveIsSnapshot /\ RollbackInv

\* Only a cutover and a restore change the serving model and its predecessor.
LEMMA ActiveMoves ==
  ASSUME TypeInv, RowsInv, [Next]_vars
  PROVE  \/ release'.active = release.active /\ release'.previous = release.previous
         \/ (\E d \in Deployers : Switch(d)) \/ Restore
<1> DEFINE Same == release'.active = release.active /\ release'.previous = release.previous
<1>1. ASSUME NEW a \in Actors, Commit(a) \/ RollBack(a) PROVE Same
  <2>1. release' = release \/ (lock = a /\ release' = dirty)
    BY <1>1 DEF Commit, RollBack, View
  <2>2. lock = a => dirty.active = release.active /\ dirty.previous = release.previous
    <3>1. release \in Row BY DEF TypeInv, TypeOK
    <3>2. CASE a \in Deployers BY <3>1, <3>2 DEF RowsInv, LockInv, Row
    <3>3. CASE a = "rollback" BY <3>1, <3>3 DEF RowsInv, LockInv, Row
    <3> QED BY <3>2, <3>3 DEF Actors
  <2> QED BY <2>1, <2>2
<1>2. ASSUME NEW d \in Deployers, ~Switch(d),
             \/ DeployerGoesOn(d) \/ Crash(d)
             \/ ReloadFails(d) \/ GateFails(d) \/ SearchReloadFails(d)
      PROVE  Same
  <2>1. release' = release \/ Commit(d) \/ RollBack(d)
    BY <1>2 DEF DeployerGoesOn, OpenRead, OpenWrite, Reload, RecordFailure, CutoverRead,
       ReadinessGate, LegacyGate, SearchReload, Complete, Crash, ReloadFails, GateFails,
       SearchReloadFails, Fails, Postpone, SameRows
  <2> QED BY <2>1, <1>1 DEF Actors
<1>3. ASSUME RollbackGoesOn \/ RollbackFails \/ IndexGone, ~Restore
      PROVE  Same
  <2>1. release' = release \/ Commit("rollback") \/ RollBack("rollback")
    BY <1>3 DEF RollbackGoesOn, RollbackRead, Mark, CheckTarget, SearchReload, Ack,
       RollbackFails, IndexGone, SameRows
  <2> QED BY <2>1, <1>1 DEF Actors
<1>4. ASSUME Scan \/ Train \/ RequestRollback \/ Receive \/ Reindex
      PROVE  Same
  BY <1>4 DEF Scan, Train, RequestRollback, Receive, Reindex, SameRows
<1> QED BY <1>2, <1>3, <1>4 DEF Next, vars, dbVars

\* A cutover keeps the snapshots and the row together.
LEMMA SwitchSnapshots ==
  ASSUME TypeInv, RowsInv, NEW d \in Deployers, Switch(d)
  PROVE  ActiveIsSnapshot'
<1>1. copy[d].candidate = job[d] /\ job[d] \in Models
  BY DEF Switch, TypeInv, TypeOK, CopyHasCandidate
<1>2. CutoverTime(d) \in Nat BY <1>1 DEF CutoverTime, TypeInv, TypeOK, Run
<1>3. RecordCutover(job[d], CutoverTime(d)) BY <1>1 DEF Switch
<1>4. SnapshotsWith("ACTIVE")' = {NewId} /\ snapshot'[NewId].model = job[d]
  BY <1>1, <1>2, <1>3, CutoverSnapshots DEF TypeInv
<1>5. release'.active = job[d] BY SwitchWrites
<1> QED BY <1>4, <1>5 DEF ActiveIsSnapshot

\* So does a restore.
LEMMA RestoreKeepsSnapshots ==
  ASSUME TypeInv, RowsInv, OneOfEach, Restore
  PROVE  ActiveIsSnapshot' /\ release'.active \in Targets
<1>1. PICK i \in SnapshotsWith("PREVIOUS_STABLE") :
        /\ SnapshotsWith("ACTIVE")' = {i} /\ snapshot'[i].model = snapshot[i].model
        /\ Write("rollback", [status |-> "STABLE", active |-> snapshot[i].model,
                              previous |-> NoModel, candidate |-> NoModel,
                              switched |-> clock + 1])
  BY RestoreSnapshots DEF TypeInv
<1>2. snapshot[i].model \in Models BY DEF TypeInv, UsedHaveModels, SnapshotsWith
<1>3. release'.active = snapshot[i].model BY <1>1, <1>2, RestoreWrites DEF Restore
<1> QED BY <1>1, <1>3 DEF ActiveIsSnapshot, Targets

\* The decision of a rollback stays right: nothing it depends on moves.
LEMMA NextRollbackInv ==
  ASSUME ~Overlap, TypeInv, RowsInv, OneOfEach, RollbackInv, [Next]_vars
  PROVE  RollbackInv'
<1> USE DEF TypeInv, TypeOK, Goto, Actors, Deployers
<1>1. ASSUME NEW d \in Deployers, pc[d] # "idle", pc'["rollback"] = pc["rollback"]
      PROVE  RollbackInv'
  BY <1>1 DEF RowsInv, TurnsInv, RollbackInv
<1>2. ASSUME NEW d \in Deployers,
             \/ DeployerGoesOn(d) \/ Crash(d)
             \/ ReloadFails(d) \/ GateFails(d) \/ SearchReloadFails(d)
      PROVE  RollbackInv'
  <2>1. pc[d] # "idle" /\ pc'["rollback"] = pc["rollback"]
    BY <1>2 DEF DeployerGoesOn, OpenRead, OpenWrite, Reload, RecordFailure, CutoverRead,
       ReadinessGate, LegacyGate, Switch, SearchReload, Complete, Crash, ReloadFails, GateFails,
       SearchReloadFails, Fails, Postpone, Stay
  <2> QED BY <2>1, <1>1
<1>3. CASE Receive BY <1>3 DEF Receive, MayStart, RollbackInv
<1>4. CASE RollbackRead
  <2>1. pc'["rollback"] \in {"mark", "check"} => Targets' = {target'}
    BY <1>4 DEF RollbackRead, OneOfEach, Targets, SnapshotsWith, SameRows
  <2> QED BY <1>4, <2>1 DEF RollbackRead, RollbackInv
<1>5. CASE Mark \/ CheckTarget \/ IndexGone
  BY <1>5 DEF Mark, CheckTarget, IndexGone, RollbackInv, Targets, SnapshotsWith, SameRows
<1>6. CASE Restore \/ SearchReload("rollback", "ack")
  BY <1>6 DEF Restore, SearchReload, RollbackInv
<1>7. CASE Ack \/ RollbackFails
  BY <1>7 DEF Ack, RollbackFails, Stay, RollbackInv
<1>8. CASE Scan \/ Train
  BY <1>8 DEF Scan, Train, MayStart, RollbackInv
<1>9. CASE RequestRollback \/ Reindex
  BY <1>9 DEF RequestRollback, Reindex, localVars, SameRows, RollbackInv, Targets, SnapshotsWith
<1>10. CASE UNCHANGED vars
  BY <1>10 DEF vars, dbVars, localVars, RollbackInv, Targets, SnapshotsWith
<1> QED
  BY <1>2, <1>3, <1>4, <1>5, <1>6, <1>7, <1>8, <1>9, <1>10 DEF Next, RollbackGoesOn

LEMMA InitSnapshots == Init => SnapshotsInv
<1> SUFFICES ASSUME Init PROVE SnapshotsInv OBVIOUS
<1>1. ActiveIsSnapshot BY DEF Init, ActiveIsSnapshot, SnapshotsWith, NoSnapshot, FirstRow
<1>2. RollbackInv BY DEF Init, RollbackInv, Actors
<1> QED BY <1>1, <1>2, InitOneOfEach DEF SnapshotsInv

LEMMA NextSnapshots ==
  ~Overlap /\ TypeInv /\ RowsInv /\ SnapshotsInv /\ [Next]_vars => SnapshotsInv'
<1> SUFFICES ASSUME ~Overlap, TypeInv, RowsInv, SnapshotsInv, [Next]_vars
             PROVE  SnapshotsInv'
  OBVIOUS
<1>1. OneOfEach' /\ RollbackInv'
  BY NextOneOfEach, NextRollbackInv DEF SnapshotsInv
<1>2. ActiveIsSnapshot'
  <2>1. CASE (\E d \in Deployers : Switch(d)) \/ Restore
    BY <2>1, SwitchSnapshots, RestoreKeepsSnapshots DEF SnapshotsInv
  <2>2. CASE ~((\E d \in Deployers : Switch(d)) \/ Restore)
    <3>1. snapshot' = snapshot /\ release'.active = release.active
      BY <2>2, SnapshotsMove, ActiveMoves
    <3> QED BY <3>1 DEF SnapshotsInv, ActiveIsSnapshot, SnapshotsWith
  <2> QED BY <2>1, <2>2
<1> QED BY <1>1, <1>2 DEF SnapshotsInv

\* While deployments and rollbacks take turns, the row and the snapshots agree
\* on the serving model, whichever steps crash or fail.
THEOREM RowMatchesSnapshots ==
  ASSUME ~Overlap
  PROVE  Spec => []ActiveIsSnapshot
<1>1. Init => TypeInv /\ RowsInv /\ SnapshotsInv BY InitTypes, InitRows, InitSnapshots
<1>2. TypeInv /\ RowsInv /\ SnapshotsInv /\ [Next]_vars => (TypeInv /\ RowsInv /\ SnapshotsInv)'
  BY NextTypes, NextRows, NextSnapshots
<1>3. SnapshotsInv => ActiveIsSnapshot BY DEF SnapshotsInv
<1> QED BY <1>1, <1>2, <1>3, PTL DEF Spec

\* While deployments and rollbacks take turns, row and snapshots are one and the same
\* release: the first agrees with the second, which are one of each kind, and has a
\* candidate only when its status says so.
THEOREM ReleaseStaysConsistent ==
  ASSUME ~Overlap
  PROVE  Spec => []ReleaseIsConsistent
BY RowMatchesSnapshots, OneActiveOneTarget, CandidateMatchesStatus, PTL DEF ReleaseIsConsistent

-----------------------------------------------------------------------------
(* Loaded models.                                                          *)

Attempting == {"cutover", "gate", "legacy", "switch"}

\* A candidate that passed the readiness check stays loaded until its cutover.
\* One that is not committed yet can only have been loaded in another role.
ReadyInv ==
  /\ \A d \in Deployers :
       /\ pc[d] \in {"legacy", "switch"} => job[d] \in loaded
       /\ pc[d] \in Attempting /\ lock = d => job[d] \in {release.active, release.previous}
  /\ pc["rollback"] = "restore" => target \in loaded

LoadedInv == ActiveIsLoaded /\ ReadyInv

\* An attempt past its readiness check is on a model that any reload keeps.
LEMMA ReloadKeepsCandidate ==
  ASSUME TypeInv, RowsInv, ReadyInv, NEW d \in Deployers, pc[d] \in Chosen
  PROVE  job[d] \in ReloadTargets
<1>1. job[d] \in Models BY DEF Chosen, TypeInv, TypeOK
<1>2. job[d] # NoModel BY <1>1, ReleaseAssumption
<1>3. CASE lock = d BY <1>2, <1>3 DEF ReadyInv, Attempting, Chosen, ReloadTargets
<1>4. CASE lock # d
  BY <1>2, <1>4 DEF RowsInv, CandidateInv, View, ReloadTargets
<1> QED BY <1>3, <1>4

\* The active model is always a target of a reload.
LEMMA ReloadKeepsActive ==
  ASSUME TypeInv
  PROVE  release.active \in ReloadTargets
BY ReleaseAssumption DEF TypeInv, TypeOK, Row, ReloadTargets

\* A deployer's own successful reload.
LEMMA ReloadLoaded ==
  ASSUME TypeInv, RowsInv, LoadedInv, NEW d \in Deployers, Reload(d)
  PROVE  LoadedInv'
<1> USE DEF TypeInv, TypeOK, Actors, Deployers
<1>0. /\ loaded' = ReloadTargets /\ UNCHANGED <<release, lock, job, target>>
      /\ pc[d] = "reload"
      /\ pc' = [pc EXCEPT ![d] = IF job[d] \in ReloadTargets THEN "cutover" ELSE "record"]
  BY DEF Reload, Goto, SameRows
<1>1. ActiveIsLoaded' BY <1>0, ReloadKeepsActive DEF ActiveIsLoaded
<1>2. ASSUME NEW e \in Deployers
      PROVE  /\ pc'[e] \in {"legacy", "switch"} => job'[e] \in loaded'
             /\ pc'[e] \in Attempting /\ lock' = e => job'[e] \in {release'.active, release'.previous}
  <2>1. CASE e = d
    <3>1. pc'[d] \notin {"legacy", "switch"} BY <1>0
    <3>2. ASSUME lock = d, job[d] \in ReloadTargets
          PROVE  job[d] \in {release.active, release.previous}
      <4>1. release.candidate = NoModel
        BY <3>2 DEF RowsInv, LockInv, CandidateWhileReindexing
      <4> QED BY <3>2, <4>1 DEF ReloadTargets
    <3>3. pc'[d] = "cutover" => job[d] \in ReloadTargets BY <1>0
    <3>4. pc'[d] \in Attempting => pc'[d] = "cutover" BY <1>0 DEF Attempting
    <3> QED BY <1>0, <2>1, <3>1, <3>2, <3>3, <3>4
  <2>2. CASE e # d
    <3>1. pc'[e] = pc[e] BY <1>0, <2>2
    <3> QED BY <1>0, <3>1, ReloadKeepsCandidate DEF LoadedInv, ReadyInv, Chosen
  <2> QED BY <2>1, <2>2
<1>3. pc'["rollback"] # "restore" BY <1>0 DEF RowsInv, TurnsInv
<1> QED BY <1>1, <1>2, <1>3 DEF LoadedInv, ReadyInv

\* A reload that fails leaves the active model and the other deployer's alone.
LEMMA ReloadFailsLoaded ==
  ASSUME TypeInv, RowsInv, LoadedInv, NEW d \in Deployers, ReloadFails(d)
  PROVE  LoadedInv'
<1> USE DEF TypeInv, TypeOK, Actors, Deployers
<1>0. /\ loaded' \in {loaded, ReloadTargets, ReloadTargets \ {job[d]}}
      /\ release.active \in loaded' \/ loaded' = loaded
      /\ UNCHANGED <<release, lock, job, target>>
      /\ pc[d] = "reload" /\ pc' = [pc EXCEPT ![d] = "record"]
  BY DEF ReloadFails, Goto, SameRows
<1>1. ActiveIsLoaded' BY <1>0 DEF LoadedInv, ActiveIsLoaded
<1>2. ASSUME NEW e \in Deployers
      PROVE  /\ pc'[e] \in {"legacy", "switch"} => job'[e] \in loaded'
             /\ pc'[e] \in Attempting /\ lock' = e => job'[e] \in {release'.active, release'.previous}
  <2>1. CASE e = d BY <1>0, <2>1 DEF Attempting
  <2>2. CASE e # d
    <3>1. pc'[e] = pc[e] BY <1>0, <2>2
    <3>2. pc[e] \in Chosen => job[e] # job[d]
      BY <1>0, <2>2, JobsDiffer DEF BeforeSwitch, Chosen
    <3> QED BY <1>0, <3>1, <3>2, ReloadKeepsCandidate DEF LoadedInv, ReadyInv, Chosen
  <2> QED BY <2>1, <2>2
<1>3. pc'["rollback"] # "restore" BY <1>0 DEF RowsInv, TurnsInv
<1> QED BY <1>1, <1>2, <1>3 DEF LoadedInv, ReadyInv

\* A deployer that neither reloads nor cuts over moves on, or ends its attempt.
LEMMA QuietDeployer ==
  ASSUME TypeInv, RowsInv, LoadedInv, NEW d \in Deployers, ~Switch(d), ~Reload(d), ~ReloadFails(d),
         DeployerGoesOn(d) \/ Crash(d) \/ GateFails(d) \/ SearchReloadFails(d)
  PROVE  LoadedInv'
<1> USE DEF TypeInv, TypeOK, Actors, Deployers
<1>1. /\ pc[d] # "idle" /\ pc' = [pc EXCEPT ![d] = pc'[d]] /\ UNCHANGED <<loaded, job, target>>
      /\ pc'[d] \in {"legacy", "switch"} => pc[d] \in {"legacy", "switch"} \/ job[d] \in loaded
      /\ pc'[d] \in Attempting => pc[d] \in Attempting /\ lock' = lock
  BY DEF DeployerGoesOn, OpenRead, OpenWrite, RecordFailure, CutoverRead, ReadinessGate,
     LegacyGate, SearchReload, Complete, Crash, GateFails, SearchReloadFails, Fails, Postpone,
     Stay, Goto, SameRows, SameServing, Attempting
<1>2. release'.active = release.active /\ release'.previous = release.previous
  <2>1. release' = release \/ Commit(d) \/ RollBack(d)
    BY DEF DeployerGoesOn, OpenRead, OpenWrite, RecordFailure, CutoverRead,
       ReadinessGate, LegacyGate, SearchReload, Complete, Crash, GateFails,
       SearchReloadFails, Fails, Postpone, SameRows
  <2> QED BY <2>1 DEF Commit, RollBack, View, RowsInv, LockInv, Row
<1>3. ActiveIsLoaded' BY <1>1, <1>2 DEF LoadedInv, ActiveIsLoaded
<1>4. lock' \in {lock, d, NoActor}
  BY DEF DeployerGoesOn, OpenRead, OpenWrite, RecordFailure, CutoverRead, ReadinessGate,
     LegacyGate, SearchReload, Complete, Crash, GateFails, SearchReloadFails, Fails, Postpone,
     Commit, RollBack, SameRows
<1>5. ASSUME NEW e \in Deployers
      PROVE  /\ pc'[e] \in {"legacy", "switch"} => job'[e] \in loaded'
             /\ pc'[e] \in Attempting /\ lock' = e => job'[e] \in {release'.active, release'.previous}
  <2>1. CASE e = d BY <1>1, <1>2, <2>1 DEF LoadedInv, ReadyInv
  <2>2. CASE e # d
    <3>1. pc'[e] = pc[e] BY <1>1, <2>2
    <3>2. lock' = e => lock = e BY <1>4, <2>2, ReleaseAssumption
    <3> QED BY <1>1, <1>2, <3>1, <3>2 DEF LoadedInv, ReadyInv
  <2> QED BY <2>1, <2>2
<1>6. pc'["rollback"] # "restore" BY <1>1 DEF RowsInv, TurnsInv
<1> QED BY <1>3, <1>5, <1>6 DEF LoadedInv, ReadyInv

\* The cutover serves a loaded model.
LEMMA SwitchLoaded ==
  ASSUME TypeInv, RowsInv, LoadedInv, NEW d \in Deployers, Switch(d)
  PROVE  LoadedInv'
<1> USE DEF TypeInv, TypeOK, Actors, Deployers
<1>0. /\ pc[d] = "switch" /\ pc' = [pc EXCEPT ![d] = "search"]
      /\ UNCHANGED <<loaded, job, target>>
  BY DEF Switch, Goto, SameServing
<1>1. release'.active = job[d] /\ lock' = NoActor BY SwitchWrites
<1>2. ActiveIsLoaded' BY <1>0, <1>1 DEF LoadedInv, ReadyInv, ActiveIsLoaded
<1>3. \A e \in Deployers : pc'[e] \in {"legacy", "switch"} => job'[e] \in loaded'
  BY <1>0 DEF LoadedInv, ReadyInv
<1>4. \A e \in Deployers : lock' # e BY <1>1, ReleaseAssumption
<1>5. pc'["rollback"] # "restore" BY <1>0 DEF RowsInv, TurnsInv
<1> QED BY <1>2, <1>3, <1>4, <1>5 DEF LoadedInv, ReadyInv

\* A rollback restores a loaded model.
LEMMA RollbackLoaded ==
  ASSUME TypeInv, RowsInv, SnapshotsInv, LoadedInv, RollbackGoesOn \/ RollbackFails \/ IndexGone
  PROVE  LoadedInv'
<1> USE DEF TypeInv, TypeOK, Actors, Deployers, Goto
<1>1. pc["rollback"] # "idle" /\ loaded' = loaded
      /\ pc' = [pc EXCEPT !["rollback"] = pc'["rollback"]]
      /\ (pc'["rollback"] = "restore" => target \in loaded /\ target' = target)
  BY DEF RollbackGoesOn, RollbackRead, Mark, CheckTarget, Restore, SearchReload, Ack,
     RollbackFails, IndexGone, Stay, SameServing
<1>2. \A d \in Deployers : pc'[d] = "idle" BY <1>1 DEF RowsInv, TurnsInv
<1>3. ReadyInv' BY <1>1, <1>2 DEF ReadyInv, Attempting
<1>4. ActiveIsLoaded'
  <2>1. CASE Restore
    <3>1. release'.active \in Targets
      BY <2>1, RestoreKeepsSnapshots DEF SnapshotsInv
    <3>2. release'.active = target BY <2>1, <3>1 DEF Restore, SnapshotsInv, RollbackInv
    <3> QED BY <1>1, <2>1, <3>2 DEF Restore, LoadedInv, ReadyInv, ActiveIsLoaded
  <2>2. CASE ~Restore
    <3>1. \A d \in Deployers : ~Switch(d) BY <1>1 DEF RowsInv, TurnsInv, Switch
    <3>2. [Next]_vars BY DEF Next
    <3>3. release'.active = release.active BY <2>2, <3>1, <3>2, ActiveMoves
    <3> QED BY <1>1, <3>3 DEF LoadedInv, ActiveIsLoaded
  <2> QED BY <2>1, <2>2
<1> QED BY <1>3, <1>4 DEF LoadedInv

\* A process starts with nothing checked.
LEMMA StartLoaded ==
  ASSUME TypeInv, LoadedInv, Scan \/ Train \/ RequestRollback \/ Receive \/ Reindex
  PROVE  LoadedInv'
<1> USE DEF TypeInv, TypeOK, Goto, MayStart, SameRows, SameServing, Actors, Deployers,
            LoadedInv, ReadyInv, ActiveIsLoaded, Attempting
<1>1. CASE Scan BY <1>1 DEF Scan
<1>2. CASE Train BY <1>2 DEF Train
<1>3. CASE Receive BY <1>3 DEF Receive
<1>4. CASE RequestRollback \/ Reindex BY <1>4 DEF RequestRollback, Reindex, localVars
<1> QED BY <1>1, <1>2, <1>3, <1>4

LEMMA InitLoaded == Init => LoadedInv
BY ReleaseAssumption DEF Init, LoadedInv, ActiveIsLoaded, ReadyInv, FirstRow, Actors, Deployers,
   Attempting

LEMMA NextLoaded ==
  TypeInv /\ RowsInv /\ SnapshotsInv /\ LoadedInv /\ [Next]_vars => LoadedInv'
<1>1. ASSUME LoadedInv, UNCHANGED vars PROVE LoadedInv'
  BY <1>1 DEF vars, dbVars, localVars, LoadedInv, ActiveIsLoaded, ReadyInv
<1> QED
  BY <1>1, ReloadLoaded, ReloadFailsLoaded, QuietDeployer, SwitchLoaded, RollbackLoaded,
     StartLoaded DEF Next

\* While deployments and rollbacks take turns, the serving model is always
\* loaded, whichever steps crash or fail.
THEOREM ServingModelIsLoaded ==
  ASSUME ~Overlap
  PROVE  Spec => []ActiveIsLoaded
<1> DEFINE All == TypeInv /\ RowsInv /\ SnapshotsInv /\ LoadedInv
<1>1. Init => All BY InitTypes, InitRows, InitSnapshots, InitLoaded
<1>2. All /\ [Next]_vars => All' BY NextTypes, NextRows, NextSnapshots, NextLoaded
<1>3. All => ActiveIsLoaded BY DEF LoadedInv
<1> QED BY <1>1, <1>2, <1>3, PTL DEF Spec

-----------------------------------------------------------------------------
(* Finished and unfinished models.                                         *)

Used == {i \in SnapshotIds : snapshot[i].status # "UNUSED"}
UsedModels == {snapshot[i].model : i \in Used}

\* A model whose run is not finished plays no part in any release: so the
\* trainer, which attempts just those, opens a candidate and never cuts over.
TrainerInv ==
  /\ \A m \in Models \ {Base} : run[m].status = "NOT_READY" =>
        m \notin {release.active, release.previous, release.candidate} /\ m \notin UsedModels
  /\ run[Base].status = "NOT_READY" /\ \A d \in Deployers : pc[d] # "idle" => job[d] # Base
  /\ pc["trainer"] \in {"idle", "open", "openWrite", "reload", "record"}

\* What the steps of a deployer do to the runs.
LEMMA RunMoves ==
  ASSUME TypeInv, NEW d \in Deployers,
         \/ DeployerGoesOn(d) \/ Crash(d)
         \/ ReloadFails(d) \/ GateFails(d) \/ SearchReloadFails(d)
  PROVE  \/ UNCHANGED <<run, release>> /\ ~Switch(d) /\ ~Complete(d)
         \/ \E r \in Run : /\ r.status # "NOT_READY" /\ CommitRun(d, r)
                           /\ Commit(d) \/ Switch(d)
                           /\ ~Switch(d) => r.cutover = run[job[d]].cutover
                           /\ Complete(d) => r.status = "DEPLOY_COMPLETED"
<1>0. pc[d] # "idle" /\ job[d] \in Models /\ run[job[d]] \in Run
  BY DEF DeployerGoesOn, OpenRead, OpenWrite, Reload, RecordFailure, CutoverRead,
     ReadinessGate, LegacyGate, Switch, SearchReload, Complete, Crash, ReloadFails, GateFails,
     SearchReloadFails, TypeInv, TypeOK
<1>1. /\ OwnRun(d) \in Run /\ OwnRun(d).status # "NOT_READY"
      /\ OwnRun(d).cutover = run[job[d]].cutover
  <2>1. OwnRun(d) \in Run BY <1>0, OwnRunType DEF TypeInv
  <2> QED BY <1>0, <2>1 DEF OwnRun, Run
<1>2. CASE Complete(d)
  <2>1. PICK r : /\ CommitRun(d, r) /\ Commit(d)
                 /\ r = [OwnRun(d) EXCEPT !.status = "DEPLOY_COMPLETED", !.attempts = 0]
    BY <1>2 DEF Complete
  <2>2. r \in Run /\ r.status = "DEPLOY_COMPLETED" /\ r.cutover = run[job[d]].cutover
    BY <1>1, <2>1 DEF Run
  <2> QED BY <2>1, <2>2
<1>3. CASE RecordFailure(d)
  <2>1. PICK r : /\ CommitRun(d, r) /\ Commit(d)
                 /\ r = [OwnRun(d) EXCEPT !.attempts = run[job[d]].attempts + 1,
                          !.status = IF run[job[d]].attempts + 1 >= MaxAttempts
                                     THEN "DEPLOYMENT_BLOCKED" ELSE @]
    BY <1>3 DEF RecordFailure
  <2>2. r \in Run /\ r.status # "NOT_READY" /\ r.cutover = run[job[d]].cutover
    <3>1. run[job[d]].attempts + 1 \in Nat BY <1>0 DEF Run
    <3> QED BY <1>1, <2>1, <3>1 DEF Run
  <2>3. ~Complete(d) BY <1>3 DEF RecordFailure, Complete
  <2> QED BY <2>1, <2>2, <2>3
<1>4. CASE Switch(d)
  <2>1. PICK r : CommitRun(d, r) /\ r = [OwnRun(d) EXCEPT !.cutover = CutoverTime(d)]
    BY <1>4 DEF Switch
  <2>2. CutoverTime(d) \in Nat BY <1>0 DEF CutoverTime, TypeInv, TypeOK, Run
  <2>3. r \in Run /\ r.status # "NOT_READY" BY <1>1, <2>1, <2>2 DEF Run
  <2>4. ~Complete(d) BY <1>4 DEF Switch, Complete
  <2> QED BY <1>4, <2>1, <2>3, <2>4
<1>5. CASE ~Complete(d) /\ ~RecordFailure(d) /\ ~Switch(d)
  <2>1. UNCHANGED <<run, release>> \/ (CommitRun(d, OwnRun(d)) /\ Commit(d))
    BY <1>5 DEF DeployerGoesOn, OpenRead, OpenWrite, Reload, CutoverRead,
       ReadinessGate, LegacyGate, SearchReload, Crash, ReloadFails, GateFails,
       SearchReloadFails, Fails, Postpone, RollBack, SameRows
  <2> QED BY <1>1, <1>5, <2>1
<1> QED BY <1>2, <1>3, <1>4, <1>5

\* Committing a run changes that run only.
LEMMA CommitRunChanges ==
  ASSUME TypeInv, NEW d \in Deployers, job[d] \in Models, NEW r \in Run, CommitRun(d, r)
  PROVE  run'[job[d]] = r /\ \A m \in Models \ {job[d]} : run'[m] = run[m]
BY DEF CommitRun, TypeInv, TypeOK

\* What the steps of a deployer do to the release: the model they bring in is their
\* own, and by then its run is finished.
LEMMA ReleaseMoves ==
  ASSUME TypeInv, RowsInv, NEW d \in Deployers,
         \/ DeployerGoesOn(d) \/ Crash(d)
         \/ ReloadFails(d) \/ GateFails(d) \/ SearchReloadFails(d)
  PROVE  \/ release' = release
         \/ /\ run'[job[d]].status # "NOT_READY"
            /\ {release'.active, release'.previous, release'.candidate}
                 \subseteq {release.active, release.previous, release.candidate, job[d], NoModel}
<1>0. pc[d] # "idle" /\ job[d] \in Models
  BY DEF DeployerGoesOn, OpenRead, OpenWrite, Reload, RecordFailure, CutoverRead,
     ReadinessGate, LegacyGate, Switch, SearchReload, Complete, Crash, ReloadFails, GateFails,
     SearchReloadFails, TypeInv, TypeOK
<1>1. CASE Switch(d)
  <2>1. release'.active = job[d] /\ release'.previous = copy[d].active
        /\ release'.candidate = NoModel
    BY <1>1, SwitchWrites
  <2>2. copy[d] = View(d) BY <1>1 DEF Switch, RowsInv, CandidateInv, Chosen
  <2>3. copy[d].active = release.active
    <3>1. lock = d => dirty.active = release.active
      BY DEF RowsInv, LockInv, TypeInv, TypeOK, Row
    <3> QED BY <2>2, <3>1 DEF View
  <2>4. PICK r \in Run : CommitRun(d, r) /\ r.status # "NOT_READY" BY <1>1, RunMoves
  <2>5. run'[job[d]].status # "NOT_READY" BY <1>0, <2>4, CommitRunChanges
  <2> QED BY <2>1, <2>3, <2>5
<1>2. CASE ~Switch(d) /\ release' # release
  <2>1. PICK r \in Run : r.status # "NOT_READY" /\ CommitRun(d, r) /\ Commit(d)
    BY <1>2, RunMoves
  <2>2. run'[job[d]].status # "NOT_READY" BY <1>0, <2>1, CommitRunChanges
  <2>3. lock = d /\ release' = dirty BY <1>2, <2>1 DEF Commit, View
  <2>4. dirty.active = release.active /\ dirty.previous = release.previous
        /\ dirty.candidate = job[d]
    BY <2>3 DEF RowsInv, LockInv, TypeInv, TypeOK, Row
  <2> QED BY <2>2, <2>3, <2>4
<1> QED BY <1>1, <1>2

\* A cutover puts one more snapshot in use, and ages the others.
LEMMA SwitchUses ==
  ASSUME TypeInv, NEW d \in Deployers, Switch(d)
  PROVE  /\ NewId \in SnapshotIds \ Used /\ Used' = Used \union {NewId}
         /\ snapshot'[NewId].status = "ACTIVE"
         /\ snapshot'[NewId].model = job[d] /\ snapshot'[NewId].at = CutoverTime(d)
         /\ \A i \in Used : /\ snapshot'[i].model = snapshot[i].model
                            /\ snapshot'[i].at = snapshot[i].at
                            /\ snapshot'[i].status = Aged(snapshot[i].status)
<1>1. RecordCutover(job[d], CutoverTime(d))
  BY DEF Switch, TypeInv, CopyHasCandidate
<1>2. NewId \in SnapshotIds /\ snapshot[NewId].status = "UNUSED"
  BY <1>1, NewIdIsUnused DEF RecordCutover
<1>3. /\ snapshot'[NewId] = [status |-> "ACTIVE", model |-> job[d], at |-> CutoverTime(d)]
      /\ \A i \in SnapshotIds \ {NewId} : snapshot'[i] = [snapshot[i] EXCEPT !.status = Aged(@)]
  BY <1>1, <1>2 DEF RecordCutover
<1>4. \A i \in SnapshotIds \ {NewId} : /\ snapshot'[i].model = snapshot[i].model
                                       /\ snapshot'[i].at = snapshot[i].at
                                       /\ snapshot'[i].status = Aged(snapshot[i].status)
  <2> TAKE i \in SnapshotIds \ {NewId}
  <2>1. snapshot[i] \in Snapshot BY DEF TypeInv, TypeOK
  <2>2. snapshot'[i] = [snapshot[i] EXCEPT !.status = Aged(snapshot[i].status)] BY <1>3
  <2> QED BY <2>1, <2>2 DEF Snapshot
<1>5. \A i \in SnapshotIds \ {NewId} : snapshot'[i].status # "UNUSED" <=> snapshot[i].status # "UNUSED"
  BY <1>4 DEF Aged
<1>6. /\ snapshot'[NewId].status = "ACTIVE"
      /\ snapshot'[NewId].model = job[d] /\ snapshot'[NewId].at = CutoverTime(d)
  BY <1>3
<1>7. Used' = Used \union {NewId} BY <1>2, <1>5, <1>6 DEF Used
<1>8. NewId \notin Used /\ \A i \in Used : i \in SnapshotIds \ {NewId} BY <1>2 DEF Used
<1> QED BY <1>2, <1>4, <1>6, <1>7, <1>8

\* A restore puts none in use, and leaves their models and times.
LEMMA RestoreUses ==
  ASSUME TypeInv, Restore
  PROVE  /\ Used' = Used
         /\ \A i \in SnapshotIds : /\ snapshot'[i].model = snapshot[i].model
                                   /\ snapshot'[i].at = snapshot[i].at
<1>1. PICK i \in SnapshotsWith("PREVIOUS_STABLE"), next \in SUBSET SnapshotsWith("SUPERSEDED") :
        snapshot' = [j \in SnapshotIds |-> [snapshot[j] EXCEPT !.status = Restored(i, next, j)]]
  BY DEF Restore
<1>2. \A j \in SnapshotIds : /\ snapshot'[j].status = Restored(i, next, j)
                             /\ snapshot'[j].model = snapshot[j].model
                             /\ snapshot'[j].at = snapshot[j].at
  BY <1>1 DEF TypeInv, TypeOK, Snapshot
<1>3. \A j \in SnapshotIds : Restored(i, next, j) # "UNUSED" <=> snapshot[j].status # "UNUSED"
  BY DEF Restored, SnapshotsWith
<1> QED BY <1>2, <1>3 DEF Used

\* The model a cutover puts in use is the deployer's.
LEMMA SwitchModels ==
  ASSUME TypeInv, NEW d \in Deployers, Switch(d)
  PROVE  UsedModels' = UsedModels \union {job[d]}
<1>1. NewId \in Used' /\ snapshot'[NewId].model = job[d] BY SwitchUses
<1>2. Used' = Used \union {NewId} /\ \A i \in Used : snapshot'[i].model = snapshot[i].model
  BY SwitchUses
<1>3. UsedModels' = {snapshot'[i].model : i \in Used \union {NewId}} BY <1>2 DEF UsedModels
<1>4. NewId \notin Used BY SwitchUses
<1> HIDE DEF Used
<1>5. \A x : x \in UsedModels' <=> (\E i \in Used : x = snapshot'[i].model) \/ x = job[d]
  BY <1>1, <1>3
<1>6. \A x : x \in UsedModels <=> \E i \in Used : x = snapshot[i].model BY DEF UsedModels
<1> QED BY <1>2, <1>5, <1>6

\* A deployer's step keeps its job, and nobody else's place.
LEMMA DeployerStays ==
  ASSUME TypeInv, NEW d \in Deployers,
         \/ DeployerGoesOn(d) \/ Crash(d)
         \/ ReloadFails(d) \/ GateFails(d) \/ SearchReloadFails(d)
  PROVE  /\ pc[d] # "idle" /\ job[d] \in Models /\ job' = job
         /\ pc' = [pc EXCEPT ![d] = pc'[d]]
BY DEF DeployerGoesOn, OpenRead, OpenWrite, Reload, RecordFailure, CutoverRead,
   ReadinessGate, LegacyGate, Switch, SearchReload, Complete, Crash, ReloadFails, GateFails,
   SearchReloadFails, Fails, Postpone, Stay, Goto, TypeInv, TypeOK, Actors, Deployers

\* A deployer's step: only its own model gets finished or gets a part.
LEMMA DeployerTrainer ==
  ASSUME TypeInv, RowsInv, TrainerInv, NEW d \in Deployers,
         \/ DeployerGoesOn(d) \/ Crash(d)
         \/ ReloadFails(d) \/ GateFails(d) \/ SearchReloadFails(d)
  PROVE  TrainerInv'
<1>0. /\ pc[d] # "idle" /\ job[d] \in Models /\ job' = job
      /\ pc' = [pc EXCEPT ![d] = pc'[d]]
  BY DeployerStays
<1>1. /\ \A m \in Models : m # job[d] => run'[m] = run[m]
      /\ run' = run \/ run'[job[d]].status # "NOT_READY"
  BY <1>0, RunMoves, CommitRunChanges
<1>2. Switch(d) => d = "scheduler" BY DEF Switch, TrainerInv, Deployers
<1>s. run[job[d]].status # "NOT_READY" \/ d # "scheduler" BY <1>0 DEF RowsInv, JobsInv
<1>3. ASSUME NEW m \in Models \ {Base}, run'[m].status = "NOT_READY"
      PROVE  m \notin {release'.active, release'.previous, release'.candidate}
  <2>1. run[m].status = "NOT_READY" /\ m # NoModel
    BY <1>1, <1>3, ReleaseAssumption
  <2>2. m \notin {release.active, release.previous, release.candidate}
    BY <2>1 DEF TrainerInv
  <2>3. CASE release' = release BY <2>2, <2>3
  <2>4. CASE release' # release
    <3>1. run'[job[d]].status # "NOT_READY"
          /\ {release'.active, release'.previous, release'.candidate}
               \subseteq {release.active, release.previous, release.candidate, job[d], NoModel}
      BY <2>4, ReleaseMoves
    <3>2. m # job[d] BY <1>3, <3>1
    <3> QED BY <2>1, <2>2, <3>1, <3>2
  <2> QED BY <2>3, <2>4
<1>4. ASSUME NEW m \in Models \ {Base}, run'[m].status = "NOT_READY"
      PROVE  m \notin UsedModels'
  <2>1. run[m].status = "NOT_READY" BY <1>1, <1>4
  <2>2. m \notin UsedModels BY <2>1 DEF TrainerInv
  <2>3. CASE snapshot' = snapshot
    <3>1. UsedModels' = UsedModels BY <2>3 DEF UsedModels, Used
    <3> QED BY <2>2, <3>1
  <2>4. CASE Switch(d)
    <3>1. d = "scheduler" /\ run[job[d]].status # "NOT_READY" BY <2>4, <1>2, <1>s
    <3>2. m # job[d] BY <2>1, <3>1
    <3>3. UsedModels' = UsedModels \union {job[d]} BY <2>4, SwitchModels
    <3> QED BY <2>2, <3>2, <3>3
  <2>5. ~Switch(d) => snapshot' = snapshot
    BY DEF DeployerGoesOn, OpenRead, OpenWrite, Reload, RecordFailure, CutoverRead,
     ReadinessGate, LegacyGate, SearchReload, Complete, Crash, ReloadFails, GateFails,
     SearchReloadFails, Fails, Postpone, SameRows
  <2> QED BY <2>3, <2>4, <2>5
<1>5. run'[Base].status = "NOT_READY" /\ \A e \in Deployers : pc'[e] # "idle" => job'[e] # Base
  <2>1. job[d] # Base BY <1>0 DEF TrainerInv
  <2>2. run'[Base] = run[Base] BY <1>1, <2>1, ReleaseAssumption
  <2>3. \A e \in Deployers : pc'[e] # "idle" => pc[e] # "idle"
    BY <1>0 DEF TypeInv, TypeOK, Actors
  <2> QED BY <1>0, <2>2, <2>3 DEF TrainerInv
<1>6. pc'["trainer"] \in {"idle", "open", "openWrite", "reload", "record"}
  <2>1. CASE d # "trainer"
    <3>1. pc'["trainer"] = pc["trainer"]
      BY <1>0, <2>1 DEF TypeInv, TypeOK, Actors, Deployers
    <3> QED BY <3>1 DEF TrainerInv
  <2>2. CASE d = "trainer"
    <3>1. pc[d] \in {"open", "openWrite", "reload", "record"} BY <1>0, <2>2 DEF TrainerInv
    <3>2. CASE Reload(d)
      <4>1. run[job[d]].status = "NOT_READY" /\ job[d] # Base
        BY <1>0, <2>2, <3>1 DEF RowsInv, JobsInv, BeforeSwitch, TrainerInv
      <4>2. job[d] \notin ReloadTargets BY <1>0, <4>1 DEF TrainerInv, ReloadTargets
      <4>3. pc' = [pc EXCEPT ![d] = "record"] BY <3>2, <4>2 DEF Reload, Goto
      <4> QED BY <2>2, <4>3 DEF TypeInv, TypeOK, Actors, Deployers
    <3>3. CASE ~Reload(d)
      <4>1. pc'[d] \in {"idle", "openWrite", "reload", "record"}
        BY <3>1, <3>3
        DEF DeployerGoesOn, OpenRead, OpenWrite, RecordFailure, CutoverRead,
            ReadinessGate, LegacyGate, Switch, SearchReload, Complete, Crash, ReloadFails,
            GateFails, SearchReloadFails, Fails, Postpone, Stay, Goto, TypeInv, TypeOK, Actors,
            Deployers
      <4> QED BY <2>2, <4>1
    <3> QED BY <3>2, <3>3
  <2> QED BY <2>1, <2>2
<1> QED BY <1>3, <1>4, <1>5, <1>6 DEF TrainerInv

\* A rollback's step brings in no model but one in use.
LEMMA RollbackTrainer ==
  ASSUME TypeInv, RowsInv, OneOfEach, TrainerInv, RollbackGoesOn \/ RollbackFails \/ IndexGone
  PROVE  TrainerInv'
<1>1. UNCHANGED <<run, job>> /\ pc' = [pc EXCEPT !["rollback"] = pc'["rollback"]]
  BY DEF RollbackGoesOn, RollbackRead, Mark, CheckTarget, Restore, SearchReload, Ack,
     RollbackFails, IndexGone, Stay, Goto, SameRows, TypeInv, TypeOK, Actors
<1>2. UsedModels' = UsedModels
  <2>1. CASE Restore BY <2>1, RestoreUses DEF UsedModels, Used
  <2>2. CASE ~Restore
    BY <2>2 DEF RollbackGoesOn, RollbackRead, Mark, CheckTarget, SearchReload, Ack,
       RollbackFails, IndexGone, SameRows, UsedModels, Used
  <2> QED BY <2>1, <2>2
<1>3. {release'.active, release'.previous, release'.candidate}
        \subseteq {release.active, release.previous, release.candidate, NoModel} \union UsedModels
  <2>1. CASE Restore
    <3>1. PICK i \in SnapshotsWith("PREVIOUS_STABLE") :
            Write("rollback", [status |-> "STABLE", active |-> snapshot[i].model,
                               previous |-> NoModel, candidate |-> NoModel,
                               switched |-> clock + 1])
      BY <2>1 DEF Restore
    <3>2. i \in Used /\ snapshot[i].model \in Models
      BY DEF SnapshotsWith, Used, TypeInv, UsedHaveModels
    <3>3. release'.active = snapshot[i].model /\ release'.previous = NoModel
          /\ release'.candidate = NoModel
      BY <2>1, <3>1, <3>2, RestoreWrites DEF Restore
    <3> QED BY <3>2, <3>3 DEF UsedModels
  <2>2. CASE ~Restore
    <3>1. release' = release \/ (lock = "rollback" /\ release' = dirty)
      BY <2>2 DEF RollbackGoesOn, RollbackRead, Mark, CheckTarget, SearchReload, Ack,
         RollbackFails, IndexGone, SameRows, Commit, RollBack, View
    <3>2. lock = "rollback" => /\ dirty.active = release.active
                               /\ dirty.previous = release.previous
                               /\ dirty.candidate = release.candidate
      BY DEF RowsInv, LockInv, TypeInv, TypeOK, Row
    <3> QED BY <3>1, <3>2
  <2> QED BY <2>1, <2>2
<1>4. \A m \in Models \ {Base} : run'[m].status = "NOT_READY" =>
        m \notin {release'.active, release'.previous, release'.candidate} /\ m \notin UsedModels'
  BY <1>1, <1>2, <1>3, ReleaseAssumption DEF TrainerInv
<1>5. pc'["trainer"] = pc["trainer"] /\ \A e \in Deployers : pc'[e] = pc[e]
  BY <1>1 DEF TypeInv, TypeOK, Actors, Deployers
<1> QED BY <1>1, <1>4, <1>5 DEF TrainerInv

\* The scheduler starts on a finished run, the trainer on its own.
LEMMA StartTrainer ==
  ASSUME TypeInv, TrainerInv, Scan \/ Train \/ RequestRollback \/ Receive \/ Reindex
  PROVE  TrainerInv'
<1>0. UNCHANGED <<release, run, snapshot>>
  BY DEF Scan, Train, RequestRollback, Receive, Reindex, SameRows
<1>1. UsedModels' = UsedModels BY <1>0 DEF UsedModels, Used
<1> USE DEF TypeInv, TypeOK, Goto, Actors, Deployers
<1>2. CASE Scan
  <2>1. PICK m \in Models : Eligible(m) /\ job' = [job EXCEPT !["scheduler"] = m] BY <1>2 DEF Scan
  <2>2. m # Base BY <2>1 DEF TrainerInv, Eligible
  <2>3. pc' = [pc EXCEPT !["scheduler"] = "open"] BY <1>2 DEF Scan
  <2> QED BY <1>0, <1>1, <2>1, <2>2, <2>3 DEF TrainerInv
<1>3. CASE Train
  <2>1. PICK m \in Models \ {Base} : job' = [job EXCEPT !["trainer"] = m] BY <1>3 DEF Train
  <2>2. pc' = [pc EXCEPT !["trainer"] = "open"] BY <1>3 DEF Train
  <2> QED BY <1>0, <1>1, <2>1, <2>2 DEF TrainerInv
<1>4. CASE Receive BY <1>0, <1>1, <1>4 DEF Receive, TrainerInv
<1>5. CASE RequestRollback \/ Reindex
  BY <1>0, <1>1, <1>5 DEF RequestRollback, Reindex, localVars, TrainerInv
<1> QED BY <1>2, <1>3, <1>4, <1>5

LEMMA InitTrainer == Init => TrainerInv
<1> SUFFICES ASSUME Init PROVE TrainerInv OBVIOUS
<1>1. UsedModels \subseteq {Base} BY DEF Init, UsedModels, Used, NoSnapshot
<1>2. /\ release.active = Base /\ release.previous = NoModel /\ release.candidate = NoModel
  BY DEF Init, FirstRow
<1>3. /\ \A m \in Models : run[m].status = "NOT_READY"
      /\ \A a \in Actors : pc[a] = "idle"
  BY DEF Init
<1> QED BY <1>1, <1>2, <1>3, ReleaseAssumption DEF TrainerInv, Actors, Deployers

LEMMA NextTrainer ==
  TypeInv /\ RowsInv /\ OneOfEach /\ TrainerInv /\ [Next]_vars => TrainerInv'
<1>1. ASSUME TrainerInv, UNCHANGED vars PROVE TrainerInv'
  BY <1>1 DEF vars, dbVars, localVars, TrainerInv, UsedModels, Used
<1> QED BY <1>1, DeployerTrainer, RollbackTrainer, StartTrainer DEF Next

-----------------------------------------------------------------------------
(* Each model is released once.                                            *)

Completing(m) == job["scheduler"] = m /\ pc["scheduler"] \in {"search", "complete"}

\* A model that was released is not deployed again, unless its deployer was cut short: its
\* run is completed, or just being completed.
OnceInv ==
  /\ \A i, j \in Used :
       snapshot[i].model = snapshot[j].model => i = j \/ snapshot[i].model \in cutShort
  /\ \A m \in UsedModels : \/ m = Base \/ run[m].status = "DEPLOY_COMPLETED"
                            \/ Completing(m) \/ m \in cutShort
  /\ pc["scheduler"] \in BeforeSwitch => job["scheduler"] \notin UsedModels \ cutShort
  /\ \A m \in Models : run[m].cutover # 0 => m \in UsedModels

\* A deployer that does not cut over touches no run of a released model, or completes it.
LEMMA QuietOnce ==
  ASSUME TypeInv, RowsInv, TrainerInv, OnceInv, NEW d \in Deployers, ~Switch(d),
         \/ DeployerGoesOn(d) \/ Crash(d)
         \/ ReloadFails(d) \/ GateFails(d) \/ SearchReloadFails(d)
  PROVE  OnceInv'
<1>0. /\ pc[d] # "idle" /\ job[d] \in Models /\ job' = job
      /\ pc' = [pc EXCEPT ![d] = pc'[d]]
  BY DeployerStays
<1>1. snapshot' = snapshot
  BY DEF DeployerGoesOn, OpenRead, OpenWrite, Reload, RecordFailure, CutoverRead,
     ReadinessGate, LegacyGate, SearchReload, Complete, Crash, ReloadFails, GateFails,
     SearchReloadFails, Fails, Postpone, SameRows
<1>2. Used' = Used /\ UsedModels' = UsedModels BY <1>1 DEF UsedModels, Used
<1>s. \A m \in cutShort : m \in cutShort'
  BY DEF DeployerGoesOn, OpenRead, OpenWrite, Reload, RecordFailure, CutoverRead,
     ReadinessGate, LegacyGate, SearchReload, Complete, Crash, ReloadFails, GateFails,
     SearchReloadFails
<1>3. /\ \A m \in Models : m # job[d] => run'[m] = run[m]
      /\ \A m \in Models : run'[m].cutover = run[m].cutover
      /\ Complete(d) => run'[job[d]].status = "DEPLOY_COMPLETED"
  <2>1. CASE run' = run /\ ~Complete(d) BY <2>1
  <2>2. CASE ~(run' = run /\ ~Complete(d))
    <3>1. PICK r \in Run : /\ CommitRun(d, r) /\ r.cutover = run[job[d]].cutover
                           /\ Complete(d) => r.status = "DEPLOY_COMPLETED"
      BY <2>2, RunMoves
    <3> QED BY <1>0, <3>1, CommitRunChanges
  <2> QED BY <2>1, <2>2
<1>4. CASE d = "trainer"
  <2>1. job[d] # Base /\ run[job[d]].status = "NOT_READY"
    BY <1>0, <1>4 DEF TrainerInv, RowsInv, JobsInv, BeforeSwitch
  <2>2. job[d] \notin UsedModels BY <1>0, <2>1 DEF TrainerInv
  <2>3. pc'["scheduler"] = pc["scheduler"]
    BY <1>0, <1>4 DEF TypeInv, TypeOK, Actors, Deployers
  <2>4. \A m \in UsedModels : m \in Models BY DEF UsedModels, Used, TypeInv, UsedHaveModels
  <2> QED BY <1>0, <1>1, <1>2, <1>3, <1>s, <2>2, <2>3, <2>4 DEF OnceInv, Completing
<1>5. CASE d = "scheduler"
  <2>1. CASE Complete(d)
    <3>1. pc'["scheduler"] = "idle"
      BY <1>5, <2>1 DEF Complete, Stay, Goto, TypeInv, TypeOK, Actors, Deployers
    <3>2. \A m \in UsedModels : m \in Models BY DEF UsedModels, Used, TypeInv, UsedHaveModels
    <3> QED BY <1>0, <1>1, <1>2, <1>3, <1>s, <1>5, <2>1, <3>1, <3>2 DEF OnceInv, Completing, BeforeSwitch
  <2>2. CASE SearchReload(d, "complete")
    <3>1. run' = run /\ pc["scheduler"] = "search" /\ pc'["scheduler"] = "complete"
      BY <1>5, <2>2 DEF SearchReload, Goto, SameRows, TypeInv, TypeOK, Actors, Deployers
    <3> QED BY <1>0, <1>1, <1>2, <1>s, <3>1 DEF OnceInv, Completing, BeforeSwitch
  <2>3. CASE SearchReloadFails(d) \/ (pc[d] \in {"search", "complete"} /\ Crash(d))
    <3>1. pc'["scheduler"] = "idle" /\ cutShort' = cutShort \union {job["scheduler"]}
      BY <1>5, <2>3 DEF SearchReloadFails, Crash, Fails, Stay, Goto, TypeInv, TypeOK, Actors,
         Deployers
    <3>2. run' = run
      BY <1>5, <2>3 DEF SearchReloadFails, Crash, Fails
    <3> QED BY <1>0, <1>1, <1>2, <3>1, <3>2 DEF OnceInv, Completing, BeforeSwitch
  <2>4. CASE ~Complete(d) /\ ~SearchReload(d, "complete")
             /\ ~(SearchReloadFails(d) \/ (pc[d] \in {"search", "complete"} /\ Crash(d)))
    <3>1. pc[d] \in BeforeSwitch /\ pc'[d] \in BeforeSwitch \union {"idle"}
      BY <1>0, <2>4 DEF DeployerGoesOn, OpenRead, OpenWrite, Reload, RecordFailure, CutoverRead,
         ReadinessGate, LegacyGate, Crash, ReloadFails, GateFails, Fails, Postpone, Stay, Goto,
         TypeInv, TypeOK, Actors, Deployers, BeforeSwitch, DeployerSteps
    <3>2. job[d] \notin UsedModels \ cutShort BY <1>5, <3>1 DEF OnceInv
    <3>3. \A m \in UsedModels : ~Completing(m)
      BY <1>5, <3>1 DEF Completing, BeforeSwitch
    <3>4. \A m \in UsedModels : m \in Models BY DEF UsedModels, Used, TypeInv, UsedHaveModels
    <3>5. \A m \in UsedModels : m = Base \/ run[m].status = "DEPLOY_COMPLETED" \/ m \in cutShort
      BY <3>3 DEF OnceInv
    <3>6. \A m \in UsedModels : m = Base \/ run'[m].status = "DEPLOY_COMPLETED" \/ m \in cutShort'
      BY <1>3, <1>s, <3>2, <3>4, <3>5
    <3> QED BY <1>0, <1>1, <1>2, <1>3, <1>s, <1>5, <3>1, <3>2, <3>4, <3>6 DEF OnceInv
  <2> QED BY <2>1, <2>2, <2>3, <2>4
<1> QED BY <1>4, <1>5 DEF Deployers

\* The scheduler's cutover releases a model for the first time, at a time of its own,
\* unless an earlier one was cut short.
LEMMA SwitchIsFirst ==
  ASSUME TypeInv, TrainerInv, OnceInv, NEW d \in Deployers, Switch(d)
  PROVE  /\ d = "scheduler" /\ job[d] \in Models
         /\ job[d] \notin cutShort => job[d] \notin UsedModels /\ CutoverTime(d) = clock + 1
<1>1. pc[d] = "switch" BY DEF Switch
<1>2. d = "scheduler" BY <1>1 DEF TrainerInv, Deployers
<1>3. job[d] \in Models BY <1>1 DEF TypeInv, TypeOK
<1>4. job[d] \notin cutShort => job[d] \notin UsedModels
  BY <1>1, <1>2 DEF OnceInv, BeforeSwitch
<1>5. job[d] \notin cutShort => run[job[d]].cutover = 0 BY <1>3, <1>4 DEF OnceInv
<1> QED BY <1>2, <1>3, <1>4, <1>5 DEF CutoverTime

LEMMA SwitchOnce ==
  ASSUME TypeInv, RowsInv, TrainerInv, OnceInv, NEW d \in Deployers, Switch(d)
  PROVE  OnceInv'
<1>0. /\ pc[d] # "idle" /\ job[d] \in Models /\ job' = job
      /\ pc' = [pc EXCEPT ![d] = pc'[d]]
  BY DeployerStays DEF DeployerGoesOn
<1>1. d = "scheduler" /\ (job[d] \notin cutShort => job[d] \notin UsedModels) BY SwitchIsFirst
<1>s. cutShort' = cutShort BY DEF Switch
<1>2. pc'["scheduler"] = "search"
  BY <1>1 DEF Switch, Goto, TypeInv, TypeOK, Actors, Deployers
<1>3. \A m \in Models : m # job[d] => run'[m] = run[m]
  BY <1>0, RunMoves, CommitRunChanges DEF DeployerGoesOn
<1>4. UsedModels' = UsedModels \union {job[d]} BY SwitchModels
<1>5. /\ NewId \notin Used /\ Used' = Used \union {NewId}
      /\ snapshot'[NewId].model = job[d]
      /\ \A i \in Used : snapshot'[i].model = snapshot[i].model
  BY SwitchUses
<1>6. job[d] \notin cutShort => \A i \in Used : snapshot[i].model # job[d] BY <1>1 DEF UsedModels
<1>7. \A i, j \in Used' : snapshot'[i].model = snapshot'[j].model
                           => i = j \/ snapshot'[i].model \in cutShort'
  BY <1>5, <1>6, <1>s DEF OnceInv
<1>8. \A m \in UsedModels' : \/ m = Base \/ run'[m].status = "DEPLOY_COMPLETED"
                             \/ Completing(m)' \/ m \in cutShort'
  <2>1. \A m : m = job[d] => Completing(m)' BY <1>0, <1>1, <1>2 DEF Completing
  <2>2. ASSUME NEW m \in UsedModels, m # job[d]
        PROVE  m = Base \/ run'[m].status = "DEPLOY_COMPLETED" \/ m \in cutShort'
    <3>1. m \in Models BY DEF UsedModels, Used, TypeInv, UsedHaveModels
    <3>2. ~Completing(m) BY <1>1, <2>2 DEF Completing
    <3>3. m = Base \/ run[m].status = "DEPLOY_COMPLETED" \/ m \in cutShort BY <3>2 DEF OnceInv
    <3> QED BY <1>3, <1>s, <2>2, <3>1, <3>3
  <2> QED BY <1>4, <2>1, <2>2
<1>9. \A m \in Models : run'[m].cutover # 0 => m \in UsedModels'
  BY <1>3, <1>4 DEF OnceInv
<1> QED BY <1>2, <1>7, <1>8, <1>9 DEF OnceInv, BeforeSwitch

\* The other steps release no model and finish no run.
LEMMA OthersOnce ==
  ASSUME TypeInv, TrainerInv, OnceInv,
         \/ Scan \/ Train \/ RequestRollback \/ Receive \/ Reindex \/ RollbackGoesOn
         \/ RollbackFails \/ IndexGone \/ UNCHANGED vars
  PROVE  OnceInv'
<1>1. run' = run
  BY DEF Scan, Train, RequestRollback, Receive, Reindex, RollbackGoesOn, RollbackRead, Mark,
     CheckTarget, Restore, SearchReload, Ack, RollbackFails, IndexGone, SameRows, vars, dbVars
<1>s. cutShort' = cutShort
  BY DEF Scan, Train, RequestRollback, Receive, Reindex, RollbackGoesOn, RollbackRead, Mark,
     CheckTarget, Restore, SearchReload, Ack, RollbackFails, IndexGone, vars
<1>2. Used' = Used /\ \A i \in SnapshotIds : snapshot'[i].model = snapshot[i].model
  <2>1. CASE Restore BY <2>1, RestoreUses
  <2>2. CASE ~Restore
    <3>1. snapshot' = snapshot
      BY <2>2 DEF Scan, Train, RequestRollback, Receive, Reindex, RollbackGoesOn, RollbackRead,
         Mark, CheckTarget, SearchReload, Ack, RollbackFails, IndexGone, SameRows, vars, dbVars
    <3> QED BY <3>1 DEF Used
  <2> QED BY <2>1, <2>2
<1>3. UsedModels' = UsedModels BY <1>2 DEF UsedModels, Used
<1>4. CASE Scan
  <2>1. PICK m \in Models : Eligible(m) /\ job' = [job EXCEPT !["scheduler"] = m] BY <1>4 DEF Scan
  <2>2. pc["scheduler"] = "idle" /\ pc'["scheduler"] = "open" /\ job'["scheduler"] = m
    BY <1>4, <2>1 DEF Scan, MayStart, Goto, TypeInv, TypeOK, Actors, Deployers
  <2>3. m \notin UsedModels \ cutShort BY <2>1, <2>2 DEF Eligible, OnceInv, Completing, TrainerInv
  <2> QED BY <1>1, <1>2, <1>3, <1>s, <2>2, <2>3 DEF OnceInv, Completing, Used
<1>5. CASE ~Scan
  <2>1. pc'["scheduler"] = pc["scheduler"] /\ job'["scheduler"] = job["scheduler"]
    BY <1>5 DEF Train, RequestRollback, Receive, Reindex, RollbackGoesOn, RollbackRead, Mark,
       CheckTarget, Restore, SearchReload, Ack, RollbackFails, IndexGone, Stay, Goto, vars,
       localVars, TypeInv, TypeOK, Actors, Deployers
  <2> QED BY <1>1, <1>2, <1>3, <1>s, <2>1 DEF OnceInv, Completing, Used
<1> QED BY <1>4, <1>5

LEMMA NextOnce ==
  TypeInv /\ RowsInv /\ TrainerInv /\ OnceInv /\ [Next]_vars => OnceInv'
BY QuietOnce, SwitchOnce, OthersOnce DEF Next

LEMMA InitOnce == Init => OnceInv
<1> SUFFICES ASSUME Init PROVE OnceInv OBVIOUS
<1>1. Used \subseteq {FirstId} /\ UsedModels \subseteq {Base}
  BY DEF Init, UsedModels, Used, NoSnapshot
<1>2. pc["scheduler"] = "idle" /\ \A m \in Models : run[m].cutover = 0
  BY DEF Init, Actors, Deployers
<1> QED BY <1>1, <1>2 DEF OnceInv, BeforeSwitch

-----------------------------------------------------------------------------
(* The line of releases.                                                   *)

\* Cutover times order the releases: the active one is the newest of those that were
\* not rolled back, its predecessor the newest of the rest.
LineInv ==
  /\ \A i \in Used : snapshot[i].at <= clock
  /\ \A i, j \in Used : snapshot[i].at = snapshot[j].at => i = j
  /\ \A i \in SnapshotsWith("ACTIVE"), j \in SnapshotIds :
        snapshot[j].status \in InHistory => snapshot[j].at <= snapshot[i].at
  /\ \A i \in SnapshotsWith("PREVIOUS_STABLE"), j \in SnapshotsWith("SUPERSEDED") :
        snapshot[j].at <= snapshot[i].at
  /\ SnapshotsWith("PREVIOUS_STABLE") = {} => SnapshotsWith("SUPERSEDED") = {}

\* A cutover puts a new release at the head of the line.
LEMMA SwitchLine ==
  ASSUME TypeInv, OneOfEach, TrainerInv, OnceInv, LineInv, cutShort = {},
         NEW d \in Deployers, Switch(d)
  PROVE  LineInv'
<1>1. CutoverTime(d) = clock + 1 BY SwitchIsFirst
<1>2. clock' = clock + 1 /\ clock \in Nat BY DEF Switch, TypeInv, TypeOK
<1>3. /\ NewId \in SnapshotIds \ Used /\ Used' = Used \union {NewId}
      /\ snapshot'[NewId].status = "ACTIVE" /\ snapshot'[NewId].at = clock + 1
  BY <1>1, SwitchUses
<1>4. \A i \in Used : /\ snapshot'[i].at = snapshot[i].at /\ snapshot'[i].at \in Nat
                      /\ snapshot'[i].at <= clock
                      /\ snapshot'[i].status = Aged(snapshot[i].status)
  BY SwitchUses DEF Used, TypeInv, TypeOK, Snapshot, LineInv
<1>5. \A i \in Used' : snapshot'[i].at <= clock'
  BY <1>2, <1>3, <1>4
<1>6. \A i, j \in Used' : snapshot'[i].at = snapshot'[j].at => i = j
  <2> TAKE i, j \in Used'
  <2>1. CASE i \in Used /\ j \in Used BY <1>4, <2>1 DEF LineInv
  <2>2. CASE ~(i \in Used /\ j \in Used) BY <1>2, <1>3, <1>4, <2>2
  <2> QED BY <2>1, <2>2
<1>7. /\ SnapshotsWith("ACTIVE")' = {NewId}
      /\ \A i \in SnapshotsWith("PREVIOUS_STABLE")' : i \in SnapshotsWith("ACTIVE")
      /\ \A i \in SnapshotsWith("ACTIVE") : i \in SnapshotsWith("PREVIOUS_STABLE")'
      /\ \A i \in SnapshotsWith("SUPERSEDED")' :
           i \in SnapshotsWith("PREVIOUS_STABLE") \union SnapshotsWith("SUPERSEDED")
  <2>1. \A i \in SnapshotIds : snapshot'[i].status # "UNUSED" => i \in Used \union {NewId}
    BY <1>3 DEF Used
  <2>2. \A i \in Used : i \in SnapshotIds /\ i # NewId BY <1>3 DEF Used
  <2> QED BY <1>3, <1>4, <2>1, <2>2 DEF SnapshotsWith, Aged, Used
<1>8. \A i \in SnapshotsWith("ACTIVE")', j \in SnapshotIds :
        snapshot'[j].status \in InHistory => snapshot'[j].at <= snapshot'[i].at
  <2> TAKE i \in SnapshotsWith("ACTIVE")', j \in SnapshotIds
  <2> HAVE snapshot'[j].status \in InHistory
  <2>1. j \in Used' BY DEF Used, InHistory
  <2> QED BY <1>2, <1>3, <1>5, <1>7, <2>1
<1>9. \A i \in SnapshotsWith("PREVIOUS_STABLE")', j \in SnapshotsWith("SUPERSEDED")' :
        snapshot'[j].at <= snapshot'[i].at
  <2> TAKE i \in SnapshotsWith("PREVIOUS_STABLE")', j \in SnapshotsWith("SUPERSEDED")'
  <2>1. i \in SnapshotsWith("ACTIVE") /\ j \in SnapshotIds /\ snapshot[j].status \in InHistory
        /\ i \in Used /\ j \in Used
    BY <1>7 DEF SnapshotsWith, InHistory, Used
  <2> QED BY <1>4, <2>1 DEF LineInv
<1>10. SnapshotsWith("PREVIOUS_STABLE")' # {} BY <1>7 DEF OneOfEach
<1> QED BY <1>5, <1>6, <1>8, <1>9, <1>10 DEF LineInv

\* A restore takes the head off the line; a superseded release moves up.
LEMMA RestoreLine ==
  ASSUME TypeInv, OneOfEach, LineInv, Restore
  PROVE  LineInv'
<1>1. PICK i \in SnapshotsWith("PREVIOUS_STABLE"), next \in SUBSET SnapshotsWith("SUPERSEDED") :
        /\ NextTarget(next)
        /\ snapshot' = [j \in SnapshotIds |-> [snapshot[j] EXCEPT !.status = Restored(i, next, j)]]
  BY DEF Restore
<1>2. /\ \A j \in SnapshotIds : snapshot'[j].status = Restored(i, next, j)
      /\ \A j \in SnapshotIds : snapshot'[j].at = snapshot[j].at /\ snapshot[j].at \in Nat
  BY <1>1 DEF TypeInv, TypeOK, Snapshot
<1>3. clock' = clock + 1 /\ clock \in Nat BY DEF Restore, TypeInv, TypeOK
<1>4. Used' = Used BY RestoreUses
<1>5. Used \subseteq SnapshotIds BY DEF Used
<1>6. /\ \A j \in Used' : snapshot'[j].at <= clock'
      /\ \A j, k \in Used' : snapshot'[j].at = snapshot'[k].at => j = k
  BY <1>2, <1>3, <1>4, <1>5 DEF LineInv
<1>7. i \in SnapshotIds /\ snapshot[i].status = "PREVIOUS_STABLE" BY DEF SnapshotsWith
<1>8. \A j \in next : j \in SnapshotIds /\ snapshot[j].status = "SUPERSEDED" BY DEF SnapshotsWith
<1>9. \A j \in SnapshotIds :
        /\ Restored(i, next, j) = "ACTIVE" <=> j = i
        /\ Restored(i, next, j) = "PREVIOUS_STABLE" <=> j \in next
        /\ Restored(i, next, j) = "SUPERSEDED" <=> snapshot[j].status = "SUPERSEDED" /\ j \notin next
  <2> TAKE j \in SnapshotIds
  <2>1. snapshot[j].status = "PREVIOUS_STABLE" => j = i BY <1>7 DEF OneOfEach, SnapshotsWith
  <2> QED BY <1>7, <1>8, <2>1 DEF Restored
<1>10. \A j \in SnapshotsWith("ACTIVE")', k \in SnapshotIds :
         snapshot'[k].status \in InHistory => snapshot'[k].at <= snapshot'[j].at
  <2> TAKE j \in SnapshotsWith("ACTIVE")', k \in SnapshotIds
  <2> HAVE snapshot'[k].status \in InHistory
  <2>1. j = i BY <1>2, <1>9 DEF SnapshotsWith
  <2>2. k = i \/ snapshot[k].status = "SUPERSEDED" BY <1>2, <1>8, <1>9 DEF InHistory
  <2> QED BY <1>2, <1>7, <2>1, <2>2 DEF LineInv, SnapshotsWith
<1>11. \A j \in SnapshotsWith("PREVIOUS_STABLE")', k \in SnapshotsWith("SUPERSEDED")' :
         snapshot'[k].at <= snapshot'[j].at
  <2> TAKE j \in SnapshotsWith("PREVIOUS_STABLE")', k \in SnapshotsWith("SUPERSEDED")'
  <2>1. j \in next /\ j \in SnapshotIds /\ k \in SnapshotIds /\ snapshot[k].status = "SUPERSEDED"
    BY <1>2, <1>9 DEF SnapshotsWith
  <2>2. j \in Latest(SnapshotsWith("SUPERSEDED")) BY <1>1, <2>1 DEF NextTarget
  <2>3. ~(snapshot[k].at > snapshot[j].at) BY <2>1, <2>2 DEF Latest, Newer, SnapshotsWith
  <2> QED BY <1>2, <2>1, <2>3
<1>12. SnapshotsWith("PREVIOUS_STABLE")' = {} => SnapshotsWith("SUPERSEDED")' = {}
  <2>1. SnapshotsWith("PREVIOUS_STABLE")' = {} => next = {}
    BY <1>2, <1>8, <1>9 DEF SnapshotsWith
  <2>2. next = {} => SnapshotsWith("SUPERSEDED") = {} BY <1>1 DEF NextTarget
  <2> QED BY <1>2, <1>9, <2>1, <2>2 DEF SnapshotsWith
<1> QED BY <1>6, <1>10, <1>11, <1>12 DEF LineInv

LEMMA NextLine ==
  ASSUME TypeInv, OneOfEach, TrainerInv, OnceInv, LineInv, cutShort = {}, [Next]_vars
  PROVE  LineInv'
<1>1. CASE snapshot' = snapshot
  <2>1. clock' \in Nat /\ clock \in Nat /\ clock <= clock'
    <3>1. clock' = clock \/ clock' = clock + 1
      BY DEF Next, DeployerGoesOn, OpenRead, OpenWrite, Reload, RecordFailure, CutoverRead,
         ReadinessGate, LegacyGate, Switch, SearchReload, Complete, Crash, ReloadFails, GateFails,
         SearchReloadFails, Fails, Postpone, RollbackGoesOn, RollbackRead, Mark, CheckTarget,
         Restore, Ack, RollbackFails, IndexGone, Scan, Train, RequestRollback, Receive, Reindex,
         SameRows, vars, dbVars
    <3> QED BY <3>1 DEF TypeInv, TypeOK
  <2>2. Used' = Used /\ \A i \in Used : snapshot[i].at \in Nat
    BY <1>1 DEF Used, TypeInv, TypeOK, Snapshot
  <2>3. \A i \in Used' : snapshot'[i].at <= clock' BY <1>1, <2>1, <2>2 DEF LineInv
  <2>4. \A s : SnapshotsWith(s)' = SnapshotsWith(s) BY <1>1 DEF SnapshotsWith
  <2> QED BY <1>1, <2>2, <2>3, <2>4 DEF LineInv
<1> QED BY <1>1, SnapshotsMove, SwitchLine, RestoreLine

LEMMA InitLine == Init => LineInv
<1> SUFFICES ASSUME Init PROVE LineInv OBVIOUS
<1>1. \A i \in SnapshotIds : snapshot[i].status \in {"ACTIVE", "UNUSED"} /\ snapshot[i].at = 0
                             /\ (snapshot[i].status = "ACTIVE" => i = FirstId)
  BY DEF Init, NoSnapshot
<1>2. \A i \in Used : i = FirstId /\ snapshot[i].at = 0 BY <1>1 DEF Used
<1>3. clock = 0 BY DEF Init
<1> QED BY <1>1, <1>2, <1>3 DEF LineInv, SnapshotsWith, InHistory

\* While deployments and rollbacks take turns, a model that was rolled back is not deployed
\* again, whatever crashes or fails, unless its own deployer ended between the commit of its
\* cutover and the completion of its run.
THEOREM RolledBackIsNotRedeployed ==
  ASSUME ~Overlap
  PROVE  Spec => []RolledBackStaysOut
<1> DEFINE Inv == TypeInv /\ RowsInv /\ SnapshotsInv /\ TrainerInv /\ OnceInv
<1>1. Init => Inv BY InitTypes, InitRows, InitSnapshots, InitTrainer, InitOnce
<1>2. Inv /\ [Next]_vars => Inv'
  BY NextTypes, NextRows, NextSnapshots, NextTrainer, NextOnce DEF SnapshotsInv
<1>3. Inv => RolledBackStaysOut
  <2> SUFFICES ASSUME Inv, NEW i \in SnapshotsWith("ROLLED_BACK"),
                      snapshot[i].model = release.active
               PROVE  release.active \in cutShort
    BY DEF RolledBackStaysOut
  <2>1. PICK j \in SnapshotsWith("ACTIVE") : snapshot[j].model = release.active
    BY DEF SnapshotsInv, OneOfEach, ActiveIsSnapshot
  <2>2. i \in Used /\ j \in Used /\ i # j BY DEF SnapshotsWith, Used
  <2> QED BY <2>1, <2>2 DEF OnceInv
<1> QED BY <1>1, <1>2, <1>3, PTL DEF Spec

-----------------------------------------------------------------------------
(* The model that search embeds with.                                      *)

\* While nothing has failed, nothing fails.
LEMMA FaultlessStep ==
  ASSUME TypeInv, [Next]_vars, faults' = 0
  PROVE  /\ faults = 0 /\ ~RollbackFails
         /\ \A d \in Deployers : ~ReloadFails(d) /\ ~Crash(d) /\ ~SearchReloadFails(d)
<1>1. faults \in Nat BY ReleaseAssumption DEF TypeInv, TypeOK
<1>2. faults' = faults \/ faults' = faults + 1
  BY DEF Next, DeployerGoesOn, OpenRead, OpenWrite, Reload, RecordFailure, CutoverRead,
     ReadinessGate, LegacyGate, Switch, SearchReload, Complete, Crash, ReloadFails, GateFails,
     SearchReloadFails, RollbackGoesOn, RollbackRead, Mark, CheckTarget,
     Restore, Ack, RollbackFails, IndexGone, Scan, Train, RequestRollback, Receive, Reindex,
     Fault, vars
<1>3. ~Fault BY <1>1 DEF Fault
<1> QED BY <1>1, <1>2, <1>3 DEF SearchReloadFails, Crash, RollbackFails, ReloadFails

AtSearch(a) == pc[a] = "search"

\* While nothing has failed, search lags behind the release by the cutover or restore
\* that is about to reload it, and by that one only: so its model is the active one or
\* the predecessor that every reload of the endpoint still asks for.
SearchInv ==
  /\ searchTarget \in loaded
  /\ (\A a \in Actors : ~AtSearch(a)) => searchTarget = release.active
  /\ ~AtSearch("rollback") /\ (\E d \in Deployers : ~AtSearch(d))
       => searchTarget \in {release.active, release.previous}

\* A reload of the endpoint keeps the model of the search service.
LEMMA ReloadSearch ==
  ASSUME TypeInv, RowsInv, SearchInv, NEW d \in Deployers, Reload(d)
  PROVE  SearchInv'
<1>1. /\ loaded' = ReloadTargets /\ UNCHANGED <<release, searchTarget>> /\ pc[d] = "reload"
      /\ \A a \in Actors : AtSearch(a)' <=> AtSearch(a)
  BY DEF Reload, Goto, SameRows, TypeInv, TypeOK, AtSearch, Actors, Deployers
<1>2. ~AtSearch("rollback") BY <1>1 DEF RowsInv, TurnsInv, AtSearch
<1>3. searchTarget \in {release.active, release.previous}
  BY <1>1, <1>2 DEF SearchInv, AtSearch
<1>4. searchTarget \in ReloadTargets
  BY <1>3, ReleaseAssumption DEF ReloadTargets, TypeInv, TypeOK
<1> QED BY <1>1, <1>4 DEF SearchInv, Actors, Deployers

\* A cutover leaves search with the predecessor, until the reload that follows it.
LEMMA SwitchSearch ==
  ASSUME TypeInv, RowsInv, TrainerInv, SearchInv, NEW d \in Deployers, Switch(d)
  PROVE  SearchInv'
<1>1. /\ pc[d] = "switch" /\ pc' = [pc EXCEPT ![d] = "search"]
      /\ UNCHANGED <<loaded, searchTarget>>
  BY DEF Switch, Goto, SameServing
<1>2. d = "scheduler" /\ ~AtSearch("trainer")
  BY <1>1 DEF TrainerInv, Deployers, AtSearch
<1>3. ~AtSearch("rollback") BY <1>1 DEF RowsInv, TurnsInv, AtSearch
<1>4. searchTarget = release.active
  BY <1>1, <1>2, <1>3 DEF SearchInv, AtSearch, Actors, Deployers
<1>5. copy[d].active = release.active
  <2>1. copy[d] = View(d) BY <1>1 DEF RowsInv, CandidateInv, Chosen
  <2>2. lock = d => dirty.active = release.active
    BY DEF RowsInv, LockInv, TypeInv, TypeOK, Row
  <2> QED BY <2>1, <2>2 DEF View
<1>6. release'.previous = copy[d].active BY SwitchWrites
<1>7. AtSearch(d)' BY <1>1 DEF AtSearch, TypeInv, TypeOK, Actors, Deployers
<1> QED BY <1>1, <1>4, <1>5, <1>6, <1>7, <1>2 DEF SearchInv, Actors, Deployers

\* The reload of search itself.
LEMMA ReloadedSearch ==
  ASSUME ActiveIsLoaded, NEW a \in Actors, NEW s, SearchReload(a, s)
  PROVE  SearchInv'
BY DEF SearchReload, SameRows, ActiveIsLoaded, SearchInv

\* A restore leaves search with a loaded model too.
LEMMA RestoreSearch ==
  ASSUME TypeInv, SearchInv, Restore
  PROVE  SearchInv'
<1>1. UNCHANGED <<loaded, searchTarget>> /\ AtSearch("rollback")'
  BY DEF Restore, SameServing, Goto, AtSearch, TypeInv, TypeOK, Actors
<1> QED BY <1>1 DEF SearchInv, Actors

\* No other step moves the release, the targets or a process that is about to reload them.
LEMMA QuietSearch ==
  ASSUME TypeInv, RowsInv, SearchInv, [Next]_vars, faults' = 0, ~Restore,
         \A d \in Deployers : ~Reload(d) /\ ~Switch(d) /\ ~SearchReload(d, "complete"),
         ~SearchReload("rollback", "ack")
  PROVE  SearchInv'
<1>1. ~RollbackFails /\ \A d \in Deployers : ~ReloadFails(d) /\ ~Crash(d) /\ ~SearchReloadFails(d)
  BY FaultlessStep
<1>2. release'.active = release.active /\ release'.previous = release.previous
  BY ActiveMoves
<1>3. ASSUME NEW d \in Deployers, DeployerGoesOn(d) \/ GateFails(d)
      PROVE  UNCHANGED <<loaded, searchTarget>> /\ \A a \in Actors : AtSearch(a)' <=> AtSearch(a)
  BY <1>3 DEF DeployerGoesOn, OpenRead, OpenWrite, RecordFailure, CutoverRead, ReadinessGate,
     LegacyGate, Complete, GateFails, Fails, Postpone, Stay, Goto, SameServing, AtSearch,
     TypeInv, TypeOK, Actors, Deployers
<1>4. ASSUME RollbackRead \/ Mark \/ CheckTarget \/ Ack \/ IndexGone
      PROVE  UNCHANGED <<loaded, searchTarget>> /\ \A a \in Actors : AtSearch(a)' <=> AtSearch(a)
  BY <1>4 DEF RollbackRead, Mark, CheckTarget, Ack, IndexGone, Stay, Goto, SameServing, AtSearch,
     TypeInv, TypeOK, Actors
<1>5. ASSUME Scan \/ Train \/ RequestRollback \/ Receive \/ Reindex \/ UNCHANGED vars
      PROVE  UNCHANGED <<loaded, searchTarget>> /\ \A a \in Actors : AtSearch(a)' <=> AtSearch(a)
  BY <1>5 DEF Scan, Train, RequestRollback, Receive, Reindex, MayStart, Goto, SameServing,
     AtSearch, vars, localVars, TypeInv, TypeOK, Actors, Deployers
<1>6. UNCHANGED <<loaded, searchTarget>> /\ \A a \in Actors : AtSearch(a)' <=> AtSearch(a)
  BY <1>1, <1>3, <1>4, <1>5 DEF Next, RollbackGoesOn
<1> QED BY <1>2, <1>6 DEF SearchInv, Actors, Deployers

LEMMA InitSearch == Init => SearchInv
BY DEF Init, SearchInv, FirstRow, AtSearch, Actors, Deployers

LEMMA NextSearch ==
  TypeInv /\ RowsInv /\ TrainerInv /\ ActiveIsLoaded /\ SearchInv /\ [Next]_vars /\ faults' = 0
  => SearchInv'
BY ReloadSearch, SwitchSearch, ReloadedSearch, RestoreSearch, QuietSearch DEF Actors

\* While nothing has failed and deployments and rollbacks take turns, the endpoint can
\* embed the queries of the search service, in every window of a cutover or a restore.
THEOREM SearchModelIsLoaded ==
  ASSUME ~Overlap
  PROVE  Spec => []SearchCanEmbed
<1> DEFINE Inv == /\ TypeInv /\ RowsInv /\ SnapshotsInv /\ LoadedInv /\ TrainerInv
                  /\ faults = 0 => SearchInv
<1>1. Init => Inv BY InitTypes, InitRows, InitSnapshots, InitLoaded, InitTrainer, InitSearch
<1>2. Inv /\ [Next]_vars => Inv'
  BY NextTypes, NextRows, NextSnapshots, NextLoaded, NextTrainer, NextSearch, FaultlessStep
  DEF SnapshotsInv, LoadedInv
<1>3. Inv => SearchCanEmbed BY DEF SearchCanEmbed, SearchInv
<1> QED BY <1>1, <1>2, <1>3, PTL DEF Spec

-----------------------------------------------------------------------------
(* Deployments and rollbacks implement a history of releases.              *)

Entry(i) == [model |-> snapshot[i].model, at |-> snapshot[i].at]
InLine == {i \in SnapshotIds : snapshot[i].status \in InHistory}
Line == {Entry(i) : i \in InLine}

\* The entry that is later than all others is the newest.
LEMMA NewestIs ==
  ASSUME NEW h, NEW e \in h, \A f \in h : f.at \in Nat /\ (f # e => f.at < e.at)
  PROVE  History!Newest(h) = e
<1> DEFINE x == CHOOSE y \in h : \A f \in h : f.at <= y.at
<1>1. \A f \in h : f.at <= e.at OBVIOUS
<1>2. x \in h /\ \A f \in h : f.at <= x.at BY <1>1
<1> HIDE DEF x
<1>3. x = e BY <1>2
<1> QED BY <1>3 DEF x, History!Newest

\* The newest release of the line is the active one.
ActiveIsHead ==
  \A i \in SnapshotsWith("ACTIVE") :
    /\ i \in InLine /\ Entry(i).model = release.active /\ History!Newest(Line) = Entry(i)

LEMMA LineHead == TypeInv /\ OneOfEach /\ ActiveIsSnapshot /\ LineInv => ActiveIsHead
<1> SUFFICES ASSUME TypeInv, OneOfEach, ActiveIsSnapshot, LineInv, NEW i \in SnapshotsWith("ACTIVE")
             PROVE  /\ i \in InLine /\ Entry(i).model = release.active
                    /\ History!Newest(Line) = Entry(i)
  BY DEF ActiveIsHead
<1>1. i \in InLine /\ i \in SnapshotIds BY DEF SnapshotsWith, InLine, InHistory
<1>2. Entry(i).model = release.active BY DEF Entry, ActiveIsSnapshot
<1>3. ASSUME NEW j \in InLine
      PROVE  Entry(j).at \in Nat /\ (Entry(j) # Entry(i) => Entry(j).at < Entry(i).at)
  <2>1. /\ j \in SnapshotIds /\ j \in Used /\ i \in Used
        /\ snapshot[j].at \in Nat /\ snapshot[i].at \in Nat
    BY <1>1 DEF InLine, InHistory, Used, TypeInv, TypeOK, Snapshot
  <2>2. snapshot[j].at <= snapshot[i].at BY DEF LineInv, InLine
  <2>3. snapshot[j].at = snapshot[i].at => j = i BY <2>1 DEF LineInv
  <2> QED BY <2>1, <2>2, <2>3 DEF Entry
<1>4. Entry(i) \in Line BY <1>1 DEF Line
<1>5. \A f \in Line : f.at \in Nat /\ (f # Entry(i) => f.at < Entry(i).at)
  BY <1>3 DEF Line
<1>6. History!Newest(Line) = Entry(i) BY <1>4, <1>5, NewestIs
<1> QED BY <1>1, <1>2, <1>6

\* A cutover adds its release to the history.
LEMMA SwitchReleases ==
  ASSUME TypeInv, RowsInv, OneOfEach, TrainerInv, OnceInv, LineInv, cutShort = {},
         NEW d \in Deployers, Switch(d)
  PROVE  History!Next
<1>0. PICK n : n = NewId OBVIOUS
<1>1. /\ n \in SnapshotIds \ Used /\ Used' = Used \union {n}
      /\ snapshot'[n].status = "ACTIVE" /\ snapshot'[n].model = job[d]
      /\ snapshot'[n].at = clock + 1
  BY <1>0, SwitchUses, SwitchIsFirst
<1>2. \A i \in Used : /\ snapshot'[i].model = snapshot[i].model
                      /\ snapshot'[i].at = snapshot[i].at
                      /\ snapshot'[i].status = Aged(snapshot[i].status)
  BY SwitchUses
<1>3. \A i \in Used : snapshot'[i].status \in InHistory <=> snapshot[i].status \in InHistory
  BY <1>2 DEF Aged, InHistory
<1>4. InLine' = InLine \union {n} /\ InLine \subseteq Used
  <2>1. \A i \in SnapshotIds : snapshot[i].status \in InHistory => i \in Used
    BY DEF Used, InHistory
  <2>2. \A i \in SnapshotIds : snapshot'[i].status \in InHistory => i \in Used \union {n}
    BY <1>1 DEF Used, InHistory
  <2>3. InLine \subseteq Used BY <2>1 DEF InLine
  <2>4. \A i \in InLine' : i \in InLine \union {n} BY <1>1, <1>3, <2>2 DEF InLine
  <2>5. \A i \in InLine : i \in InLine' BY <1>3, <2>1 DEF InLine
  <2>6. n \in InLine' BY <1>1 DEF InLine, InHistory
  <2> QED BY <2>3, <2>4, <2>5, <2>6
<1> DEFINE new == [model |-> job[d], at |-> clock + 1]
<1>5. \A i \in InLine : Entry(i)' = Entry(i) BY <1>2, <1>4 DEF Entry
<1>6. Entry(n)' = new BY <1>1 DEF Entry
<1> HIDE DEF new
<1>7. Line' = Line \union {new}
  <2>1. Line' = {Entry(i)' : i \in InLine'} BY DEF Line
  <2>2. \A f : f \in Line' <=> (\E i \in InLine : f = Entry(i)') \/ f = new BY <1>4, <1>6, <2>1
  <2>3. \A f : f \in Line <=> \E i \in InLine : f = Entry(i) BY DEF Line
  <2> HIDE DEF Line
  <2>4. \A f : (\E i \in InLine : f = Entry(i)') <=> (\E i \in InLine : f = Entry(i)) BY <1>5
  <2> QED BY <2>2, <2>3, <2>4
<1>8. \A f \in Line : f.at < new.at
  <2>1. \A i \in InLine : Entry(i).at <= clock BY <1>4 DEF Entry, LineInv
  <2>2. \A i \in InLine : Entry(i).at \in Nat
    BY DEF Entry, InLine, TypeInv, TypeOK, Snapshot
  <2>3. new.at = clock + 1 /\ clock \in Nat BY DEF new, TypeInv, TypeOK
  <2>4. \A i \in InLine : Entry(i).at < new.at BY <2>1, <2>2, <2>3
  <2> QED BY <2>4 DEF Line
<1>9. new \in Line' \ Line
  <2>1. new.at = clock + 1 /\ clock \in Nat BY DEF new, TypeInv, TypeOK
  <2>2. new \notin Line BY <1>8, <2>1
  <2> QED BY <1>7, <2>2
<1>10. release'.active = new.model BY SwitchWrites DEF new
<1>11. \E e \in Line' \ Line :
         /\ Line' = Line \union {e} /\ (\A f \in Line : f.at < e.at) /\ release'.active = e.model
  BY <1>7, <1>8, <1>9, <1>10
<1> QED BY <1>11 DEF History!Next, History!Release, Line, Entry, InLine

\* A restore takes the newest release out of the history.
LEMMA RestoreRollsBack ==
  ASSUME TypeInv, RowsInv, OneOfEach, ActiveIsSnapshot, LineInv, OneOfEach', ActiveIsSnapshot',
         TypeInv', LineInv', Restore
  PROVE  History!Next
<1>1. PICK a \in SnapshotIds : SnapshotsWith("ACTIVE") = {a} BY DEF OneOfEach
<1>2. PICK i \in SnapshotsWith("PREVIOUS_STABLE"), next \in SUBSET SnapshotsWith("SUPERSEDED") :
        snapshot' = [j \in SnapshotIds |-> [snapshot[j] EXCEPT !.status = Restored(i, next, j)]]
  BY DEF Restore
<1>3. \A j \in SnapshotIds : /\ snapshot'[j].status = Restored(i, next, j)
                             /\ snapshot'[j].model = snapshot[j].model
                             /\ snapshot'[j].at = snapshot[j].at
  BY <1>2 DEF TypeInv, TypeOK, Snapshot
<1>4. /\ a \in InLine /\ Entry(a).model = release.active /\ History!Newest(Line) = Entry(a)
  BY <1>1, LineHead DEF ActiveIsHead
<1>5. i \in InLine /\ i # a BY <1>1 DEF SnapshotsWith, InLine, InHistory
<1>6. \A j \in InLine : Entry(j)' = Entry(j) BY <1>3 DEF Entry, InLine
<1>7. InLine' = InLine \ {a}
  <2>1. \A j \in SnapshotIds : snapshot[j].status = "ACTIVE" <=> j = a
    BY <1>1 DEF SnapshotsWith
  <2>2. \A j \in next : snapshot[j].status = "SUPERSEDED" BY DEF SnapshotsWith
  <2>3. snapshot[i].status = "PREVIOUS_STABLE" BY DEF SnapshotsWith
  <2>4. \A j \in SnapshotIds : Restored(i, next, j) \in InHistory <=>
                               snapshot[j].status \in InHistory /\ j # a
    BY <2>1, <2>2, <2>3 DEF Restored, InHistory
  <2> QED BY <1>3, <2>4 DEF InLine
<1>8. \A j, k \in InLine : Entry(j) = Entry(k) => j = k
  <2>1. \A j \in InLine : j \in Used BY DEF InLine, InHistory, Used
  <2>2. \A j, k \in InLine : Entry(j) = Entry(k) => snapshot[j].at = snapshot[k].at BY DEF Entry
  <2> QED BY <2>1, <2>2 DEF LineInv
<1>9. Line' = Line \ {Entry(a)}
  <2>1. Line' = {Entry(j)' : j \in InLine'} BY DEF Line
  <2>2. \A f : f \in Line' <=> \E j \in InLine : j # a /\ f = Entry(j) BY <1>6, <1>7, <2>1
  <2>3. \A f : f \in Line <=> \E j \in InLine : f = Entry(j) BY DEF Line
  <2> HIDE DEF Line, Entry
  <2>4. \A f : (\E j \in InLine : j # a /\ f = Entry(j)) <=>
               (\E j \in InLine : f = Entry(j)) /\ f # Entry(a)
    BY <1>4, <1>8
  <2> QED BY <2>2, <2>3, <2>4
<1>10. Line # {Entry(a)} BY <1>4, <1>5, <1>8 DEF Line
<1>11. release'.active = History!Newest(Line').model
  <2>1. ActiveIsHead' BY LineHead, PTL
  <2>2. PICK j : j \in SnapshotsWith("ACTIVE")' BY DEF OneOfEach
  <2> QED BY <2>1, <2>2 DEF ActiveIsHead
<1> QED
  BY <1>4, <1>9, <1>10, <1>11 DEF History!Next, History!Rollback, Line, Entry, InLine

\* The seeded release is the whole history at first.
LEMMA InitHistory == Init => History!Init
<1> SUFFICES ASSUME Init PROVE History!Init OBVIOUS
<1>1. TypeInv /\ OneOfEach /\ ActiveIsSnapshot /\ LineInv
  BY InitTypes, InitOneOfEach, InitSnapshots, InitLine DEF SnapshotsInv
<1>2. PICK i \in SnapshotsWith("ACTIVE") : SnapshotsWith("ACTIVE") = {i} BY <1>1 DEF OneOfEach
<1>3. i \in InLine /\ Entry(i).model = release.active /\ History!Newest(Line) = Entry(i)
  BY <1>1, LineHead DEF ActiveIsHead
<1>4. InLine = {i}
  <2>1. \A j \in InLine : snapshot[j].status = "ACTIVE"
    BY DEF Init, InLine, InHistory, NoSnapshot
  <2> QED BY <1>2, <1>3, <2>1 DEF InLine, SnapshotsWith
<1>5. Line = {Entry(i)} BY <1>4 DEF Line
<1> QED BY <1>3, <1>5 DEF History!Init, Line, Entry, InLine

\* Only a cutover and a restore are steps of the history.
LEMMA QuietHistory ==
  ASSUME TypeInv, RowsInv, [Next]_vars, ~Restore, \A d \in Deployers : ~Switch(d)
  PROVE  Line' = Line /\ release'.active = release.active
<1>1. snapshot' = snapshot /\ release'.active = release.active BY SnapshotsMove, ActiveMoves
<1> QED BY <1>1 DEF Line, Entry, InLine

HistoryInv == TypeInv /\ RowsInv /\ SnapshotsInv /\ TrainerInv /\ OnceInv /\ LineInv

\* While deployments and rollbacks take turns and no deployer was cut short between a commit
\* and the completion of the run, the rows implement the history of releases: the active model
\* is the newest release that was not rolled back, and a rollback returns to the one before
\* it, however many follow each other.
THEOREM RowsKeepHistory ==
  ASSUME ~Overlap
  PROVE  Spec /\ [](cutShort = {}) => KeepsHistory
<1>1. Init => HistoryInv /\ History!Init
  BY InitTypes, InitRows, InitSnapshots, InitTrainer, InitOnce, InitLine, InitHistory DEF HistoryInv
<1>2. HistoryInv /\ [Next]_vars /\ cutShort = {}
      => HistoryInv' /\ [History!Next]_<<Line, release.active>>
  <2> SUFFICES ASSUME HistoryInv, [Next]_vars, cutShort = {}
               PROVE  HistoryInv' /\ [History!Next]_<<Line, release.active>>
    OBVIOUS
  <2>1. HistoryInv'
    BY NextTypes, NextRows, NextSnapshots, NextTrainer, NextOnce, NextLine
    DEF HistoryInv, SnapshotsInv
  <2>2. [History!Next]_<<Line, release.active>>
    BY <2>1, SwitchReleases, RestoreRollsBack, QuietHistory DEF HistoryInv, SnapshotsInv
  <2> QED BY <2>1, <2>2
<1>3. [History!Next]_<<Line, release.active>> <=> [History!Next]_History!vars
  BY DEF Line, Entry, InLine, History!vars
<1> QED BY <1>1, <1>2, <1>3, PTL DEF Spec, KeepsHistory, History!Spec
=============================================================================
