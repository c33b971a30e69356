----------------------------- MODULE ModelRelease -----------------------------
(***************************************************************************)
(* The serving model: how the feedback-loop pipeline deploys a candidate   *)
(* (release/candidate_deployment.py, release/transition.py) and rolls one  *)
(* back (release/rollback.py), over the singleton model_release row, the   *)
(* model_snapshot rows and the ml_pipeline_run rows (infra/db).            *)
(*                                                                         *)
(* Three processes write: the scheduler, which retries the deployment of   *)
(* READY_FOR_RELEASE runs, the train-release worker, which attempts it     *)
(* once at the end of a run, and the rollback worker.  Each keeps a        *)
(* database session open over several HTTP calls: it holds the lock of     *)
(* the row it has flushed, others see its writes only when it commits, and *)
(* a flush writes the attributes that differ from the copy it had read.    *)
(* A model version stands for its index too.                               *)
(***************************************************************************)
EXTENDS Naturals, FiniteSets

CONSTANTS
  Models,       \* model versions
  Base,         \* the one the migration seeds as active
  SnapshotIds,  \* model_snapshot rows (bound)
  Requests,     \* ROLLBACK_REQUEST messages ever sent (bound)
  MaxAttempts,  \* CANDIDATE_DEPLOYMENT_MAX_ATTEMPTS
  MaxFaults,    \* crashes and failed calls (bound)
  Overlap,      \* may a deployment and a rollback be in progress together?
  NoModel, NoActor, NoRequest

ASSUME ReleaseAssumption ==
  /\ Base \in Models /\ NoModel \notin Models
  /\ MaxAttempts \in Nat \ {0} /\ MaxFaults \in Nat
  /\ Overlap \in BOOLEAN
  /\ NoActor \notin {"scheduler", "trainer", "rollback"}
  /\ NoRequest \notin Requests
  /\ SnapshotIds # {}

VARIABLES
  release,      \* the committed model_release row
  dirty, lock,  \* its uncommitted version, and who holds the row's lock
  snapshot,     \* model_snapshot rows
  run,          \* per model, the ml_pipeline_run that trained it
  reindexed,    \* models whose index holds the vectors of all legacy videos
  loaded,       \* ready_model_versions of the embedding endpoint
  searchTarget, \* the model the search service has loaded its targets for
  request,      \* ROLLBACK_REQUEST messages
  clock,        \* the last timestamp given out
  pc, copy,     \* per process: next step, the row as its session read it
  job,          \* the model a deployer deploys
  handling, target,  \* the rollback worker's message and its target
  faults,
  cutShort      \* history: models whose deployer ended after the commit of its
                \* cutover and before the completion of its run

dbVars == <<release, dirty, lock, snapshot, run, clock>>
localVars == <<pc, copy, job, handling, target>>
vars == <<dbVars, reindexed, loaded, searchTarget, request, localVars, faults, cutShort>>

Deployers == {"scheduler", "trainer"}
Actors == Deployers \union {"rollback"}
OrNone == Models \union {NoModel}
Row == [status : {"STABLE", "CANDIDATE_REINDEXING", "ROLLBACK_PREPARING"},
        active : Models, previous : OrNone, candidate : OrNone, switched : Nat]
Snapshot == [status : {"UNUSED", "ACTIVE", "PREVIOUS_STABLE", "SUPERSEDED", "ROLLED_BACK"},
             model : OrNone, at : Nat]
\* A cutover time of 0 is null; NOT_READY is every status before READY_FOR_RELEASE.
Run == [status : {"NOT_READY", "READY_FOR_RELEASE", "DEPLOYMENT_BLOCKED", "DEPLOY_COMPLETED"},
        attempts : Nat, cutover : Nat]
Request == [state : {"unsent", "queued", "archived"}, model : OrNone, switched : Nat]
DeployerSteps == {"idle", "open", "openWrite", "reload", "record", "cutover", "gate",
                  "legacy", "switch", "search", "complete"}
RollbackSteps == {"idle", "read", "mark", "check", "restore", "search", "ack"}

TypeOK ==
  /\ release \in Row /\ dirty \in Row /\ lock \in Actors \union {NoActor}
  /\ snapshot \in [SnapshotIds -> Snapshot]
  /\ run \in [Models -> Run]
  /\ reindexed \subseteq Models /\ loaded \subseteq Models /\ searchTarget \in Models
  /\ request \in [Requests -> Request]
  /\ clock \in Nat
  /\ pc \in [Actors -> DeployerSteps \union RollbackSteps]
  /\ \A d \in Deployers : pc[d] \in DeployerSteps
  /\ pc["rollback"] \in RollbackSteps
  /\ copy \in [Actors -> Row]
  /\ job \in [Deployers -> OrNone]
  /\ \A d \in Deployers : pc[d] # "idle" => job[d] \in Models
  /\ handling \in Requests \union {NoRequest} /\ target \in OrNone
  /\ pc["rollback"] # "idle" => handling \in Requests
  /\ faults \in 0..MaxFaults /\ cutShort \subseteq Models

FirstRow == [status |-> "STABLE", active |-> Base, previous |-> NoModel,
             candidate |-> NoModel, switched |-> 0]
FirstId == CHOOSE i \in SnapshotIds : TRUE
NoSnapshot == [status |-> "UNUSED", model |-> NoModel, at |-> 0]

Init ==
  /\ release = FirstRow /\ dirty = FirstRow /\ lock = NoActor
  /\ snapshot = [i \in SnapshotIds |-> IF i = FirstId
                    THEN [status |-> "ACTIVE", model |-> Base, at |-> 0] ELSE NoSnapshot]
  /\ run = [m \in Models |-> [status |-> "NOT_READY", attempts |-> 0, cutover |-> 0]]
  /\ reindexed = {} /\ loaded = {Base} /\ searchTarget = Base
  /\ request = [r \in Requests |-> [state |-> "unsent", model |-> NoModel, switched |-> 0]]
  /\ clock = 0
  /\ pc = [a \in Actors |-> "idle"]
  /\ copy = [a \in Actors |-> FirstRow]
  /\ job = [d \in Deployers |-> NoModel]
  /\ handling = NoRequest /\ target = NoModel
  /\ faults = 0 /\ cutShort = {}

-----------------------------------------------------------------------------
(* Sessions.                                                               *)

Goto(a, step) == pc' = [pc EXCEPT ![a] = step]
\* Without Overlap a rollback and a deployment wait for each other; the
\* scheduler and the trainer never do.
MayStart(a) ==
  /\ pc[a] = "idle"
  /\ \/ Overlap
     \/ IF a = "rollback" THEN \A d \in Deployers : pc[d] = "idle" ELSE pc["rollback"] = "idle"
CanLock(a) == lock \in {NoActor, a}

\* What the session of a sees: its own uncommitted row, or the committed one.
View(a) == IF lock = a THEN dirty ELSE release

\* UPDATE ... SET of the attributes that differ from what the session had read.
Changed(old, read, new) == IF new # read THEN new ELSE old
Updated(row, read, new) ==
  [status    |-> Changed(row.status, read.status, new.status),
   active    |-> Changed(row.active, read.active, new.active),
   previous  |-> Changed(row.previous, read.previous, new.previous),
   candidate |-> Changed(row.candidate, read.candidate, new.candidate),
   switched  |-> Changed(row.switched, read.switched, new.switched)]

Commit(a) ==
  /\ release' = View(a)
  /\ lock' = IF lock = a THEN NoActor ELSE lock
  /\ UNCHANGED dirty
RollBack(a) ==
  /\ lock' = IF lock = a THEN NoActor ELSE lock
  /\ UNCHANGED <<release, dirty>>
Write(a, new) ==
  /\ CanLock(a)
  /\ release' = Updated(View(a), copy[a], new)
  /\ lock' = NoActor /\ UNCHANGED dirty

Stay(a) == Goto(a, "idle") /\ UNCHANGED <<copy, job, handling, target>>
Fault == faults < MaxFaults /\ faults' = faults + 1
SameServing == UNCHANGED <<reindexed, loaded, searchTarget>>
SameRows == UNCHANGED <<release, dirty, lock, snapshot, run, clock>>

SnapshotsWith(s) == {i \in SnapshotIds : snapshot[i].status = s}
Targets == {snapshot[i].model : i \in SnapshotsWith("PREVIOUS_STABLE")}

-----------------------------------------------------------------------------
(* CandidateDeploymentService.attempt, from the scheduler or at the end of *)
(* a training run.                                                         *)

\* get_candidate_deployment_run; it takes the run updated longest ago, any here.
Eligible(m) ==
  /\ run[m].status = "READY_FOR_RELEASE"
  /\ \/ release.status = "CANDIDATE_REINDEXING" /\ m = release.candidate
     \/ release.status = "STABLE" /\ m # release.active

Scan ==
  /\ MayStart("scheduler")
  /\ \E m \in Models : Eligible(m) /\ job' = [job EXCEPT !["scheduler"] = m]
  /\ Goto("scheduler", "open")
  /\ UNCHANGED <<copy, handling, target, request, faults, cutShort>>
  /\ SameRows /\ SameServing

\* A run passes its evaluation; READY_FOR_RELEASE is not committed yet.
Train ==
  /\ MayStart("trainer")
  /\ \E m \in Models \ {Base} :
       /\ run[m].status = "NOT_READY"
       /\ job' = [job EXCEPT !["trainer"] = m]
  /\ Goto("trainer", "open")
  /\ UNCHANGED <<copy, handling, target, request, faults, cutShort>>
  /\ SameRows /\ SameServing

\* The run as its own session sees it.
OwnRun(d) == [run[job[d]] EXCEPT !.status =
                IF @ = "NOT_READY" THEN "READY_FOR_RELEASE" ELSE @]
CommitRun(d, r) == run' = [run EXCEPT ![job[d]] = r]

\* An exception: the scheduler's session is rolled back and its process ends;
\* the trainer logs it and commits what was flushed.
Fails(d) ==
  /\ Stay(d)
  /\ IF d = "trainer" THEN Commit(d) /\ CommitRun(d, OwnRun(d))
                      ELSE RollBack(d) /\ UNCHANGED run
  /\ UNCHANGED <<snapshot, clock, request>>

OpenRead(d) ==
  /\ pc[d] = "open"
  /\ CASE release.status = "CANDIDATE_REINDEXING" /\ release.candidate = job[d] ->
            Goto(d, "reload") /\ UNCHANGED <<copy, job, handling, target, request>> /\ SameRows
       [] release.status = "STABLE" ->
            Goto(d, "openWrite") /\ UNCHANGED <<copy, job, handling, target, request>> /\ SameRows
       [] OTHER -> Fails(d)
  /\ UNCHANGED <<faults, cutShort>> /\ SameServing

\* try_open_candidate_release: UPDATE ... WHERE release_status = 'STABLE'.
OpenWrite(d) ==
  /\ pc[d] = "openWrite" /\ CanLock(d)
  /\ IF release.status = "STABLE"
       THEN /\ dirty' = [release EXCEPT !.status = "CANDIDATE_REINDEXING", !.candidate = job[d]]
            /\ lock' = d /\ Goto(d, "reload")
            /\ UNCHANGED <<release, snapshot, run, clock, copy, job, handling, target, request>>
       ELSE Fails(d)
  /\ UNCHANGED <<faults, cutShort>> /\ SameServing

\* The endpoint's reload reads the committed row: a candidate that its own
\* session has not committed yet is no target.
ReloadTargets == {release.active, release.previous, release.candidate} \ {NoModel}

Reload(d) ==
  /\ pc[d] = "reload"
  /\ loaded' = ReloadTargets
  /\ Goto(d, IF job[d] \in ReloadTargets THEN "cutover" ELSE "record")
  /\ UNCHANGED <<copy, job, handling, target, request, faults, cutShort, reindexed, searchTarget>>
  /\ SameRows

\* The call fails, before or after the endpoint did it, or the candidate does
\* not load; the active model must load or nothing changes.
ReloadFails(d) ==
  /\ pc[d] = "reload" /\ Fault
  /\ loaded' \in {loaded, ReloadTargets, ReloadTargets \ {job[d]}}
  /\ release.active \in loaded' \/ loaded' = loaded
  /\ Goto(d, "record")
  /\ UNCHANGED <<copy, job, handling, target, request, reindexed, searchTarget, cutShort>>
  /\ SameRows

\* Mutation: a deployment is blocked one attempt too early.
RecordFailureEarly(d) ==
  /\ pc[d] = "record"
  /\ LET n == run[job[d]].attempts + 1
     IN CommitRun(d, [OwnRun(d) EXCEPT !.attempts = n,
                        !.status = IF n + 1 >= MaxAttempts THEN "DEPLOYMENT_BLOCKED" ELSE @])
  /\ Commit(d) /\ Stay(d)
  /\ UNCHANGED <<snapshot, clock, request, faults, cutShort>> /\ SameServing

\* _record_readiness_failure, and the commit that also commits the open.
RecordFailure(d) ==
  /\ pc[d] = "record"
  /\ LET n == run[job[d]].attempts + 1
     IN CommitRun(d, [OwnRun(d) EXCEPT !.attempts = n,
                        !.status = IF n >= MaxAttempts THEN "DEPLOYMENT_BLOCKED" ELSE @])
  /\ Commit(d) /\ Stay(d)
  /\ UNCHANGED <<snapshot, clock, request, faults, cutShort>> /\ SameServing

\* _load_cutover_run_and_release.
CutoverRead(d) ==
  /\ pc[d] = "cutover"
  /\ IF View(d).status = "CANDIDATE_REINDEXING" /\ View(d).candidate = job[d]
       THEN /\ copy' = [copy EXCEPT ![d] = View(d)] /\ Goto(d, "gate")
            /\ UNCHANGED <<job, handling, target, request>> /\ SameRows
       ELSE Fails(d)
  /\ UNCHANGED <<faults, cutShort>> /\ SameServing

\* The cutover is not allowed yet; the session commits what it has.
Postpone(d) ==
  /\ Stay(d) /\ Commit(d) /\ CommitRun(d, OwnRun(d))
  /\ UNCHANGED <<snapshot, clock, request>>

ReadinessGate(d) ==
  /\ pc[d] = "gate"
  /\ IF job[d] \in loaded
       THEN Goto(d, "legacy") /\ UNCHANGED <<copy, job, handling, target, request>> /\ SameRows
       ELSE Postpone(d)
  /\ UNCHANGED <<faults, cutShort>> /\ SameServing

LegacyGate(d) ==
  /\ pc[d] = "legacy"
  /\ IF job[d] \in reindexed
       THEN Goto(d, "switch") /\ UNCHANGED <<copy, job, handling, target, request>> /\ SameRows
       ELSE Postpone(d)
  /\ UNCHANGED <<faults, cutShort>> /\ SameServing

\* A health check or a query fails.
GateFails(d) ==
  /\ pc[d] \in {"gate", "legacy"} /\ Fault
  /\ Fails(d) /\ UNCHANGED cutShort /\ SameServing

\* record_cutover: the snapshots move one place.
Aged(s) == CASE s = "PREVIOUS_STABLE" -> "SUPERSEDED"
             [] s = "ACTIVE"          -> "PREVIOUS_STABLE"
             [] OTHER                 -> s
NewId == CHOOSE i \in SnapshotIds : snapshot[i].status = "UNUSED"
RecordCutover(m, t) ==
  /\ SnapshotsWith("UNUSED") # {}
  /\ snapshot' = [i \in SnapshotIds |-> IF i = NewId
                    THEN [status |-> "ACTIVE", model |-> m, at |-> t]
                    ELSE [snapshot[i] EXCEPT !.status = Aged(@)]]

\* A retry uses the cutover time an earlier attempt recorded.
CutoverTime(d) == IF run[job[d]].cutover # 0 THEN run[job[d]].cutover ELSE clock + 1

\* _complete_candidate_cutover up to its commit.
Switch(d) ==
  /\ pc[d] = "switch"
  /\ LET t == CutoverTime(d) IN
     /\ Write(d, [status |-> "STABLE", active |-> copy[d].candidate,
                  previous |-> copy[d].active, candidate |-> NoModel, switched |-> t])
     /\ RecordCutover(copy[d].candidate, t)
     /\ CommitRun(d, [OwnRun(d) EXCEPT !.cutover = t])
  /\ clock' = clock + 1
  /\ Goto(d, "search")
  /\ UNCHANGED <<copy, job, handling, target, request, faults, cutShort>> /\ SameServing

\* Mutation: the search service keeps the targets it has.
SearchReloadNothing(a, step) ==
  /\ pc[a] = "search"
  /\ Goto(a, step)
  /\ UNCHANGED <<copy, job, handling, target, request, faults, cutShort>>
  /\ SameRows /\ SameServing

\* The search service reads the committed row.
SearchReload(a, step) ==
  /\ pc[a] = "search"
  /\ searchTarget' = release.active
  /\ Goto(a, step)
  /\ UNCHANGED <<copy, job, handling, target, request, faults, cutShort, reindexed, loaded>>
  /\ SameRows

\* The run stays READY_FOR_RELEASE although it serves.
SearchReloadFails(d) ==
  /\ pc[d] = "search" /\ Fault
  /\ cutShort' = cutShort \union {job[d]}
  /\ Fails(d) /\ SameServing

\* Mutation: the run is not completed.
CompleteNothing(d) ==
  /\ pc[d] = "complete"
  /\ CommitRun(d, [OwnRun(d) EXCEPT !.attempts = 0])
  /\ Commit(d) /\ Stay(d)
  /\ UNCHANGED <<snapshot, clock, request, faults, cutShort>> /\ SameServing

Complete(d) ==
  /\ pc[d] = "complete"
  /\ CommitRun(d, [OwnRun(d) EXCEPT !.status = "DEPLOY_COMPLETED", !.attempts = 0])
  /\ Commit(d) /\ Stay(d)
  /\ UNCHANGED <<snapshot, clock, request, faults, cutShort>> /\ SameServing

-----------------------------------------------------------------------------
(* Rollback: core-api checks and sends, the rollback worker does it.       *)

\* AdminService.trigger_rollback.
RequestRollback ==
  /\ release.status = "STABLE" /\ release.switched # 0 /\ Targets # {}
  /\ \E r \in Requests :
       /\ request[r].state = "unsent"
       /\ request' = [request EXCEPT ![r] = [state |-> "queued", model |-> release.active,
                                             switched |-> release.switched]]
  /\ UNCHANGED <<localVars, faults, cutShort>> /\ SameRows /\ SameServing

\* The message stays in the queue until it is archived.
Receive ==
  /\ MayStart("rollback")
  /\ \E r \in Requests : request[r].state = "queued" /\ handling' = r
  /\ Goto("rollback", "read")
  /\ UNCHANGED <<copy, job, target, request, faults, cutShort>> /\ SameRows /\ SameServing

Expected == /\ release.active = request[handling].model
            /\ release.switched = request[handling].switched

\* handle_request: the decision, on rows read without a lock.
RollbackRead ==
  /\ pc["rollback"] = "read"
  /\ copy' = [copy EXCEPT !["rollback"] = release]
  /\ \/ Targets = {} /\ Goto("rollback", "ack") /\ UNCHANGED target
     \/ /\ target' \in Targets
        /\ CASE release.status = "ROLLBACK_PREPARING" -> Goto("rollback", "check")
             [] release.status = "STABLE" /\ release.active # target' /\ Expected ->
                  Goto("rollback", "mark")
             [] OTHER -> Goto("rollback", "ack")
  /\ UNCHANGED <<handling, job, request, faults, cutShort>> /\ SameRows /\ SameServing

Preparing == [copy["rollback"] EXCEPT !.status = "ROLLBACK_PREPARING"]

\* mark_rollback_preparing: written by primary key, whatever the row is by now.
Mark ==
  /\ pc["rollback"] = "mark" /\ CanLock("rollback")
  /\ dirty' = Updated(release, copy["rollback"], Preparing)
  /\ copy' = [copy EXCEPT !["rollback"] = Preparing]
  /\ lock' = "rollback"
  /\ Goto("rollback", "check")
  /\ UNCHANGED <<release, snapshot, run, clock, job, handling, target, request, faults, cutShort>>
  /\ SameServing

\* Mutation: a target that is not loaded is restored all the same.
CheckNothing ==
  /\ pc["rollback"] = "check"
  /\ Goto("rollback", "restore")
  /\ UNCHANGED <<copy, job, handling, target, request, faults, cutShort>>
  /\ SameRows /\ SameServing

\* _continue_restore: a target that is not loaded leaves ROLLBACK_PREPARING.
CheckTarget ==
  /\ pc["rollback"] = "check"
  /\ IF target \in loaded
       THEN Goto("rollback", "restore") /\ SameRows
       ELSE Goto("rollback", "ack") /\ Commit("rollback") /\ UNCHANGED <<snapshot, run, clock>>
  /\ UNCHANGED <<copy, job, handling, target, request, faults, cutShort>> /\ SameServing

\* CatalogSnapshotIndexRestore finds no entry in the target's index (its videos
\* were deleted): ROLLBACK_PREPARING stays as well.
IndexGone ==
  /\ pc["rollback"] = "check" /\ target \in loaded /\ Fault
  /\ Goto("rollback", "ack") /\ Commit("rollback")
  /\ UNCHANGED <<snapshot, run, clock, copy, job, handling, target, request, cutShort>>
  /\ SameServing

\* record_rollback.
Newer(i, j) == snapshot[i].at > snapshot[j].at
Latest(S) == {i \in S : ~ \E j \in S : Newer(j, i)}

\* Mutation: the snapshot that was rolled back stays in line.
RestoredInLine(i, next, j) ==
  CASE j = i -> "ACTIVE"
    [] j # i /\ snapshot[j].status = "ACTIVE" -> "SUPERSEDED"
    [] j \in next -> "PREVIOUS_STABLE"
    [] OTHER -> snapshot[j].status
Restored(i, next, j) ==
  CASE j = i -> "ACTIVE"
    [] j # i /\ snapshot[j].status = "ACTIVE" -> "ROLLED_BACK"
    [] j \in next -> "PREVIOUS_STABLE"
    [] OTHER -> snapshot[j].status

\* The next target is the superseded snapshot captured last, if there is one.
NextTarget(next) ==
  LET S == SnapshotsWith("SUPERSEDED")
  IN IF S = {} THEN next = {} ELSE \E i \in Latest(S) : next = {i}

\* Mutation: the snapshots are left as they were.
RestoreRowOnly ==
  /\ pc["rollback"] = "restore"
  /\ \E i \in SnapshotsWith("PREVIOUS_STABLE") :
       Write("rollback", [status |-> "STABLE", active |-> snapshot[i].model,
                          previous |-> NoModel, candidate |-> NoModel,
                          switched |-> clock + 1])
  /\ clock' = clock + 1
  /\ Goto("rollback", "search")
  /\ UNCHANGED <<snapshot, run, copy, job, handling, target, request, faults, cutShort>>
  /\ SameServing

\* complete_rollback_restore up to the commit.
Restore ==
  /\ pc["rollback"] = "restore"
  /\ \E i \in SnapshotsWith("PREVIOUS_STABLE"), next \in SUBSET SnapshotsWith("SUPERSEDED") :
       /\ NextTarget(next)
       /\ Write("rollback", [status |-> "STABLE", active |-> snapshot[i].model,
                             previous |-> NoModel, candidate |-> NoModel,
                             switched |-> clock + 1])
       /\ snapshot' = [j \in SnapshotIds |->
                         [snapshot[j] EXCEPT !.status = Restored(i, next, j)]]
  /\ clock' = clock + 1
  /\ Goto("rollback", "search")
  /\ UNCHANGED <<run, copy, job, handling, target, request, faults, cutShort>>
  /\ SameServing

\* Any exception, or the death of the process: no ack, no commit.
RollbackFails ==
  /\ pc["rollback"] # "idle" /\ Fault
  /\ Stay("rollback") /\ RollBack("rollback")
  /\ UNCHANGED <<snapshot, run, clock, request, cutShort>> /\ SameServing

Ack ==
  /\ pc["rollback"] = "ack"
  /\ request' = [request EXCEPT ![handling].state = "archived"]
  /\ Stay("rollback")
  /\ UNCHANGED <<faults, cutShort>> /\ SameRows /\ SameServing

-----------------------------------------------------------------------------
(* The environment.                                                        *)

\* The process of a deployer dies.
Crash(d) ==
  /\ pc[d] # "idle" /\ Fault
  /\ cutShort' = IF pc[d] \in {"search", "complete"} THEN cutShort \union {job[d]} ELSE cutShort
  /\ Stay(d) /\ RollBack(d)
  /\ UNCHANGED <<snapshot, run, clock, request>> /\ SameServing

\* The legacy reindex of the open candidate finishes.
Reindex ==
  /\ release.candidate \in Models \ reindexed
  /\ reindexed' = reindexed \union {release.candidate}
  /\ UNCHANGED <<loaded, searchTarget, request, localVars, faults, cutShort>> /\ SameRows

-----------------------------------------------------------------------------
DeployerGoesOn(d) ==
  \/ OpenRead(d) \/ OpenWrite(d) \/ Reload(d) \/ RecordFailure(d) \/ CutoverRead(d)
  \/ ReadinessGate(d) \/ LegacyGate(d) \/ Switch(d) \/ SearchReload(d, "complete")
  \/ Complete(d)
RollbackGoesOn ==
  \/ RollbackRead \/ Mark \/ CheckTarget \/ Restore
  \/ SearchReload("rollback", "ack") \/ Ack

Next ==
  \/ Scan \/ Train \/ RequestRollback \/ Receive \/ Reindex
  \/ RollbackGoesOn \/ RollbackFails \/ IndexGone
  \/ \E d \in Deployers : \/ DeployerGoesOn(d) \/ Crash(d)
                          \/ ReloadFails(d) \/ GateFails(d) \/ SearchReloadFails(d)

Spec == Init /\ [][Next]_vars

\* The scheduler ticks and the workers poll for ever; row locks are granted in
\* turn; the legacy worker goes on.
Fairness ==
  /\ SF_vars(Scan) /\ SF_vars(Receive) /\ WF_vars(Reindex)
  /\ SF_vars(RollbackGoesOn)
  /\ \A d \in Deployers : SF_vars(DeployerGoesOn(d))

FairSpec == Spec /\ Fairness

-----------------------------------------------------------------------------
(* Safety.                                                                 *)

\* The row and the snapshots agree on the serving model: the snapshot marked
\* ACTIVE is the one of active_model_version (stores.py:182-264).
ActiveIsSnapshot ==
  \A i \in SnapshotsWith("ACTIVE") : snapshot[i].model = release.active

\* One snapshot is ACTIVE and at most one is the rollback target: every reader
\* takes the single row of its status (snapshot_registry.py:15-19).
OneOfEach ==
  /\ \E i \in SnapshotIds : SnapshotsWith("ACTIVE") = {i}
  /\ \A i, j \in SnapshotsWith("PREVIOUS_STABLE") : i = j

\* The candidate fields are set exactly while a candidate is being deployed.
CandidateWhileReindexing ==
  release.candidate # NoModel <=> release.status = "CANDIDATE_REINDEXING"

\* Row and snapshots are consistent: what core-api shows, what search and the
\* endpoint load and what a rollback would restore are one and the same release.
ReleaseIsConsistent == ActiveIsSnapshot /\ OneOfEach /\ CandidateWhileReindexing

\* The embedding endpoint always has the serving model: a cutover or restore
\* only follows a readiness check, and no reload in between unloads the model.
ActiveIsLoaded == release.active \in loaded

\* The model that search embeds its queries with is loaded too, through every
\* window between a commit and the reload of the search targets.
SearchCanEmbed == faults = 0 => searchTarget \in loaded

\* A model that was rolled back does not come back by itself, whatever else crashes or
\* fails, with one exception: a deployer ended after the commit that made it active and
\* before mark_deploy_completed (transition.py:354-359), so its run still asks for a release.
RolledBackStaysOut ==
  \A i \in SnapshotsWith("ROLLED_BACK") :
    snapshot[i].model = release.active => release.active \in cutShort

\* A rollback starts only on the release its request names
\* (Model_Release_and_Reindex_Spec.md 2.3).
RollbackIsExpected ==
  [][pc["rollback"] = "mark" /\ pc'["rollback"] = "check" =>
       release.active = request[handling].model /\ release.switched = request[handling].switched]_vars

\* Deployments and rollbacks implement a history of releases.
InHistory == {"ACTIVE", "PREVIOUS_STABLE", "SUPERSEDED"}
History == INSTANCE ReleaseHistory WITH
  history <- {[model |-> snapshot[i].model, at |-> snapshot[i].at] :
                i \in {j \in SnapshotIds : snapshot[j].status \in InHistory}},
  active <- release.active
KeepsHistory == History!Spec

(* Liveness.                                                               *)

\* An open candidate is cut over in the end.
CandidateCutsOver == release.status = "CANDIDATE_REINDEXING" ~> release.status = "STABLE"

\* Search follows the release.
SearchFollows == []<>(searchTarget = release.active)
=============================================================================
