---------------------------- MODULE VideoLifecycle ----------------------------
(***************************************************************************)
(* The life of one video: the core-api handlers that create, complete,     *)
(* retry and delete it (core-api/src/services/video_service.py), the PGMQ  *)
(* queues between the services, and the pipeline-worker tasks that process *)
(* and delete it (pipeline-worker/src/usecases, services, infra).          *)
(*                                                                         *)
(* One action is one database transaction, one object-store call or one    *)
(* queue call: whatever the code awaits between two of them can be         *)
(* overtaken by any other actor.  A handler is one HTTP request in flight, *)
(* a worker one of the WORKER_CONCURRENCY consumer loops.                  *)
(***************************************************************************)
EXTENDS Naturals, FiniteSets

CONSTANTS
  Workers,             \* consumer loops of the pipeline-worker deployments
  Handlers,            \* HTTP requests core-api can have in flight at once
  Messages,            \* queue messages ever sent (bound)
  InputTypes,          \* the input types created: LOCAL_FILE, EXTERNAL_URL
  Operations,          \* what clients call: "complete", "retry", "delete"
  Models,              \* embedding model versions
  SettingsModel,       \* EMBEDDING_MODEL_VERSION of the worker's settings
  ZombieClaims,        \* may a claim age out while its worker is alive?
  MaxFaults,           \* crashes and uncaught exceptions (bound)
  MaxPublishFailures,  \* publishes reported as failed after retries (bound)
  NoMessage

ASSUME VideoAssumption ==
  /\ NoMessage \notin Messages
  /\ SettingsModel \in Models
  /\ InputTypes \subseteq {"LOCAL_FILE", "EXTERNAL_URL"}
  /\ Operations \subseteq {"complete", "retry", "delete"}
  /\ ZombieClaims \in BOOLEAN
  /\ MaxFaults \in Nat /\ MaxPublishFailures \in Nat
  /\ IsFiniteSet(Messages) /\ IsFiniteSet(Handlers)

VARIABLES
  status,      \* video.status; ABSENT before the insert, GONE after the delete
  claim,       \* video.processing_claimed_at: null, within the cutoff, past it
  inputType,   \* video.input_type
  outputs,     \* model versions with a chunk + vector set for the video
  transcript,  \* does transcript_segment hold the video's transcript?
  assets,      \* asset rows (by the object they point to)
  blobs,       \* objects in the bucket under the video's paths
  activeModel, \* model_release.active_model_version
  queue,       \* each message: its kind and its state in PGMQ
  pc, job, local,   \* per worker: next step, message held, local variables
  hpc, op, saved,   \* per handler: next step, the request, status it read
  faults, publishFailures

rowVars == <<status, claim, inputType>>
dataVars == <<outputs, transcript, assets, blobs>>
workerVars == <<pc, job, local>>
handlerVars == <<hpc, op, saved>>
boundVars == <<faults, publishFailures>>
vars == <<rowVars, dataVars, activeModel, queue, workerVars, handlerVars, boundVars>>

Statuses == {"ABSENT", "PENDING", "UPLOADED", "PROCESSING", "READY", "FAILED",
             "DELETING", "GONE"}
Derived == {"audio", "keyframe"}
Objects == Derived \union {"source"}
RowExists == status \notin {"ABSENT", "GONE"}

\* The steps at which a worker runs PipelineOrchestrator.run.
Pipeline == {"download", "audio", "audioRow", "stt", "target", "keyframe",
             "keyframeRow", "embed", "persist", "touch", "check"}
\* ... and those that come before its claim is given up again.
Holding == Pipeline \union {"fail", "release"}
\* The steps of DeleteVideoUseCase.execute.
Deletion == {"delRead", "delFresh", "delList", "delBlobs", "delRows", "delVideo"}
WorkerSteps == Pipeline \union Deletion
               \union {"idle", "load", "claim", "recheck", "fail", "release", "ack"}
HandlerSteps == {"idle", "completeWrite", "deleteRead", "deleteWrite", "retryWrite",
                 "publish", "restore", "restoreFailure"}
Requests == {"none", "create", "complete", "retry", "delete"}

Locals == [next : Pipeline, keepReady : BOOLEAN, hasAudio : BOOLEAN,
           hasTranscript : BOOLEAN, target : Models,
           paths : SUBSET Objects]
NoLocals == [next |-> "download", keepReady |-> FALSE, hasAudio |-> FALSE,
             hasTranscript |-> FALSE, target |-> SettingsModel, paths |-> {}]

Unsent == {m \in Messages : queue[m].state = "unsent"}
Busy == {h \in Handlers : hpc[h] # "idle"}
\* A request starts only while a message is left for every request in flight.
MayStart == Cardinality(Unsent) > Cardinality(Busy)

TypeOK ==
  /\ status \in Statuses
  /\ claim \in {"none", "fresh", "stale"}
  /\ inputType \in {"LOCAL_FILE", "EXTERNAL_URL"}
  /\ outputs \subseteq Models
  /\ transcript \in BOOLEAN
  /\ assets \subseteq Derived
  /\ blobs \subseteq Objects
  /\ activeModel \in Models
  /\ queue \in [Messages -> [kind : {"none", "PREPROCESS_REQUEST", "DELETE_REQUEST"},
                             state : {"unsent", "visible", "leased", "archived"}]]
  /\ pc \in [Workers -> WorkerSteps]
  /\ job \in [Workers -> Messages \union {NoMessage}]
  /\ local \in [Workers -> Locals]
  /\ hpc \in [Handlers -> HandlerSteps]
  /\ op \in [Handlers -> Requests]
  /\ saved \in [Handlers -> Statuses]
  /\ faults \in 0..MaxFaults
  /\ publishFailures \in 0..MaxPublishFailures

Init ==
  /\ status = "ABSENT" /\ claim = "none" /\ inputType \in InputTypes
  /\ outputs = {} /\ transcript = FALSE /\ assets = {} /\ blobs = {}
  /\ activeModel = SettingsModel
  /\ queue = [m \in Messages |-> [kind |-> "none", state |-> "unsent"]]
  /\ pc = [w \in Workers |-> "idle"]
  /\ job = [w \in Workers |-> NoMessage]
  /\ local = [w \in Workers |-> NoLocals]
  /\ hpc = [h \in Handlers |-> "idle"]
  /\ op = [h \in Handlers |-> "none"]
  /\ saved = [h \in Handlers |-> "ABSENT"]
  /\ faults = 0 /\ publishFailures = 0

-----------------------------------------------------------------------------
(* core-api: one request is a few transactions and a publish.              *)

Handle(h, step) == hpc' = [hpc EXCEPT ![h] = step]
EndRequest(h) ==
  /\ Handle(h, "idle")
  /\ op' = [op EXCEPT ![h] = "none"]
  /\ saved' = [saved EXCEPT ![h] = "ABSENT"]
\* A request that read the row goes on to `step`, remembering the status it saw.
Begin(h, request, step) ==
  /\ hpc[h] = "idle" /\ MayStart
  /\ Handle(h, step)
  /\ op' = [op EXCEPT ![h] = request]
  /\ saved' = [saved EXCEPT ![h] = status]

\* An EXTERNAL_URL video is published at once; a LOCAL_FILE one gets a signed URL.
CreateVideo(h) ==
  /\ status = "ABSENT" /\ hpc[h] = "idle" /\ MayStart
  /\ status' = "PENDING"
  /\ IF inputType = "EXTERNAL_URL"
       THEN /\ Handle(h, "publish")
            /\ op' = [op EXCEPT ![h] = "create"]
            /\ UNCHANGED saved
       ELSE UNCHANGED handlerVars
  /\ UNCHANGED <<claim, inputType, dataVars, activeModel, queue, workerVars, boundVars>>

\* The client PUTs the file to its signed URL.
ClientUpload ==
  /\ inputType = "LOCAL_FILE" /\ RowExists /\ "source" \notin blobs
  /\ blobs' = blobs \union {"source"}
  /\ UNCHANGED <<rowVars, outputs, transcript, assets, activeModel, queue, workerVars,
                 handlerVars, boundVars>>

\* complete_video reads the row and, for a PENDING one, the uploaded object.
\* An oversized upload turns the request into a delete; requests that the
\* status refuses, or that find it PROCESSING or READY, change nothing.
CompleteRead(h) ==
  /\ "complete" \in Operations /\ inputType = "LOCAL_FILE"
  /\ \/ /\ status = "PENDING" /\ "source" \in blobs
        /\ \/ Begin(h, "complete", "completeWrite")
           \/ Begin(h, "delete", "deleteRead")
     \/ /\ status = "UPLOADED"
        /\ Begin(h, "complete", "publish")
  /\ UNCHANGED <<rowVars, dataVars, activeModel, queue, workerVars, boundVars>>

DeleteRead(h) ==
  /\ "delete" \in Operations /\ RowExists
  /\ Begin(h, "delete", "deleteWrite")
  /\ UNCHANGED <<rowVars, dataVars, activeModel, queue, workerVars, boundVars>>

DeleteOversized(h) ==
  /\ hpc[h] = "deleteRead" /\ RowExists
  /\ Handle(h, "deleteWrite")
  /\ saved' = [saved EXCEPT ![h] = status]
  /\ UNCHANGED <<op, rowVars, dataVars, activeModel, queue, workerVars, boundVars>>

RetryRead(h) ==
  /\ "retry" \in Operations /\ status = "FAILED"
  /\ Begin(h, "retry", "retryWrite")
  /\ UNCHANGED <<rowVars, dataVars, activeModel, queue, workerVars, boundVars>>

\* The ORM writes the row it read back by primary key alone; a row deleted in
\* between makes the flush fail and the request answer 500.
StatusToWrite(h) ==
  CASE hpc[h] = "completeWrite" -> "UPLOADED"
    [] hpc[h] = "deleteWrite"   -> "DELETING"
    [] hpc[h] = "retryWrite"    -> "PENDING"

WriteBack(h, step) ==
  /\ hpc[h] = step
  /\ IF saved[h] = StatusToWrite(h)
       THEN Handle(h, "publish") /\ UNCHANGED <<status, op, saved>>
     ELSE IF RowExists
       THEN /\ status' = StatusToWrite(h)
            /\ Handle(h, "publish")
            /\ UNCHANGED <<op, saved>>
     ELSE EndRequest(h) /\ UNCHANGED status
  /\ UNCHANGED <<claim, inputType, dataVars, activeModel, queue, workerVars, boundVars>>

CompleteWrite(h) == WriteBack(h, "completeWrite")
DeleteWrite(h) == WriteBack(h, "deleteWrite")
RetryWrite(h) == WriteBack(h, "retryWrite")

KindOf(request) == IF request = "delete" THEN "DELETE_REQUEST" ELSE "PREPROCESS_REQUEST"
Send(m, request) ==
  /\ queue[m].state = "unsent"
  /\ queue' = [queue EXCEPT ![m] = [kind |-> KindOf(request), state |-> "visible"]]

Publish(h) ==
  /\ hpc[h] = "publish"
  /\ \E m \in Messages : Send(m, op[h])
  /\ EndRequest(h)
  /\ UNCHANGED <<rowVars, dataVars, activeModel, workerVars, boundVars>>

\* An attempt stored the message but its reply was lost: the next attempt
\* sends another one.
PublishTwice(h) ==
  /\ hpc[h] = "publish" /\ MayStart
  /\ publishFailures < MaxPublishFailures
  /\ publishFailures' = publishFailures + 1
  /\ \E m \in Messages : Send(m, op[h])
  /\ UNCHANGED <<rowVars, dataVars, activeModel, workerVars, handlerVars, faults>>

\* Mutation: a delete that could not be sent is not undone.
PublishFailsSilently(h) ==
  /\ hpc[h] = "publish"
  /\ publishFailures < MaxPublishFailures
  /\ publishFailures' = publishFailures + 1
  /\ EndRequest(h)
  /\ UNCHANGED <<rowVars, dataVars, activeModel, queue, workerVars, faults>>

\* Three attempts failed; the last may have stored the message and lost only
\* the reply.  delete and retry then undo their write, create and complete do not.
PublishFails(h) ==
  /\ hpc[h] = "publish"
  /\ publishFailures < MaxPublishFailures
  /\ publishFailures' = publishFailures + 1
  /\ (\E m \in Messages : Send(m, op[h])) \/ UNCHANGED queue
  /\ CASE op[h] = "delete" -> Handle(h, "restore") /\ UNCHANGED <<op, saved>>
       [] op[h] = "retry"  -> Handle(h, "restoreFailure") /\ UNCHANGED <<op, saved>>
       [] OTHER            -> EndRequest(h)
  /\ UNCHANGED <<rowVars, dataVars, activeModel, workerVars, faults>>

\* _restore_video_statuses writes the saved status back unconditionally.
RestoreStatus(h) ==
  /\ hpc[h] = "restore"
  /\ status' = IF RowExists THEN saved[h] ELSE status
  /\ EndRequest(h)
  /\ UNCHANGED <<claim, inputType, dataVars, activeModel, queue, workerVars, boundVars>>

\* _restore_video_failure leaves a video alone that is no longer PENDING.
RestoreFailure(h) ==
  /\ hpc[h] = "restoreFailure"
  /\ status' = IF status = "PENDING" THEN "FAILED" ELSE status
  /\ EndRequest(h)
  /\ UNCHANGED <<claim, inputType, dataVars, activeModel, queue, workerVars, boundVars>>

\* delete_video of an oversized upload finds the row gone: 404.
DeleteFindsNothing(h) ==
  /\ hpc[h] = "deleteRead" /\ ~RowExists
  /\ EndRequest(h)
  /\ UNCHANGED <<rowVars, dataVars, activeModel, queue, workerVars, boundVars>>

\* The core-api process dies with the request half done.
RequestDies(h) ==
  /\ hpc[h] # "idle"
  /\ faults < MaxFaults
  /\ faults' = faults + 1
  /\ EndRequest(h)
  /\ UNCHANGED <<rowVars, dataVars, activeModel, queue, workerVars, publishFailures>>

-----------------------------------------------------------------------------
(* The consumer loop of a worker.                                          *)

Goto(w, step) == pc' = [pc EXCEPT ![w] = step]
Keep == UNCHANGED <<job, local>>

\* pgmq.read leases a visible message for its visibility timeout.
Receive(w, m) ==
  /\ pc[w] = "idle"
  /\ queue[m].state = "visible"
  /\ queue' = [queue EXCEPT ![m].state = "leased"]
  /\ job' = [job EXCEPT ![w] = m]
  /\ Goto(w, IF queue[m].kind = "DELETE_REQUEST" THEN "delRead" ELSE "load")
  /\ UNCHANGED <<rowVars, dataVars, activeModel, local, handlerVars, boundVars>>

\* The visibility timeout of a leased message runs out, held or not.
Redeliver(m) ==
  /\ queue[m].state = "leased"
  /\ queue' = [queue EXCEPT ![m].state = "visible"]
  /\ UNCHANGED <<rowVars, dataVars, activeModel, workerVars, handlerVars, boundVars>>

DropJob(w) ==
  /\ Goto(w, "idle")
  /\ job' = [job EXCEPT ![w] = NoMessage]
  /\ local' = [local EXCEPT ![w] = NoLocals]

\* The handler returned: pgmq.archive, whoever else holds the message by now.
Ack(w) ==
  /\ pc[w] = "ack"
  /\ queue' = [queue EXCEPT ![job[w]].state = "archived"]
  /\ DropJob(w)
  /\ UNCHANGED <<rowVars, dataVars, activeModel, handlerVars, boundVars>>

\* The worker process dies, or an exception reaches run_forever: no ack.
Abandon(w) ==
  /\ pc[w] # "idle"
  /\ faults < MaxFaults
  /\ faults' = faults + 1
  /\ DropJob(w)
  /\ UNCHANGED <<rowVars, dataVars, activeModel, queue, handlerVars, publishFailures>>

Same == UNCHANGED <<inputType, activeModel, queue, handlerVars, boundVars>>
SameRow == UNCHANGED <<status, claim>>

-----------------------------------------------------------------------------
(* ProcessVideoUseCase.execute                                             *)

Load(w) ==
  /\ pc[w] = "load"
  /\ CASE ~RowExists -> Goto(w, "ack") /\ Keep
       [] status = "DELETING" -> Goto(w, "delRead") /\ Keep
       [] status = "READY" /\ SettingsModel \in outputs -> Goto(w, "ack") /\ Keep
       [] OTHER -> /\ Goto(w, "claim")
                   /\ local' = [local EXCEPT ![w] =
                        [NoLocals EXCEPT !.keepReady = (status = "READY"),
                                         !.hasAudio = ("audio" \in assets),
                                         !.hasTranscript = transcript]]
                   /\ UNCHANGED job
  /\ UNCHANGED dataVars /\ SameRow /\ Same

\* Mutation: a PROCESSING video is claimed whatever the age of its claim.
ClaimableAtAnyAge(w) ==
  IF local[w].keepReady THEN status = "READY"
                        ELSE status \in {"PENDING", "UPLOADED", "PROCESSING"}

\* claim_processing's WHERE clause.
Claimable(w) ==
  IF local[w].keepReady
    THEN status = "READY" /\ claim \in {"none", "stale"}
    ELSE \/ status \in {"PENDING", "UPLOADED"}
         \/ status = "PROCESSING" /\ claim = "stale"

\* Mutation: the claim does not set processing_claimed_at.
ClaimWithoutTime(w) ==
  /\ pc[w] = "claim"
  /\ IF Claimable(w)
       THEN status' = "PROCESSING" /\ Goto(w, "download")
       ELSE Goto(w, "recheck") /\ UNCHANGED status
  /\ Keep /\ UNCHANGED <<claim, dataVars>> /\ Same

ClaimProcessing(w) ==
  /\ pc[w] = "claim"
  /\ IF Claimable(w)
       THEN /\ status' = IF local[w].keepReady THEN status ELSE "PROCESSING"
            /\ claim' = "fresh"
            /\ Goto(w, "download")
       ELSE Goto(w, "recheck") /\ SameRow
  /\ Keep /\ UNCHANGED dataVars /\ Same

RecheckAfterLostClaim(w) ==
  /\ pc[w] = "recheck"
  /\ Goto(w, IF status = "DELETING" THEN "delRead" ELSE "ack")
  /\ Keep /\ UNCHANGED dataVars /\ SameRow /\ Same

\* _assert_not_deleting: touch_processing, then is_deleting, then `next`.
AssertNotDeleting(w, next) ==
  /\ Goto(w, "touch")
  /\ local' = [local EXCEPT ![w].next = next]
  /\ UNCHANGED job

TouchProcessing(w) ==
  /\ pc[w] = "touch"
  /\ claim' = IF status \in {"PROCESSING", "READY"} /\ claim # "none" THEN "fresh" ELSE claim
  /\ Goto(w, "check")
  /\ Keep /\ UNCHANGED <<status, dataVars>> /\ Same

CheckDeleting(w) ==
  /\ pc[w] = "check"
  /\ Goto(w, IF status = "DELETING" THEN "release" ELSE local[w].next)
  /\ Keep /\ UNCHANGED dataVars /\ SameRow /\ Same

Download(w) ==
  /\ pc[w] = "download"
  /\ IF inputType = "LOCAL_FILE" /\ "source" \notin blobs
       THEN Goto(w, "fail") /\ Keep /\ UNCHANGED blobs
       ELSE blobs' = blobs \union {"source"} /\ AssertNotDeleting(w, "audio")
  /\ UNCHANGED <<outputs, transcript, assets>> /\ SameRow /\ Same

\* An object is uploaded before the asset row that points to it is written.
UploadAudio(w) ==
  /\ pc[w] = "audio"
  /\ IF local[w].hasAudio /\ "audio" \in assets
       THEN AssertNotDeleting(w, "stt") /\ UNCHANGED blobs
       ELSE blobs' = blobs \union {"audio"} /\ Goto(w, "audioRow") /\ Keep
  /\ UNCHANGED <<outputs, transcript, assets>> /\ SameRow /\ Same

\* Every insert that references the video fails once its row is gone.
RecordAudio(w) ==
  /\ pc[w] = "audioRow"
  /\ IF RowExists
       THEN assets' = assets \union {"audio"} /\ AssertNotDeleting(w, "stt")
       ELSE UNCHANGED assets /\ Goto(w, "fail") /\ Keep
  /\ UNCHANGED <<outputs, transcript, blobs>> /\ SameRow /\ Same

EnsureTranscript(w) ==
  /\ pc[w] = "stt"
  /\ IF RowExists \/ (local[w].hasTranscript /\ transcript)
       THEN transcript' = TRUE /\ AssertNotDeleting(w, "target")
       ELSE UNCHANGED transcript /\ Goto(w, "fail") /\ Keep
  /\ UNCHANGED <<outputs, assets, blobs>> /\ SameRow /\ Same

LoadReleaseTarget(w) ==
  /\ pc[w] = "target"
  /\ Goto(w, "touch")
  /\ local' = [local EXCEPT ![w].target = activeModel, ![w].next = "keyframe"]
  /\ UNCHANGED job
  /\ UNCHANGED dataVars /\ SameRow /\ Same

UploadKeyframe(w) ==
  /\ pc[w] = "keyframe"
  /\ blobs' = blobs \union {"keyframe"}
  /\ Goto(w, "keyframeRow") /\ Keep
  /\ UNCHANGED <<outputs, transcript, assets>> /\ SameRow /\ Same

RecordKeyframe(w) ==
  /\ pc[w] = "keyframeRow"
  /\ IF RowExists
       THEN assets' = assets \union {"keyframe"} /\ Goto(w, "embed")
       ELSE UNCHANGED assets /\ Goto(w, "fail")
  /\ Keep /\ UNCHANGED <<outputs, transcript, blobs>> /\ SameRow /\ Same

Embed(w) ==
  /\ pc[w] = "embed"
  /\ AssertNotDeleting(w, "persist")
  /\ UNCHANGED dataVars /\ SameRow /\ Same

\* Mutation: the results are persisted without looking for DELETING.
PersistOverDelete(w) ==
  /\ pc[w] = "persist" /\ RowExists /\ "keyframe" \in assets
  /\ outputs' = outputs \union {local[w].target}
  /\ status' = "READY" /\ claim' = "none"
  /\ Goto(w, "ack")
  /\ Keep /\ UNCHANGED <<transcript, assets, blobs>> /\ Same

\* persist_chunks_and_vectors: chunks, vectors and READY in one transaction,
\* rolled back when the video is being deleted.  A chunk references its
\* keyframe's asset row.
PersistResults(w) ==
  /\ pc[w] = "persist"
  /\ CASE ~RowExists \/ "keyframe" \notin assets ->
            Goto(w, "fail") /\ UNCHANGED outputs /\ SameRow
       [] RowExists /\ "keyframe" \in assets /\ status = "DELETING" ->
            Goto(w, "release") /\ UNCHANGED outputs /\ SameRow
       [] OTHER -> /\ outputs' = outputs \union {local[w].target}
                   /\ status' = "READY" /\ claim' = "none"
                   /\ Goto(w, "ack")
  /\ Keep /\ UNCHANGED <<transcript, assets, blobs>> /\ Same

\* Any stage can raise: download, ffmpeg, STT, embedding, storage, database.
StageFails(w) ==
  /\ pc[w] \in Pipeline
  /\ Goto(w, "fail")
  /\ Keep /\ UNCHANGED dataVars /\ SameRow /\ Same

\* Mutations: the failure is written over DELETING; the failure is not written.
SetFailedOverDelete(w) ==
  /\ pc[w] = "fail"
  /\ claim' = "none"
  /\ status' = IF RowExists THEN "FAILED" ELSE status
  /\ Goto(w, "ack")
  /\ Keep /\ UNCHANGED dataVars /\ Same
SetFailedClaimOnly(w) ==
  /\ pc[w] = "fail"
  /\ claim' = "none"
  /\ Goto(w, IF status = "DELETING" THEN "delRead" ELSE "ack")
  /\ Keep /\ UNCHANGED <<status, dataVars>> /\ Same

SetFailed(w) ==
  /\ pc[w] = "fail"
  /\ claim' = "none"
  /\ IF RowExists /\ status # "DELETING"
       THEN status' = "FAILED" /\ Goto(w, "ack")
       ELSE UNCHANGED status /\ Goto(w, "delRead")
  /\ Keep /\ UNCHANGED dataVars /\ Same

\* The handler of DeleteRequested.
ReleaseClaim(w) ==
  /\ pc[w] = "release"
  /\ claim' = "none"
  /\ Goto(w, "delRead")
  /\ Keep /\ UNCHANGED <<status, dataVars>> /\ Same

-----------------------------------------------------------------------------
(* DeleteVideoUseCase.execute                                              *)

FindVideo(w) ==
  /\ pc[w] = "delRead"
  /\ Goto(w, IF RowExists THEN "delFresh" ELSE "ack")
  /\ Keep /\ UNCHANGED dataVars /\ SameRow /\ Same

\* Mutation: a deferred deletion is acknowledged.
DeferredIsAcked(w) ==
  /\ pc[w] = "delFresh"
  /\ Goto(w, IF claim = "fresh" THEN "ack" ELSE "delList")
  /\ Keep /\ UNCHANGED dataVars /\ SameRow /\ Same

\* A fresh claim raises DeletionDeferred: the message stays leased, unacked.
DeferIfClaimed(w) ==
  /\ pc[w] = "delFresh"
  /\ IF claim = "fresh" THEN DropJob(w) ELSE Goto(w, "delList") /\ Keep
  /\ UNCHANGED dataVars /\ SameRow /\ Same

\* Mutation: only the uploaded source is listed.
ListSourceOnly(w) ==
  /\ pc[w] = "delList"
  /\ local' = [local EXCEPT ![w].paths = {"source"}]
  /\ Goto(w, "delBlobs") /\ UNCHANGED job
  /\ UNCHANGED dataVars /\ SameRow /\ Same

ListStoragePaths(w) ==
  /\ pc[w] = "delList"
  /\ local' = [local EXCEPT ![w].paths = assets \union {"source"}]
  /\ Goto(w, "delBlobs") /\ UNCHANGED job
  /\ UNCHANGED dataVars /\ SameRow /\ Same

DeleteObjects(w) ==
  /\ pc[w] = "delBlobs"
  /\ blobs' = blobs \ local[w].paths
  /\ Goto(w, "delRows") /\ Keep
  /\ UNCHANGED <<outputs, transcript, assets>> /\ SameRow /\ Same

DeleteArtifacts(w) ==
  /\ pc[w] = "delRows"
  /\ outputs' = {} /\ transcript' = FALSE /\ assets' = {}
  /\ Goto(w, "delVideo") /\ Keep
  /\ UNCHANGED blobs /\ SameRow /\ Same

\* Mutation: a video that is no longer DELETING keeps its row, and the task ends.
HardDeleteOnlyDeleting(w) ==
  /\ pc[w] = "delVideo"
  /\ IF status = "DELETING" THEN status' = "GONE" /\ claim' = "none" ELSE SameRow
  /\ Goto(w, "ack") /\ Keep
  /\ UNCHANGED dataVars /\ Same

\* The foreign keys refuse to delete a video that got new rows: unacked.
HardDelete(w) ==
  /\ pc[w] = "delVideo"
  /\ IF outputs = {} /\ assets = {} /\ ~transcript
       THEN /\ status' = "GONE" /\ claim' = "none"
            /\ Goto(w, "ack") /\ Keep
       ELSE DropJob(w) /\ SameRow
  /\ UNCHANGED dataVars /\ Same

-----------------------------------------------------------------------------
(* The environment.                                                        *)

\* Time passes: the claim is older than STALE_PROCESSING_RECLAIM_SEC.
ClaimGoesStale ==
  /\ claim = "fresh"
  /\ ZombieClaims \/ \A w \in Workers : pc[w] \notin Holding
  /\ claim' = "stale"
  /\ UNCHANGED <<status, inputType, dataVars, activeModel, queue, workerVars,
                 handlerVars, boundVars>>

\* A release cuts over; the worker's settings keep the old version.
Cutover ==
  /\ activeModel = SettingsModel
  /\ \E m \in Models \ {activeModel} : activeModel' = m
  /\ UNCHANGED <<rowVars, dataVars, queue, workerVars, handlerVars, boundVars>>

-----------------------------------------------------------------------------
HandlerStarts(h) ==
  CreateVideo(h) \/ CompleteRead(h) \/ DeleteRead(h) \/ RetryRead(h)
HandlerGoesOn(h) ==
  \/ CompleteWrite(h) \/ DeleteWrite(h) \/ RetryWrite(h)
  \/ DeleteOversized(h) \/ DeleteFindsNothing(h)
  \/ Publish(h) \/ RestoreStatus(h) \/ RestoreFailure(h)
Proceed(w) ==
  \/ Load(w) \/ ClaimProcessing(w) \/ RecheckAfterLostClaim(w)
  \/ TouchProcessing(w) \/ CheckDeleting(w)
  \/ Download(w) \/ UploadAudio(w) \/ RecordAudio(w) \/ EnsureTranscript(w)
  \/ LoadReleaseTarget(w) \/ UploadKeyframe(w) \/ RecordKeyframe(w) \/ Embed(w)
  \/ PersistResults(w) \/ SetFailed(w) \/ ReleaseClaim(w)
Remove(w) ==
  \/ FindVideo(w) \/ DeferIfClaimed(w) \/ ListStoragePaths(w) \/ DeleteObjects(w)
  \/ DeleteArtifacts(w) \/ HardDelete(w)
WorkerGoesOn(w) == Proceed(w) \/ Remove(w) \/ Ack(w)

Next ==
  \/ \E h \in Handlers : HandlerStarts(h) \/ HandlerGoesOn(h) \/ PublishFails(h)
                         \/ PublishTwice(h) \/ RequestDies(h)
  \/ \E w \in Workers : \/ WorkerGoesOn(w) \/ StageFails(w) \/ Abandon(w)
                        \/ \E m \in Messages : Receive(w, m)
  \/ \E m \in Messages : Redeliver(m)
  \/ ClientUpload \/ ClaimGoesStale \/ Cutover

Spec == Init /\ [][Next]_vars

\* Requests and worker loops go on unless they die; run_forever polls every
\* queue again and again and pgmq.read takes the oldest visible message first;
\* visibility timeouts and claims run out with the clock.
Fairness ==
  /\ \A h \in Handlers : WF_vars(HandlerGoesOn(h))
  /\ \A w \in Workers : WF_vars(WorkerGoesOn(w))
  /\ \A m \in Messages : /\ WF_vars(Redeliver(m))
                         /\ SF_vars(\E w \in Workers : Receive(w, m))
  /\ WF_vars(ClaimGoesStale)

FairSpec == Spec /\ Fairness

-----------------------------------------------------------------------------
(* Safety.                                                                 *)

\* A PROCESSING video always has a claim time.  claim_processing compares the
\* claim with the cutoff, and null is never older than a cutoff: a PROCESSING
\* row without a claim could never be claimed again (video_repository.py:189).
ProcessingIsReclaimable == status = "PROCESSING" => claim # "none"

\* Two consumer loops never run the pipeline for the video at the same time,
\* whatever is redelivered, retried or abandoned half way (claim_processing).
AtMostOneProcessor ==
  \A v, w \in Workers : pc[v] \in Holding /\ pc[w] \in Holding => v = w

\* A READY video can be searched: READY is only ever visible with the chunks
\* and vectors of some model (persist_chunks_and_vectors, DeleteVideoUseCase).
ReadyHasOutputs == status = "READY" => outputs # {}

\* Even when requests and workers race, a READY video without outputs is one a
\* worker has in hand: it is removing the video or building its outputs again.
\* Only an undone publish breaks that: it writes back a READY that a request
\* read before the outputs went (_restore_video_statuses).
LostOutputsArePending ==
  status = "READY" /\ outputs = {} /\ publishFailures = 0 =>
    \E w \in Workers : pc[w] \in Deletion \union Holding

\* A delete drops no asset row whose object is still in the bucket: with the
\* row goes the only pointer to the object (delete_video.py:38-46).
RowsOutliveObjects ==
  [][\A a \in assets \ assets' : a \notin blobs]_vars

\* Once DELETING, a video is only ever hard-deleted (system-design.md 1.2):
\* no late write of another request or task brings it back.
DeletingIsFinal ==
  [][status = "DELETING" => status' \in {"DELETING", "GONE"}]_vars

\* Only a DELETING video is hard-deleted.
OnlyDeletingIsRemoved ==
  [][status' = "GONE" => status \in {"DELETING", "GONE"}]_vars

\* The video goes through the transitions the two services own, and no other:
\* FAILED only after PROCESSING, READY only after PROCESSING, no way back from
\* DELETING.
Contract == INSTANCE VideoContract
KeepsContract == Contract!Spec

\* A DELETING video has a DELETE_REQUEST on its way: the delete is not lost
\* between the status write and the queue, nor acked before the row is gone.
DeletingHasMessage ==
  status = "DELETING" /\ Busy = {} =>
    \E m \in Messages : /\ queue[m].kind = "DELETE_REQUEST"
                        /\ queue[m].state \in {"visible", "leased"}

(* Liveness.                                                               *)

DeleteSent == \E m \in Messages : queue[m].kind = "DELETE_REQUEST"

\* Once a DELETE_REQUEST is in the queue the video goes, however often the
\* delete is deferred, abandoned, redelivered or raced by the pipeline.
DeleteCompletes == DeleteSent ~> status = "GONE"

\* Processing ends in READY, FAILED or the video's removal, as long as no worker
\* or request dies on the way.
ProcessingEndsWithoutCrash ==
  status = "PROCESSING" /\ faults = 0 ~> status # "PROCESSING" \/ faults > 0
=============================================================================
