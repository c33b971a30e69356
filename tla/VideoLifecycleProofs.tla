------------------------- MODULE VideoLifecycleProofs -------------------------
(***************************************************************************)
(* Theorems about VideoLifecycle, for every number of workers, requests,   *)
(* messages, models and faults.                                            *)
(***************************************************************************)
EXTENDS VideoLifecycle, TLAPS

-----------------------------------------------------------------------------
(* Type correctness.                                                       *)

\* The steps of a request keep every variable in its type.
LEMMA HandlerTypes ==
  ASSUME TypeOK, NEW h \in Handlers,
         \/ HandlerStarts(h) \/ HandlerGoesOn(h)
         \/ PublishFails(h) \/ PublishTwice(h) \/ RequestDies(h)
  PROVE  TypeOK'
<1> USE VideoAssumption
        DEF TypeOK, Statuses, Objects, Derived, Requests, HandlerSteps, RowExists,
            EndRequest, Begin, Handle, dataVars, rowVars, workerVars, handlerVars,
            boundVars, Send, KindOf
<1>1. CASE CreateVideo(h) BY <1>1 DEF CreateVideo
<1>2. CASE CompleteRead(h) BY <1>2 DEF CompleteRead
<1>3. CASE DeleteRead(h) BY <1>3 DEF DeleteRead
<1>4. CASE RetryRead(h) BY <1>4 DEF RetryRead
<1>5. CASE CompleteWrite(h) BY <1>5 DEF CompleteWrite, WriteBack, StatusToWrite
<1>6. CASE DeleteWrite(h) BY <1>6 DEF DeleteWrite, WriteBack, StatusToWrite
<1>7. CASE RetryWrite(h) BY <1>7 DEF RetryWrite, WriteBack, StatusToWrite
<1>8. CASE DeleteOversized(h) BY <1>8 DEF DeleteOversized
<1>9. CASE DeleteFindsNothing(h) BY <1>9 DEF DeleteFindsNothing
<1>10. CASE Publish(h) BY <1>10 DEF Publish
<1>11. CASE RestoreStatus(h) BY <1>11 DEF RestoreStatus
<1>12. CASE RestoreFailure(h) BY <1>12 DEF RestoreFailure
<1>13. CASE PublishFails(h) BY <1>13 DEF PublishFails
<1>14. CASE PublishTwice(h) BY <1>14 DEF PublishTwice, MayStart
<1>15. CASE RequestDies(h) BY <1>15 DEF RequestDies
<1> QED
  BY <1>1, <1>2, <1>3, <1>4, <1>5, <1>6, <1>7, <1>8, <1>9, <1>10, <1>11, <1>12,
     <1>13, <1>14, <1>15 DEF HandlerStarts, HandlerGoesOn

\* The names of a worker's steps.
LEMMA StepNames ==
  WorkerSteps = {"idle", "load", "claim", "recheck", "download", "audio", "audioRow", "stt",
                 "target", "keyframe", "keyframeRow", "embed", "persist", "touch", "check",
                 "fail", "release", "ack", "delRead", "delFresh", "delList", "delBlobs",
                 "delRows", "delVideo"}
BY DEF WorkerSteps, Pipeline, Deletion

\* The steps of the pipeline, one by one.
LEMMA PipelineNames ==
  Pipeline = {"download", "audio", "audioRow", "stt", "target", "keyframe", "keyframeRow",
              "embed", "persist", "touch", "check"}
BY DEF Pipeline

\* A pipeline step is a step of a worker.
LEMMA PipelineSteps == Pipeline \subseteq WorkerSteps
BY DEF WorkerSteps

\* A worker's locals stay locals when fields of them are assigned.
LEMMA LocalFields ==
  ASSUME NEW l \in Locals
  PROVE  /\ l.next \in Pipeline
         /\ \A s \in Pipeline : [l EXCEPT !.next = s] \in Locals
         /\ \A m \in Models, s \in Pipeline :
              [l EXCEPT !.target = m, !.next = s] \in Locals
         /\ \A P \in SUBSET Objects : [l EXCEPT !.paths = P] \in Locals
         /\ \A a, b, c \in BOOLEAN :
              [l EXCEPT !.keepReady = a, !.hasAudio = b, !.hasTranscript = c] \in Locals
BY DEF Locals

\* The locals a task starts with are locals.
LEMMA NoLocalsType == NoLocals \in Locals
BY VideoAssumption DEF NoLocals, Locals, Pipeline

\* What AssertNotDeleting leaves behind.
LEMMA AssertTypes ==
  ASSUME NEW w \in Workers, NEW s \in Pipeline, AssertNotDeleting(w, s),
         pc \in [Workers -> WorkerSteps], local \in [Workers -> Locals]
  PROVE  /\ pc' \in [Workers -> WorkerSteps]
         /\ local' \in [Workers -> Locals]
         /\ job' = job
<1>1. [local[w] EXCEPT !.next = s] \in Locals BY LocalFields
<1>2. local' = [local EXCEPT ![w] = [local[w] EXCEPT !.next = s]]
  BY DEF AssertNotDeleting
<1>3. "touch" \in WorkerSteps BY StepNames
<1> QED BY <1>1, <1>2, <1>3 DEF AssertNotDeleting, Goto

\* The steps of a worker keep every variable in its type.
LEMMA WorkerTypes ==
  ASSUME TypeOK, NEW w \in Workers,
         \/ WorkerGoesOn(w) \/ StageFails(w) \/ Abandon(w)
         \/ \E m \in Messages : Receive(w, m)
  PROVE  TypeOK'
<1> USE StepNames
        DEF TypeOK, Statuses, Objects, Derived, RowExists, Goto, Keep, Same, SameRow,
            dataVars, rowVars, workerVars, handlerVars, boundVars
<1>1. CASE Load(w)
  <2>1. \A a, b, c \in BOOLEAN :
          [NoLocals EXCEPT !.keepReady = a, !.hasAudio = b, !.hasTranscript = c] \in Locals
    BY NoLocalsType, LocalFields
  <2>2. /\ (status = "READY") \in BOOLEAN
        /\ ("audio" \in assets) \in BOOLEAN
        /\ transcript \in BOOLEAN
    OBVIOUS
  <2>3. [NoLocals EXCEPT !.keepReady = (status = "READY"), !.hasAudio = ("audio" \in assets),
                         !.hasTranscript = transcript] \in Locals
    BY <2>1, <2>2
  <2> QED BY <1>1, <2>3 DEF Load
<1>2. CASE ClaimProcessing(w) BY <1>2 DEF ClaimProcessing
<1>3. CASE RecheckAfterLostClaim(w) BY <1>3 DEF RecheckAfterLostClaim
<1>4. CASE TouchProcessing(w) BY <1>4 DEF TouchProcessing
<1>5. CASE CheckDeleting(w)
  <2>1. local[w].next \in WorkerSteps BY LocalFields, PipelineSteps
  <2> QED BY <1>5, <2>1 DEF CheckDeleting
<1>6. CASE Download(w) BY <1>6, AssertTypes, PipelineNames DEF Download
<1>7. CASE UploadAudio(w) BY <1>7, AssertTypes, PipelineNames DEF UploadAudio
<1>8. CASE RecordAudio(w) BY <1>8, AssertTypes, PipelineNames DEF RecordAudio
<1>9. CASE EnsureTranscript(w) BY <1>9, AssertTypes, PipelineNames DEF EnsureTranscript
<1>10. CASE LoadReleaseTarget(w)
  <2>1. [local[w] EXCEPT !.target = activeModel, !.next = "keyframe"] \in Locals
    BY LocalFields DEF Pipeline
  <2>2. local' = [local EXCEPT ![w] =
                    [local[w] EXCEPT !.target = activeModel, !.next = "keyframe"]]
    BY <1>10 DEF LoadReleaseTarget
  <2> QED BY <1>10, <2>1, <2>2 DEF LoadReleaseTarget
<1>11. CASE UploadKeyframe(w) BY <1>11 DEF UploadKeyframe
<1>12. CASE RecordKeyframe(w) BY <1>12 DEF RecordKeyframe
<1>13. CASE Embed(w) BY <1>13, AssertTypes, PipelineNames DEF Embed
<1>14. CASE PersistResults(w)
  <2>1. local[w].target \in Models BY DEF Locals
  <2> QED BY <1>14, <2>1 DEF PersistResults
<1>15. CASE SetFailed(w) BY <1>15 DEF SetFailed
<1>16. CASE ReleaseClaim(w) BY <1>16 DEF ReleaseClaim
<1>17. CASE FindVideo(w) BY <1>17 DEF FindVideo
<1>18. CASE DeferIfClaimed(w) BY <1>18, NoLocalsType DEF DeferIfClaimed, DropJob
<1>19. CASE ListStoragePaths(w)
  <2>1. [local[w] EXCEPT !.paths = assets \union {"source"}] \in Locals
    BY LocalFields
  <2>2. local' = [local EXCEPT ![w] = [local[w] EXCEPT !.paths = assets \union {"source"}]]
    BY <1>19 DEF ListStoragePaths
  <2> QED BY <1>19, <2>1, <2>2 DEF ListStoragePaths
<1>20. CASE DeleteObjects(w) BY <1>20 DEF DeleteObjects
<1>21. CASE DeleteArtifacts(w) BY <1>21 DEF DeleteArtifacts
<1>22. CASE HardDelete(w) BY <1>22, NoLocalsType DEF HardDelete, DropJob
<1>23. CASE Ack(w)
  <2>1. CASE job[w] \in Messages BY <1>23, <2>1, NoLocalsType DEF Ack, DropJob
  <2>2. CASE job[w] \notin Messages
    <3>1. queue' = queue BY <1>23, <2>2 DEF Ack
    <3> QED BY <1>23, <3>1, NoLocalsType DEF Ack, DropJob
  <2> QED BY <2>1, <2>2
<1>24. CASE StageFails(w) BY <1>24, PipelineNames DEF StageFails
<1>25. CASE Abandon(w) BY <1>25, VideoAssumption, NoLocalsType DEF Abandon, DropJob
<1>26. CASE \E m \in Messages : Receive(w, m) BY <1>26 DEF Receive
<1> HIDE StepNames DEF TypeOK
<1> QED
  BY <1>1, <1>2, <1>3, <1>4, <1>5, <1>6, <1>7, <1>8, <1>9, <1>10, <1>11, <1>12,
     <1>13, <1>14, <1>15, <1>16, <1>17, <1>18, <1>19, <1>20, <1>21, <1>22, <1>23,
     <1>24, <1>25, <1>26 DEF WorkerGoesOn, Proceed, Remove

\* Init establishes the types.
LEMMA InitTypes == Init => TypeOK
<1> SUFFICES ASSUME Init PROVE TypeOK
  OBVIOUS
<1>1. /\ pc \in [Workers -> WorkerSteps]
      /\ job \in [Workers -> Messages \union {NoMessage}]
      /\ local \in [Workers -> Locals]
  BY StepNames, NoLocalsType DEF Init
<1>2. /\ hpc \in [Handlers -> HandlerSteps]
      /\ op \in [Handlers -> Requests]
      /\ saved \in [Handlers -> Statuses]
  BY DEF Init, HandlerSteps, Requests, Statuses
<1>3. queue \in [Messages -> [kind : {"none", "PREPROCESS_REQUEST", "DELETE_REQUEST"},
                             state : {"unsent", "visible", "leased", "archived"}]]
  BY DEF Init
<1>4. /\ faults \in 0..MaxFaults /\ publishFailures \in 0..MaxPublishFailures
      /\ inputType \in {"LOCAL_FILE", "EXTERNAL_URL"} /\ activeModel \in Models
  BY VideoAssumption DEF Init
<1> QED BY <1>1, <1>2, <1>3, <1>4 DEF Init, TypeOK, Statuses, Objects, Derived

\* Every step, and every stuttering step, keeps them.
LEMMA NextTypes ==
  ASSUME TypeOK, [Next]_vars
  PROVE  TypeOK'
<1>1. CASE \E h \in Handlers : \/ HandlerStarts(h) \/ HandlerGoesOn(h)
                               \/ PublishFails(h) \/ PublishTwice(h) \/ RequestDies(h)
  BY <1>1, HandlerTypes
<1>2. CASE \E w \in Workers : \/ WorkerGoesOn(w) \/ StageFails(w) \/ Abandon(w)
                              \/ \E m \in Messages : Receive(w, m)
  BY <1>2, WorkerTypes
<1> USE DEF TypeOK, rowVars, dataVars, workerVars, handlerVars, boundVars
<1>3. CASE \E m \in Messages : Redeliver(m) BY <1>3 DEF Redeliver
<1>4. CASE ClientUpload BY <1>4 DEF ClientUpload, Objects
<1>5. CASE ClaimGoesStale BY <1>5 DEF ClaimGoesStale
<1>6. CASE Cutover BY <1>6 DEF Cutover
<1>7. CASE UNCHANGED vars BY <1>7 DEF vars
<1> QED BY <1>1, <1>2, <1>3, <1>4, <1>5, <1>6, <1>7 DEF Next

\* Every variable of the video's life keeps its type, whatever requests,
\* deliveries, crashes and timeouts do.
THEOREM TypeCorrect == Spec => []TypeOK
<1>1. Init => TypeOK BY InitTypes
<1>2. TypeOK /\ [Next]_vars => TypeOK' BY NextTypes
<1> QED BY <1>1, <1>2, PTL DEF Spec

-----------------------------------------------------------------------------
(* Requests one at a time.                                                 *)
(*                                                                         *)
(* complete, retry and delete write the status they computed from an       *)
(* earlier read, so what follows needs requests that do not overlap, and   *)
(* no publish that fails (its undo writes an old status back).  Workers,   *)
(* messages, crashes and zombie claims stay arbitrary.                     *)

OneRequestAtATime ==
  /\ \A g, h \in Handlers : g = h
  /\ MaxPublishFailures = 0

Doomed == status \in {"DELETING", "GONE"}

\* A write that is still to come will not undo a delete; a delete that is past
\* its status write has done it.
RequestIsSafe(h) ==
  /\ hpc[h] \notin {"restore", "restoreFailure"}
  /\ hpc[h] \in {"completeWrite", "retryWrite"} => status # "DELETING"
  /\ hpc[h] = "completeWrite" => op[h] = "complete"
  /\ hpc[h] = "retryWrite" => op[h] = "retry"
  /\ hpc[h] = "publish" /\ op[h] = "delete" => Doomed
  /\ hpc[h] = "deleteWrite" /\ saved[h] = "DELETING" => Doomed
  /\ hpc[h] # "idle" => status # "ABSENT"

MessageIsSafe(m) ==
  /\ queue[m].kind = "DELETE_REQUEST" => Doomed
  /\ queue[m].state # "unsent" => status # "ABSENT"

\* A worker that deletes, or gives up its claim to delete, has seen DELETING.
WorkerIsSafe(w) ==
  /\ pc[w] \in Deletion \union {"release"} => Doomed
  /\ pc[w] # "idle" => status # "ABSENT"

SerialInv ==
  /\ TypeOK
  /\ \A h \in Handlers : RequestIsSafe(h)
  /\ \A m \in Messages : MessageIsSafe(m)
  /\ \A w \in Workers : WorkerIsSafe(w)
  /\ ProcessingIsReclaimable

\* What a request does to the video keeps what the others rely on.
LEMMA SerialHandlerStep ==
  ASSUME OneRequestAtATime, SerialInv, TypeOK', NEW h \in Handlers,
         \/ HandlerStarts(h) \/ HandlerGoesOn(h)
         \/ PublishFails(h) \/ PublishTwice(h) \/ RequestDies(h)
  PROVE  SerialInv'
<1> USE DEF SerialInv, TypeOK, OneRequestAtATime, RequestIsSafe, MessageIsSafe, WorkerIsSafe,
            ProcessingIsReclaimable, Doomed, RowExists, EndRequest, Begin, Handle,
            dataVars, rowVars, workerVars, handlerVars, boundVars
<1>1. CASE CreateVideo(h) BY <1>1 DEF CreateVideo
<1>2. CASE CompleteRead(h) BY <1>2 DEF CompleteRead
<1>3. CASE DeleteRead(h) BY <1>3 DEF DeleteRead
<1>4. CASE RetryRead(h) BY <1>4 DEF RetryRead
<1>5. CASE CompleteWrite(h) BY <1>5 DEF CompleteWrite, WriteBack, StatusToWrite
<1>6. CASE DeleteWrite(h) BY <1>6 DEF DeleteWrite, WriteBack, StatusToWrite
<1>7. CASE RetryWrite(h) BY <1>7 DEF RetryWrite, WriteBack, StatusToWrite
<1>8. CASE DeleteOversized(h) BY <1>8 DEF DeleteOversized
<1>9. CASE DeleteFindsNothing(h) BY <1>9 DEF DeleteFindsNothing
<1>10. CASE Publish(h) BY <1>10 DEF Publish, Send, KindOf
<1>11. CASE RestoreStatus(h) BY <1>11 DEF RestoreStatus
<1>12. CASE RestoreFailure(h) BY <1>12 DEF RestoreFailure
<1>13. CASE PublishFails(h) BY <1>13 DEF PublishFails
<1>14. CASE PublishTwice(h) BY <1>14 DEF PublishTwice, MayStart
<1>15. CASE RequestDies(h) BY <1>15 DEF RequestDies
<1> HIDE DEF SerialInv
<1> QED
  BY <1>1, <1>2, <1>3, <1>4, <1>5, <1>6, <1>7, <1>8, <1>9, <1>10, <1>11, <1>12,
     <1>13, <1>14, <1>15 DEF HandlerStarts, HandlerGoesOn

\* So does every step of a worker.
LEMMA SerialWorkerStep ==
  ASSUME SerialInv, TypeOK', NEW w \in Workers,
         \/ WorkerGoesOn(w) \/ StageFails(w) \/ Abandon(w)
         \/ \E m \in Messages : Receive(w, m)
  PROVE  SerialInv'
<1> USE DEF SerialInv, TypeOK, RequestIsSafe, MessageIsSafe, WorkerIsSafe, Deletion,
            ProcessingIsReclaimable, Doomed, RowExists, Goto, Keep, DropJob, Same, SameRow,
            AssertNotDeleting, dataVars, rowVars, workerVars, handlerVars, boundVars
<1>1. CASE Load(w) BY <1>1 DEF Load
<1>2. CASE ClaimProcessing(w) BY <1>2 DEF ClaimProcessing, Claimable
<1>3. CASE RecheckAfterLostClaim(w) BY <1>3 DEF RecheckAfterLostClaim
<1>4. CASE TouchProcessing(w) BY <1>4 DEF TouchProcessing
<1>5. CASE CheckDeleting(w)
  <2>1. local[w].next \in Pipeline BY LocalFields
  <2> QED BY <1>5, <2>1, PipelineNames DEF CheckDeleting
<1>6. CASE Download(w) BY <1>6 DEF Download
<1>7. CASE UploadAudio(w) BY <1>7 DEF UploadAudio
<1>8. CASE RecordAudio(w) BY <1>8 DEF RecordAudio
<1>9. CASE EnsureTranscript(w) BY <1>9 DEF EnsureTranscript
<1>10. CASE LoadReleaseTarget(w) BY <1>10 DEF LoadReleaseTarget
<1>11. CASE UploadKeyframe(w) BY <1>11 DEF UploadKeyframe
<1>12. CASE RecordKeyframe(w) BY <1>12 DEF RecordKeyframe
<1>13. CASE Embed(w) BY <1>13 DEF Embed
<1>14. CASE PersistResults(w) BY <1>14 DEF PersistResults
<1>15. CASE SetFailed(w) BY <1>15 DEF SetFailed
<1>16. CASE ReleaseClaim(w) BY <1>16 DEF ReleaseClaim
<1>17. CASE FindVideo(w) BY <1>17 DEF FindVideo
<1>18. CASE DeferIfClaimed(w) BY <1>18 DEF DeferIfClaimed
<1>19. CASE ListStoragePaths(w) BY <1>19 DEF ListStoragePaths
<1>20. CASE DeleteObjects(w) BY <1>20 DEF DeleteObjects
<1>21. CASE DeleteArtifacts(w) BY <1>21 DEF DeleteArtifacts
<1>22. CASE HardDelete(w) BY <1>22 DEF HardDelete
<1>23. CASE Ack(w) BY <1>23 DEF Ack
<1>24. CASE StageFails(w) BY <1>24, PipelineNames DEF StageFails
<1>25. CASE Abandon(w) BY <1>25 DEF Abandon
<1>26. CASE \E m \in Messages : Receive(w, m) BY <1>26 DEF Receive
<1> HIDE DEF SerialInv
<1> QED
  BY <1>1, <1>2, <1>3, <1>4, <1>5, <1>6, <1>7, <1>8, <1>9, <1>10, <1>11, <1>12,
     <1>13, <1>14, <1>15, <1>16, <1>17, <1>18, <1>19, <1>20, <1>21, <1>22, <1>23,
     <1>24, <1>25, <1>26 DEF WorkerGoesOn, Proceed, Remove

\* Every step of the system keeps SerialInv when requests do not overlap.
LEMMA SerialNext ==
  ASSUME OneRequestAtATime, SerialInv, [Next]_vars
  PROVE  SerialInv'
<1>1. TypeOK' BY NextTypes DEF SerialInv
<1>2. CASE \E h \in Handlers : \/ HandlerStarts(h) \/ HandlerGoesOn(h)
                               \/ PublishFails(h) \/ PublishTwice(h) \/ RequestDies(h)
  BY <1>1, <1>2, SerialHandlerStep
<1>3. CASE \E w \in Workers : \/ WorkerGoesOn(w) \/ StageFails(w) \/ Abandon(w)
                              \/ \E m \in Messages : Receive(w, m)
  BY <1>1, <1>3, SerialWorkerStep
<1> USE <1>1 DEF SerialInv, TypeOK, RequestIsSafe, MessageIsSafe, WorkerIsSafe,
                 ProcessingIsReclaimable, Doomed, rowVars, dataVars, workerVars,
                 handlerVars, boundVars
<1>4. CASE \E m \in Messages : Redeliver(m) BY <1>4 DEF Redeliver
<1>5. CASE ClientUpload BY <1>5 DEF ClientUpload
<1>6. CASE ClaimGoesStale BY <1>6 DEF ClaimGoesStale
<1>7. CASE Cutover BY <1>7 DEF Cutover
<1>8. CASE UNCHANGED vars BY <1>8 DEF vars
<1> HIDE <1>1 DEF SerialInv
<1> QED BY <1>2, <1>3, <1>4, <1>5, <1>6, <1>7, <1>8 DEF Next

\* SerialInv holds before the video is created.
LEMMA SerialInit == Init => SerialInv
<1> SUFFICES ASSUME Init PROVE SerialInv
  OBVIOUS
<1>1. TypeOK BY InitTypes
<1> QED
  BY <1>1 DEF SerialInv, Init, RequestIsSafe, MessageIsSafe, WorkerIsSafe,
              ProcessingIsReclaimable, Doomed, Deletion

\* SerialInv is an invariant, with the types it needs.
LEMMA SerialAlways == ASSUME OneRequestAtATime PROVE Spec => []SerialInv
<1>1. Init => SerialInv BY SerialInit
<1>2. SerialInv /\ [Next]_vars => SerialInv' BY SerialNext
<1> QED BY <1>1, <1>2, PTL DEF Spec

\* When requests do not overlap, a PROCESSING video always has a claim time,
\* so some later delivery can claim it: for any number of workers, crashes and
\* claims that age out under a live worker.
THEOREM ProcessingStaysReclaimable ==
  ASSUME OneRequestAtATime PROVE Spec => []ProcessingIsReclaimable
<1>1. SerialInv => ProcessingIsReclaimable BY DEF SerialInv
<1> QED BY <1>1, SerialAlways, PTL

\* What a step may do to the status of a video that is, or becomes, deleted.
DeletionStep ==
  /\ status = "DELETING" => status' \in {"DELETING", "GONE"}
  /\ status' = "GONE" => status \in {"DELETING", "GONE"}

\* Under SerialInv no step undoes a deletion or removes what is not DELETING.
LEMMA SerialDeletionStep ==
  ASSUME OneRequestAtATime, SerialInv, [Next]_vars
  PROVE  DeletionStep
<1> USE DEF DeletionStep, RowExists
<1>1. ASSUME NEW h \in Handlers,
             \/ HandlerStarts(h) \/ HandlerGoesOn(h)
             \/ PublishFails(h) \/ PublishTwice(h) \/ RequestDies(h)
      PROVE  DeletionStep
  BY <1>1
     DEF SerialInv, RequestIsSafe, Doomed, HandlerStarts, HandlerGoesOn,
         CreateVideo, CompleteRead, DeleteRead, RetryRead, CompleteWrite, DeleteWrite,
         RetryWrite, WriteBack, StatusToWrite, DeleteOversized, DeleteFindsNothing, Publish,
         RestoreStatus, RestoreFailure, PublishFails, PublishTwice,
         RequestDies, rowVars
<1>2. ASSUME NEW w \in Workers,
             \/ WorkerGoesOn(w) \/ StageFails(w) \/ Abandon(w)
             \/ \E m \in Messages : Receive(w, m)
      PROVE  DeletionStep
  <2>1. CASE ClaimProcessing(w) BY <1>2, <2>1 DEF ClaimProcessing, Claimable, SameRow
  <2>2. CASE PersistResults(w) BY <1>2, <2>2 DEF PersistResults, SameRow
  <2>3. CASE SetFailed(w) BY <1>2, <2>3 DEF SetFailed
  <2>4. CASE HardDelete(w)
    BY <1>2, <2>4 DEF HardDelete, SerialInv, WorkerIsSafe, Deletion, Doomed, SameRow
  <2>5. CASE ~(ClaimProcessing(w) \/ PersistResults(w) \/ SetFailed(w) \/ HardDelete(w))
    <3>1. status' = status
      BY <1>2, <2>5
         DEF WorkerGoesOn, Proceed, Remove, SameRow, rowVars, Load,
             RecheckAfterLostClaim, TouchProcessing, CheckDeleting, Download,
             UploadAudio, RecordAudio, EnsureTranscript, LoadReleaseTarget,
             UploadKeyframe, RecordKeyframe, Embed, ReleaseClaim, FindVideo,
             DeferIfClaimed, ListStoragePaths, DeleteObjects, DeleteArtifacts, Ack,
             StageFails, Abandon, Receive
    <3> QED BY <3>1
  <2> QED BY <2>1, <2>2, <2>3, <2>4, <2>5
<1>3. CASE \/ \E m \in Messages : Redeliver(m)
           \/ ClientUpload \/ ClaimGoesStale \/ Cutover \/ UNCHANGED vars
  BY <1>3 DEF Redeliver, ClientUpload, ClaimGoesStale, Cutover, rowVars, vars
<1> QED BY <1>1, <1>2, <1>3 DEF Next

\* When requests do not overlap, a DELETING video only ever disappears.
THEOREM DeletionIsFinal ==
  ASSUME OneRequestAtATime PROVE Spec => DeletingIsFinal
<1>1. SerialInv /\ [Next]_vars
        => (status = "DELETING" => status' \in {"DELETING", "GONE"})
  BY SerialDeletionStep DEF DeletionStep
<1> QED BY <1>1, SerialAlways, PTL DEF Spec, DeletingIsFinal

\* ... and no other video does: no worker deletes what nobody asked to delete,
\* not even one that was overtaken half way.
THEOREM RemovalWasRequested ==
  ASSUME OneRequestAtATime PROVE Spec => OnlyDeletingIsRemoved
<1>1. SerialInv /\ [Next]_vars => (status' = "GONE" => status \in {"DELETING", "GONE"})
  BY SerialDeletionStep DEF DeletionStep
<1> QED BY <1>1, SerialAlways, PTL DEF Spec, OnlyDeletingIsRemoved

\* Outputs go only while the video is being deleted, READY comes only with them.
LEMMA ReadyStep ==
  ASSUME OneRequestAtATime, SerialInv, ReadyHasOutputs, [Next]_vars
  PROVE  ReadyHasOutputs'
<1> USE DEF ReadyHasOutputs
<1>1. ASSUME NEW h \in Handlers,
             \/ HandlerStarts(h) \/ HandlerGoesOn(h)
             \/ PublishFails(h) \/ PublishTwice(h) \/ RequestDies(h)
      PROVE  ReadyHasOutputs'
  BY <1>1
     DEF SerialInv, RequestIsSafe, HandlerStarts, HandlerGoesOn,
         CreateVideo, CompleteRead, DeleteRead, RetryRead, CompleteWrite, DeleteWrite,
         RetryWrite, WriteBack, StatusToWrite, DeleteOversized, DeleteFindsNothing, Publish,
         RestoreStatus, RestoreFailure, PublishFails, PublishTwice,
         RequestDies, rowVars, dataVars
<1>2. ASSUME NEW w \in Workers,
             \/ WorkerGoesOn(w) \/ StageFails(w) \/ Abandon(w)
             \/ \E m \in Messages : Receive(w, m)
      PROVE  ReadyHasOutputs'
  <2>1. CASE ClaimProcessing(w) BY <1>2, <2>1 DEF ClaimProcessing, SameRow, dataVars
  <2>2. CASE PersistResults(w) BY <1>2, <2>2 DEF PersistResults, SameRow
  <2>3. CASE SetFailed(w) BY <1>2, <2>3 DEF SetFailed, dataVars
  <2>4. CASE DeleteArtifacts(w)
    BY <1>2, <2>4 DEF DeleteArtifacts, SerialInv, WorkerIsSafe, Deletion, Doomed, SameRow
  <2>5. CASE ~(ClaimProcessing(w) \/ PersistResults(w) \/ SetFailed(w) \/ DeleteArtifacts(w))
    <3>1. status' \in {status, "GONE"} /\ outputs' = outputs
      BY <1>2, <2>5
         DEF WorkerGoesOn, Proceed, Remove, SameRow, rowVars, dataVars, Load,
             RecheckAfterLostClaim, TouchProcessing, CheckDeleting, Download,
             UploadAudio, RecordAudio, EnsureTranscript, LoadReleaseTarget,
             UploadKeyframe, RecordKeyframe, Embed, ReleaseClaim, FindVideo,
             DeferIfClaimed, ListStoragePaths, DeleteObjects, HardDelete, Ack,
             StageFails, Abandon, Receive
    <3> QED BY <3>1
  <2> QED BY <2>1, <2>2, <2>3, <2>4, <2>5
<1>3. CASE \/ \E m \in Messages : Redeliver(m)
           \/ ClientUpload \/ ClaimGoesStale \/ Cutover \/ UNCHANGED vars
  BY <1>3 DEF Redeliver, ClientUpload, ClaimGoesStale, Cutover, rowVars, dataVars, vars
<1> QED BY <1>1, <1>2, <1>3 DEF Next

\* When requests do not overlap, a READY video can be searched: not even a
\* zombie worker, a crash or a delete in progress shows READY without outputs.
THEOREM ReadyIsSearchable ==
  ASSUME OneRequestAtATime PROVE Spec => []ReadyHasOutputs
<1>1. Init => ReadyHasOutputs BY DEF Init, ReadyHasOutputs
<1>2. SerialInv /\ ReadyHasOutputs /\ [Next]_vars => ReadyHasOutputs' BY ReadyStep
<1> QED BY <1>1, <1>2, SerialAlways, PTL DEF Spec

-----------------------------------------------------------------------------
(* One processor at a time.                                                *)
(*                                                                         *)
(* Further needed: no claim ages out under a live worker, and no video is  *)
(* both retried and completed (a PENDING video that complete has read may  *)
(* otherwise be claimed before complete writes UPLOADED over PROCESSING).  *)

ClaimsOutliveWork ==
  /\ ~ZombieClaims
  /\ "complete" \notin Operations \/ "retry" \notin Operations

\* Whoever holds the video has a fresh claim on it, until it is deleted.
HolderHasClaim(w) ==
  pc[w] \in Holding =>
    Doomed \/ (status \in {"PROCESSING", "READY"} /\ claim = "fresh")

\* A status read by complete or retry is still the status when they write.
ReadIsCurrent(h) ==
  /\ hpc[h] = "completeWrite" =>
       /\ status = "PENDING" /\ saved[h] = "PENDING"
       /\ inputType = "LOCAL_FILE" /\ "complete" \in Operations
  /\ hpc[h] = "retryWrite" => status = "FAILED" /\ "retry" \in Operations

\* Before complete publishes it, nobody has heard of a LOCAL_FILE video.
UploadIsUnannounced ==
  inputType = "LOCAL_FILE" /\ status = "PENDING" /\ "retry" \notin Operations =>
    /\ \A m \in Messages : queue[m].state = "unsent"
    /\ \A w \in Workers : pc[w] = "idle"
    /\ \A h \in Handlers : hpc[h] # "publish"

ExclusionInv ==
  /\ AtMostOneProcessor
  /\ \A w \in Workers : HolderHasClaim(w)
  /\ \A h \in Handlers : ReadIsCurrent(h)
  /\ UploadIsUnannounced

\* What a request does never makes a claimed video claimable.
LEMMA ExclusionHandlerStep ==
  ASSUME OneRequestAtATime, ClaimsOutliveWork, SerialInv, ExclusionInv, NEW h \in Handlers,
         \/ HandlerStarts(h) \/ HandlerGoesOn(h)
         \/ PublishFails(h) \/ PublishTwice(h) \/ RequestDies(h)
  PROVE  ExclusionInv'
<1> USE DEF ExclusionInv, SerialInv, TypeOK, OneRequestAtATime, ClaimsOutliveWork,
            RequestIsSafe, AtMostOneProcessor, HolderHasClaim, ReadIsCurrent,
            UploadIsUnannounced, Doomed, RowExists, EndRequest, Begin, Handle,
            dataVars, rowVars, workerVars, handlerVars, boundVars
<1>1. CASE CreateVideo(h) BY <1>1 DEF CreateVideo, MessageIsSafe, WorkerIsSafe, Holding, Pipeline
<1>2. CASE CompleteRead(h) BY <1>2 DEF CompleteRead
<1>3. CASE DeleteRead(h) BY <1>3 DEF DeleteRead
<1>4. CASE RetryRead(h) BY <1>4 DEF RetryRead
<1>5. CASE CompleteWrite(h) BY <1>5 DEF CompleteWrite, WriteBack, StatusToWrite
<1>6. CASE DeleteWrite(h) BY <1>6 DEF DeleteWrite, WriteBack, StatusToWrite
<1>7. CASE RetryWrite(h) BY <1>7 DEF RetryWrite, WriteBack, StatusToWrite
<1>8. CASE DeleteOversized(h) BY <1>8 DEF DeleteOversized
<1>9. CASE DeleteFindsNothing(h) BY <1>9 DEF DeleteFindsNothing
<1>10. CASE Publish(h) BY <1>10 DEF Publish, Send, KindOf
<1>11. CASE RestoreStatus(h) BY <1>11 DEF RestoreStatus
<1>12. CASE RestoreFailure(h) BY <1>12 DEF RestoreFailure
<1>13. CASE PublishFails(h) BY <1>13 DEF PublishFails
<1>14. CASE PublishTwice(h) BY <1>14 DEF PublishTwice, MayStart
<1>15. CASE RequestDies(h) BY <1>15 DEF RequestDies
<1> HIDE DEF ExclusionInv
<1> QED
  BY <1>1, <1>2, <1>3, <1>4, <1>5, <1>6, <1>7, <1>8, <1>9, <1>10, <1>11, <1>12,
     <1>13, <1>14, <1>15 DEF HandlerStarts, HandlerGoesOn

\* Nor does a step of a worker: it gives its claim up before it lets go.
LEMMA ExclusionWorkerStep ==
  ASSUME ClaimsOutliveWork, SerialInv, ExclusionInv, NEW w \in Workers,
         \/ WorkerGoesOn(w) \/ StageFails(w) \/ Abandon(w)
         \/ \E m \in Messages : Receive(w, m)
  PROVE  ExclusionInv'
<1> USE PipelineNames
        DEF ExclusionInv, SerialInv, TypeOK, ClaimsOutliveWork, WorkerIsSafe, MessageIsSafe,
            AtMostOneProcessor, HolderHasClaim, ReadIsCurrent, UploadIsUnannounced,
            Holding, Deletion, Doomed, RowExists, Goto, Keep, DropJob, Same, SameRow,
            AssertNotDeleting, dataVars, rowVars, workerVars, handlerVars, boundVars
<1>1. CASE Load(w) BY <1>1 DEF Load
<1>2. CASE ClaimProcessing(w) BY <1>2 DEF ClaimProcessing, Claimable
<1>3. CASE RecheckAfterLostClaim(w) BY <1>3 DEF RecheckAfterLostClaim
<1>4. CASE TouchProcessing(w) BY <1>4 DEF TouchProcessing
<1>5. CASE CheckDeleting(w)
  <2>1. local[w].next \in Pipeline BY LocalFields
  <2> QED BY <1>5, <2>1 DEF CheckDeleting
<1>6. CASE Download(w) BY <1>6 DEF Download
<1>7. CASE UploadAudio(w) BY <1>7 DEF UploadAudio
<1>8. CASE RecordAudio(w) BY <1>8 DEF RecordAudio
<1>9. CASE EnsureTranscript(w) BY <1>9 DEF EnsureTranscript
<1>10. CASE LoadReleaseTarget(w) BY <1>10 DEF LoadReleaseTarget
<1>11. CASE UploadKeyframe(w) BY <1>11 DEF UploadKeyframe
<1>12. CASE RecordKeyframe(w) BY <1>12 DEF RecordKeyframe
<1>13. CASE Embed(w) BY <1>13 DEF Embed
<1>14. CASE PersistResults(w) BY <1>14 DEF PersistResults
<1>15. CASE SetFailed(w) BY <1>15 DEF SetFailed
<1>16. CASE ReleaseClaim(w) BY <1>16 DEF ReleaseClaim
<1>17. CASE FindVideo(w) BY <1>17 DEF FindVideo
<1>18. CASE DeferIfClaimed(w) BY <1>18 DEF DeferIfClaimed
<1>19. CASE ListStoragePaths(w) BY <1>19 DEF ListStoragePaths
<1>20. CASE DeleteObjects(w) BY <1>20 DEF DeleteObjects
<1>21. CASE DeleteArtifacts(w) BY <1>21 DEF DeleteArtifacts
<1>22. CASE HardDelete(w) BY <1>22 DEF HardDelete
<1>23. CASE Ack(w) BY <1>23 DEF Ack
<1>24. CASE StageFails(w) BY <1>24 DEF StageFails
<1>25. CASE Abandon(w) BY <1>25 DEF Abandon
<1>26. CASE \E m \in Messages : Receive(w, m) BY <1>26 DEF Receive
<1> HIDE PipelineNames DEF ExclusionInv
<1> QED
  BY <1>1, <1>2, <1>3, <1>4, <1>5, <1>6, <1>7, <1>8, <1>9, <1>10, <1>11, <1>12,
     <1>13, <1>14, <1>15, <1>16, <1>17, <1>18, <1>19, <1>20, <1>21, <1>22, <1>23,
     <1>24, <1>25, <1>26 DEF WorkerGoesOn, Proceed, Remove

\* Every step of the system keeps ExclusionInv.
LEMMA ExclusionNext ==
  ASSUME OneRequestAtATime, ClaimsOutliveWork, SerialInv, ExclusionInv, [Next]_vars
  PROVE  ExclusionInv'
<1>1. CASE \E h \in Handlers : \/ HandlerStarts(h) \/ HandlerGoesOn(h)
                               \/ PublishFails(h) \/ PublishTwice(h) \/ RequestDies(h)
  BY <1>1, ExclusionHandlerStep
<1>2. CASE \E w \in Workers : \/ WorkerGoesOn(w) \/ StageFails(w) \/ Abandon(w)
                              \/ \E m \in Messages : Receive(w, m)
  BY <1>2, ExclusionWorkerStep
<1> USE DEF ExclusionInv, SerialInv, TypeOK, ClaimsOutliveWork, AtMostOneProcessor,
            HolderHasClaim, ReadIsCurrent, UploadIsUnannounced, Doomed, RowExists,
            rowVars, dataVars, workerVars, handlerVars, boundVars
<1>3. CASE \E m \in Messages : Redeliver(m) BY <1>3 DEF Redeliver
<1>4. CASE ClientUpload BY <1>4 DEF ClientUpload
<1>5. CASE ClaimGoesStale BY <1>5 DEF ClaimGoesStale
<1>6. CASE Cutover BY <1>6 DEF Cutover
<1>7. CASE UNCHANGED vars BY <1>7 DEF vars
<1> HIDE DEF ExclusionInv
<1> QED BY <1>1, <1>2, <1>3, <1>4, <1>5, <1>6, <1>7 DEF Next

\* Nobody holds a claim at the start.
LEMMA ExclusionInit == Init => ExclusionInv
BY DEF Init, ExclusionInv, AtMostOneProcessor, HolderHasClaim, ReadIsCurrent,
       UploadIsUnannounced, Holding, Pipeline

\* claim_processing lets one consumer loop at a time run the pipeline for a
\* video, however its messages are redelivered and whatever crashes - as long as
\* claims outlive the work and complete and retry cannot overtake a claim.
THEOREM OneProcessor ==
  ASSUME OneRequestAtATime, ClaimsOutliveWork PROVE Spec => []AtMostOneProcessor
<1>1. Init => ExclusionInv BY ExclusionInit
<1>2. SerialInv /\ ExclusionInv /\ [Next]_vars => ExclusionInv' BY ExclusionNext
<1>3. ExclusionInv => AtMostOneProcessor BY DEF ExclusionInv
<1> QED BY <1>1, <1>2, <1>3, SerialAlways, PTL DEF Spec

-----------------------------------------------------------------------------
(* Deletion, object by object.                                             *)

\* The steps of a deletion once it found no fresh claim.
Removal == {"delList", "delBlobs", "delRows", "delVideo"}

\* A holder's claim stays fresh even while the video is DELETING, so that a
\* deletion is deferred until the holder lets go.
HolderIsCurrent(w) ==
  pc[w] \in Holding =>
    claim = "fresh" /\ status \in {"PROCESSING", "READY", "DELETING"}

\* Nobody writes rows or objects under a deletion: the paths it listed are
\* still all there are, and once they are deleted no row points to an object.
RemovalIsAlone(w) ==
  /\ pc[w] \in Removal => \A v \in Workers : pc[v] \notin Holding
  /\ pc[w] = "delBlobs" => assets \subseteq local[w].paths
  /\ pc[w] = "delRows" => assets \intersect blobs = {}

RemovalInv == \A w \in Workers : HolderIsCurrent(w) /\ RemovalIsAlone(w)

\* A request neither ends a claim nor touches rows or derived objects.
LEMMA RemovalHandlerStep ==
  ASSUME OneRequestAtATime, ClaimsOutliveWork, SerialInv, ExclusionInv, RemovalInv,
         NEW h \in Handlers,
         \/ HandlerStarts(h) \/ HandlerGoesOn(h)
         \/ PublishFails(h) \/ PublishTwice(h) \/ RequestDies(h)
  PROVE  RemovalInv'
<1> USE DEF RemovalInv, HolderIsCurrent, RemovalIsAlone, ExclusionInv, SerialInv, TypeOK,
            OneRequestAtATime, RequestIsSafe, WorkerIsSafe, ReadIsCurrent, Doomed, RowExists,
            EndRequest, Begin, Handle, dataVars, rowVars, workerVars, handlerVars, boundVars
<1>1. CASE CreateVideo(h) BY <1>1 DEF CreateVideo, Holding, Pipeline
<1>2. CASE CompleteRead(h) BY <1>2 DEF CompleteRead
<1>3. CASE DeleteRead(h) BY <1>3 DEF DeleteRead
<1>4. CASE RetryRead(h) BY <1>4 DEF RetryRead
<1>5. CASE CompleteWrite(h) BY <1>5 DEF CompleteWrite, WriteBack, StatusToWrite
<1>6. CASE DeleteWrite(h) BY <1>6 DEF DeleteWrite, WriteBack, StatusToWrite
<1>7. CASE RetryWrite(h) BY <1>7 DEF RetryWrite, WriteBack, StatusToWrite
<1>8. CASE DeleteOversized(h) BY <1>8 DEF DeleteOversized
<1>9. CASE DeleteFindsNothing(h) BY <1>9 DEF DeleteFindsNothing
<1>10. CASE Publish(h) BY <1>10 DEF Publish
<1>11. CASE RestoreStatus(h) BY <1>11 DEF RestoreStatus
<1>12. CASE RestoreFailure(h) BY <1>12 DEF RestoreFailure
<1>13. CASE PublishFails(h) BY <1>13 DEF PublishFails
<1>14. CASE PublishTwice(h) BY <1>14 DEF PublishTwice
<1>15. CASE RequestDies(h) BY <1>15 DEF RequestDies
<1> HIDE DEF RemovalInv
<1> QED
  BY <1>1, <1>2, <1>3, <1>4, <1>5, <1>6, <1>7, <1>8, <1>9, <1>10, <1>11, <1>12,
     <1>13, <1>14, <1>15 DEF HandlerStarts, HandlerGoesOn

\* A worker claims no doomed video, and deletes only what it listed.
LEMMA RemovalWorkerStep ==
  ASSUME ClaimsOutliveWork, SerialInv, ExclusionInv, RemovalInv, NEW w \in Workers,
         \/ WorkerGoesOn(w) \/ StageFails(w) \/ Abandon(w)
         \/ \E m \in Messages : Receive(w, m)
  PROVE  RemovalInv'
<1> USE PipelineNames
        DEF RemovalInv, HolderIsCurrent, RemovalIsAlone, Removal, ExclusionInv,
            AtMostOneProcessor, SerialInv, TypeOK, WorkerIsSafe, Holding, Deletion, Doomed,
            RowExists, Goto, Keep, DropJob, Same, SameRow, AssertNotDeleting,
            dataVars, rowVars, workerVars, handlerVars, boundVars
<1>1. CASE Load(w) BY <1>1 DEF Load
<1>2. CASE ClaimProcessing(w) BY <1>2 DEF ClaimProcessing, Claimable
<1>3. CASE RecheckAfterLostClaim(w) BY <1>3 DEF RecheckAfterLostClaim
<1>4. CASE TouchProcessing(w) BY <1>4 DEF TouchProcessing
<1>5. CASE CheckDeleting(w)
  <2>1. local[w].next \in Pipeline BY LocalFields
  <2> QED BY <1>5, <2>1 DEF CheckDeleting
<1>6. CASE Download(w) BY <1>6 DEF Download
<1>7. CASE UploadAudio(w) BY <1>7 DEF UploadAudio
<1>8. CASE RecordAudio(w) BY <1>8 DEF RecordAudio
<1>9. CASE EnsureTranscript(w) BY <1>9 DEF EnsureTranscript
<1>10. CASE LoadReleaseTarget(w) BY <1>10 DEF LoadReleaseTarget
<1>11. CASE UploadKeyframe(w) BY <1>11 DEF UploadKeyframe
<1>12. CASE RecordKeyframe(w) BY <1>12 DEF RecordKeyframe
<1>13. CASE Embed(w) BY <1>13 DEF Embed
<1>14. CASE PersistResults(w) BY <1>14 DEF PersistResults
<1>15. CASE SetFailed(w) BY <1>15 DEF SetFailed
<1>16. CASE ReleaseClaim(w) BY <1>16 DEF ReleaseClaim
<1>17. CASE FindVideo(w) BY <1>17 DEF FindVideo
<1>18. CASE DeferIfClaimed(w) BY <1>18 DEF DeferIfClaimed
<1>19. CASE ListStoragePaths(w)
  <2>1. local' = [local EXCEPT ![w] = [local[w] EXCEPT !.paths = assets \union {"source"}]]
    BY <1>19 DEF ListStoragePaths
  <2>2. local'[w].paths = assets \union {"source"} BY <2>1 DEF Locals
  <2> QED BY <1>19, <2>1, <2>2 DEF ListStoragePaths
<1>20. CASE DeleteObjects(w) BY <1>20 DEF DeleteObjects
<1>21. CASE DeleteArtifacts(w) BY <1>21 DEF DeleteArtifacts
<1>22. CASE HardDelete(w) BY <1>22 DEF HardDelete
<1>23. CASE Ack(w) BY <1>23 DEF Ack
<1>24. CASE StageFails(w) BY <1>24 DEF StageFails
<1>25. CASE Abandon(w) BY <1>25 DEF Abandon
<1>26. CASE \E m \in Messages : Receive(w, m) BY <1>26 DEF Receive
<1> HIDE PipelineNames DEF RemovalInv
<1> QED
  BY <1>1, <1>2, <1>3, <1>4, <1>5, <1>6, <1>7, <1>8, <1>9, <1>10, <1>11, <1>12,
     <1>13, <1>14, <1>15, <1>16, <1>17, <1>18, <1>19, <1>20, <1>21, <1>22, <1>23,
     <1>24, <1>25, <1>26 DEF WorkerGoesOn, Proceed, Remove

\* Every step keeps RemovalInv.
LEMMA RemovalNext ==
  ASSUME OneRequestAtATime, ClaimsOutliveWork, SerialInv, ExclusionInv, RemovalInv, [Next]_vars
  PROVE  RemovalInv'
<1>1. CASE \E h \in Handlers : \/ HandlerStarts(h) \/ HandlerGoesOn(h)
                               \/ PublishFails(h) \/ PublishTwice(h) \/ RequestDies(h)
  BY <1>1, RemovalHandlerStep
<1>2. CASE \E w \in Workers : \/ WorkerGoesOn(w) \/ StageFails(w) \/ Abandon(w)
                              \/ \E m \in Messages : Receive(w, m)
  BY <1>2, RemovalWorkerStep
<1> USE DEF RemovalInv, HolderIsCurrent, RemovalIsAlone, SerialInv, TypeOK, ClaimsOutliveWork,
            Derived, rowVars, dataVars, workerVars, handlerVars, boundVars
<1>3. CASE \E m \in Messages : Redeliver(m) BY <1>3 DEF Redeliver
<1>4. CASE ClientUpload BY <1>4 DEF ClientUpload
<1>5. CASE ClaimGoesStale BY <1>5 DEF ClaimGoesStale
<1>6. CASE Cutover BY <1>6 DEF Cutover
<1>7. CASE UNCHANGED vars BY <1>7 DEF vars
<1> HIDE DEF RemovalInv
<1> QED BY <1>1, <1>2, <1>3, <1>4, <1>5, <1>6, <1>7 DEF Next

\* Only a deletion drops asset rows, and it has deleted their objects.
LEMMA AssetStep ==
  ASSUME RemovalInv, [Next]_vars
  PROVE  \A a \in assets \ assets' : a \notin blobs
<1>1. CASE \E w \in Workers : DeleteArtifacts(w)
  BY <1>1 DEF DeleteArtifacts, RemovalInv, RemovalIsAlone
<1>2. ASSUME NEW w \in Workers, WorkerGoesOn(w), ~DeleteArtifacts(w)
      PROVE  assets \subseteq assets'
  BY <1>2 DEF WorkerGoesOn, Proceed, Remove, dataVars, Load, ClaimProcessing,
              RecheckAfterLostClaim, TouchProcessing, CheckDeleting, Download, UploadAudio,
              RecordAudio, EnsureTranscript, LoadReleaseTarget, UploadKeyframe,
              RecordKeyframe, Embed, PersistResults, SetFailed, ReleaseClaim, FindVideo,
              DeferIfClaimed, ListStoragePaths, DeleteObjects, HardDelete, Ack
<1>3. ASSUME \/ \E h \in Handlers : \/ HandlerStarts(h) \/ HandlerGoesOn(h)
                                    \/ PublishFails(h) \/ PublishTwice(h) \/ RequestDies(h)
             \/ \E w \in Workers : \/ StageFails(w) \/ Abandon(w)
                                   \/ \E m \in Messages : Receive(w, m)
             \/ \E m \in Messages : Redeliver(m)
             \/ ClientUpload \/ ClaimGoesStale \/ Cutover \/ UNCHANGED vars
      PROVE  assets' = assets
  BY <1>3 DEF HandlerStarts, HandlerGoesOn, CreateVideo, CompleteRead, DeleteRead, RetryRead,
              CompleteWrite, DeleteWrite, RetryWrite, WriteBack, DeleteOversized,
              DeleteFindsNothing, Publish, RestoreStatus, RestoreFailure, PublishFails,
              PublishTwice, RequestDies, StageFails, Abandon, Receive, Redeliver,
              ClientUpload, ClaimGoesStale, Cutover, dataVars, vars
<1> QED BY <1>1, <1>2, <1>3 DEF Next

\* RemovalInv and what it rests on hold throughout.
LEMMA HolderAlways ==
  ASSUME OneRequestAtATime, ClaimsOutliveWork
  PROVE  Spec => [](SerialInv /\ ExclusionInv /\ RemovalInv)
<1>1. Init => ExclusionInv /\ RemovalInv
  BY ExclusionInit
     DEF Init, RemovalInv, HolderIsCurrent, RemovalIsAlone, Removal, Holding, Pipeline
<1>2. SerialInv /\ ExclusionInv /\ RemovalInv /\ [Next]_vars => ExclusionInv' /\ RemovalInv'
  BY ExclusionNext, RemovalNext
<1> QED BY <1>1, <1>2, SerialAlways, PTL DEF Spec

\* Whatever is redelivered, crashes or is deferred, a deletion leaves no object
\* behind that a row still pointed to.
THEOREM NoObjectIsLost ==
  ASSUME OneRequestAtATime, ClaimsOutliveWork PROVE Spec => RowsOutliveObjects
<1>1. RemovalInv /\ [Next]_vars => \A a \in assets \ assets' : a \notin blobs
  BY AssetStep
<1> QED BY <1>1, HolderAlways, PTL DEF Spec, RowsOutliveObjects

-----------------------------------------------------------------------------
(* The contract with the client.                                           *)
(*                                                                         *)
(* Further needed: no cutover to a model the worker's settings do not      *)
(* name.  After one, a READY video is processed again, and fails as READY. *)

SettingsAreCurrent == Models = {SettingsModel}

\* Nobody processes a READY video, so whoever holds the video sees PROCESSING
\* until it is deleted.
ContractInv ==
  /\ \A w \in Workers : ~local[w].keepReady
  /\ \A w \in Workers : pc[w] \in Holding => status \in {"PROCESSING", "DELETING"}

\* keepReady survives the assignments of other locals.
LEMMA KeepReadyField ==
  ASSUME NEW l \in Locals
  PROVE  /\ \A s : [l EXCEPT !.next = s].keepReady = l.keepReady
         /\ \A m, s : [l EXCEPT !.target = m, !.next = s].keepReady = l.keepReady
         /\ \A P : [l EXCEPT !.paths = P].keepReady = l.keepReady
BY DEF Locals

\* A task starts without it, and reads it from the row.
LEMMA KeepReadyAtStart ==
  /\ ~NoLocals.keepReady
  /\ \A a, b, c : [NoLocals EXCEPT !.keepReady = a, !.hasAudio = b,
                                    !.hasTranscript = c].keepReady = a
BY DEF NoLocals

\* A video that is READY has the outputs of the only model there is.
LEMMA ReadyIsCurrent ==
  ASSUME SettingsAreCurrent, TypeOK, ReadyHasOutputs, status = "READY"
  PROVE  SettingsModel \in outputs
BY DEF SettingsAreCurrent, TypeOK, ReadyHasOutputs

\* No task sets out to keep a video READY.
LEMMA KeepReadyStep ==
  ASSUME SettingsAreCurrent, TypeOK, ReadyHasOutputs, NEW w \in Workers,
         \A v \in Workers : ~local[v].keepReady,
         \/ WorkerGoesOn(w) \/ StageFails(w) \/ Abandon(w)
         \/ \E m \in Messages : Receive(w, m)
  PROVE  \A v \in Workers : ~local'[v].keepReady
<1>1. local \in [Workers -> Locals] BY DEF TypeOK
<1>2. ASSUME NEW l, local' = [local EXCEPT ![w] = l], ~l.keepReady
      PROVE  \A v \in Workers : ~local'[v].keepReady
  BY <1>1, <1>2
<1>3. CASE Load(w)
  <2>1. CASE local' = local BY <2>1
  <2>2. CASE local' # local
    <3>1. status # "READY" BY <1>3, <2>2, ReadyIsCurrent DEF Load, Keep
    <3>2. local' = [local EXCEPT ![w] =
                     [NoLocals EXCEPT !.keepReady = (status = "READY"),
                                      !.hasAudio = ("audio" \in assets),
                                      !.hasTranscript = transcript]]
      BY <1>3, <2>2 DEF Load, Keep
    <3> QED BY <1>2, <3>1, <3>2, KeepReadyAtStart
  <2> QED BY <2>1, <2>2
<1>4. ASSUME NEW s, AssertNotDeleting(w, s)
      PROVE  \A v \in Workers : ~local'[v].keepReady
  <2>1. local' = [local EXCEPT ![w] = [local[w] EXCEPT !.next = s]]
    BY <1>4 DEF AssertNotDeleting
  <2> QED BY <1>1, <1>2, <2>1, KeepReadyField
<1>5. CASE LoadReleaseTarget(w)
  <2>1. local' = [local EXCEPT ![w] = [local[w] EXCEPT !.target = activeModel,
                                                       !.next = "keyframe"]]
    BY <1>5 DEF LoadReleaseTarget
  <2> QED BY <1>1, <1>2, <2>1, KeepReadyField
<1>6. CASE ListStoragePaths(w)
  <2>1. local' = [local EXCEPT ![w] = [local[w] EXCEPT !.paths = assets \union {"source"}]]
    BY <1>6 DEF ListStoragePaths
  <2> QED BY <1>1, <1>2, <2>1, KeepReadyField
<1>7. CASE DropJob(w) BY <1>2, <1>7, KeepReadyAtStart DEF DropJob
<1>8. ASSUME ~Load(w), ~LoadReleaseTarget(w), ~ListStoragePaths(w), ~DropJob(w),
             \A s : ~AssertNotDeleting(w, s)
      PROVE  local' = local
  BY <1>8 DEF WorkerGoesOn, Proceed, Remove, ClaimProcessing, RecheckAfterLostClaim,
              TouchProcessing, CheckDeleting, Download, UploadAudio, RecordAudio,
              EnsureTranscript, UploadKeyframe, RecordKeyframe, Embed, PersistResults,
              SetFailed, ReleaseClaim, FindVideo, DeferIfClaimed, DeleteObjects,
              DeleteArtifacts, HardDelete, Ack, StageFails, Abandon, Receive, Keep
<1> QED BY <1>3, <1>4, <1>5, <1>6, <1>7, <1>8

\* A worker's step is a step of the contract or leaves the status alone.
LEMMA ContractWorkerStep ==
  ASSUME SerialInv, RemovalInv, ContractInv, ExclusionInv, NEW w \in Workers,
         \/ WorkerGoesOn(w) \/ StageFails(w) \/ Abandon(w)
         \/ \E m \in Messages : Receive(w, m)
  PROVE  /\ \A v \in Workers : pc'[v] \in Holding => status' \in {"PROCESSING", "DELETING"}
         /\ Contract!Next \/ UNCHANGED status
<1> USE PipelineNames
        DEF ContractInv, RemovalInv, HolderIsCurrent, RemovalIsAlone, Removal, ExclusionInv,
            AtMostOneProcessor, SerialInv, TypeOK, WorkerIsSafe, Holding, Deletion, Doomed,
            RowExists, Goto, Keep, DropJob, Same, SameRow, AssertNotDeleting,
            dataVars, rowVars, workerVars, handlerVars, boundVars
<1>1. CASE Load(w) BY <1>1 DEF Load
<1>2. CASE ClaimProcessing(w)
  BY <1>2 DEF ClaimProcessing, Claimable, Contract!Next, Contract!Claim, Contract!Step
<1>3. CASE RecheckAfterLostClaim(w) BY <1>3 DEF RecheckAfterLostClaim
<1>4. CASE TouchProcessing(w) BY <1>4 DEF TouchProcessing
<1>5. CASE CheckDeleting(w)
  <2>1. local[w].next \in Pipeline BY LocalFields
  <2> QED BY <1>5, <2>1 DEF CheckDeleting
<1>6. CASE Download(w) BY <1>6 DEF Download
<1>7. CASE UploadAudio(w) BY <1>7 DEF UploadAudio
<1>8. CASE RecordAudio(w) BY <1>8 DEF RecordAudio
<1>9. CASE EnsureTranscript(w) BY <1>9 DEF EnsureTranscript
<1>10. CASE LoadReleaseTarget(w) BY <1>10 DEF LoadReleaseTarget
<1>11. CASE UploadKeyframe(w) BY <1>11 DEF UploadKeyframe
<1>12. CASE RecordKeyframe(w) BY <1>12 DEF RecordKeyframe
<1>13. CASE Embed(w) BY <1>13 DEF Embed
<1>14. CASE PersistResults(w)
  BY <1>14 DEF PersistResults, Contract!Next, Contract!Succeed, Contract!Step
<1>15. CASE SetFailed(w)
  BY <1>15 DEF SetFailed, Contract!Next, Contract!Fail, Contract!Step
<1>16. CASE ReleaseClaim(w) BY <1>16 DEF ReleaseClaim
<1>17. CASE FindVideo(w) BY <1>17 DEF FindVideo
<1>18. CASE DeferIfClaimed(w) BY <1>18 DEF DeferIfClaimed
<1>19. CASE ListStoragePaths(w) BY <1>19 DEF ListStoragePaths
<1>20. CASE DeleteObjects(w) BY <1>20 DEF DeleteObjects
<1>21. CASE DeleteArtifacts(w) BY <1>21 DEF DeleteArtifacts
<1>22. CASE HardDelete(w)
  BY <1>22 DEF HardDelete, Contract!Next, Contract!Remove, Contract!Step
<1>23. CASE Ack(w) BY <1>23 DEF Ack
<1>24. CASE StageFails(w) BY <1>24 DEF StageFails
<1>25. CASE Abandon(w) BY <1>25 DEF Abandon
<1>26. CASE \E m \in Messages : Receive(w, m) BY <1>26 DEF Receive
<1> HIDE PipelineNames DEF ContractInv
<1> QED
  BY <1>1, <1>2, <1>3, <1>4, <1>5, <1>6, <1>7, <1>8, <1>9, <1>10, <1>11, <1>12,
     <1>13, <1>14, <1>15, <1>16, <1>17, <1>18, <1>19, <1>20, <1>21, <1>22, <1>23,
     <1>24, <1>25, <1>26 DEF WorkerGoesOn, Proceed, Remove

\* So is a request's: what it read is still so when it writes.
LEMMA ContractHandlerStep ==
  ASSUME OneRequestAtATime, ClaimsOutliveWork, SerialInv, ExclusionInv, RemovalInv, ContractInv,
         NEW h \in Handlers,
         \/ HandlerStarts(h) \/ HandlerGoesOn(h)
         \/ PublishFails(h) \/ PublishTwice(h) \/ RequestDies(h)
  PROVE  ContractInv' /\ (Contract!Next \/ UNCHANGED status)
<1> USE DEF ContractInv, RemovalInv, HolderIsCurrent, ExclusionInv, SerialInv, TypeOK, Statuses,
            OneRequestAtATime, RequestIsSafe, WorkerIsSafe, ReadIsCurrent, Doomed, RowExists,
            EndRequest, Begin, Handle, dataVars, rowVars, workerVars, handlerVars, boundVars
<1>1. CASE CreateVideo(h)
  BY <1>1 DEF CreateVideo, Holding, Pipeline, Contract!Next, Contract!Accept, Contract!Step
<1>2. CASE CompleteRead(h) BY <1>2 DEF CompleteRead
<1>3. CASE DeleteRead(h) BY <1>3 DEF DeleteRead
<1>4. CASE RetryRead(h) BY <1>4 DEF RetryRead
<1>5. CASE CompleteWrite(h)
  BY <1>5 DEF CompleteWrite, WriteBack, StatusToWrite, Contract!Next, Contract!Complete,
              Contract!Step
<1>6. CASE DeleteWrite(h)
  BY <1>6 DEF DeleteWrite, WriteBack, StatusToWrite, Contract!Next, Contract!Delete,
              Contract!Step, Contract!Existing
<1>7. CASE RetryWrite(h)
  BY <1>7 DEF RetryWrite, WriteBack, StatusToWrite, Contract!Next, Contract!Retry,
              Contract!Step
<1>8. CASE DeleteOversized(h) BY <1>8 DEF DeleteOversized
<1>9. CASE DeleteFindsNothing(h) BY <1>9 DEF DeleteFindsNothing
<1>10. CASE Publish(h) BY <1>10 DEF Publish
<1>11. CASE RestoreStatus(h) BY <1>11 DEF RestoreStatus
<1>12. CASE RestoreFailure(h) BY <1>12 DEF RestoreFailure
<1>13. CASE PublishFails(h) BY <1>13 DEF PublishFails
<1>14. CASE PublishTwice(h) BY <1>14 DEF PublishTwice
<1>15. CASE RequestDies(h) BY <1>15 DEF RequestDies
<1> HIDE DEF ContractInv
<1> QED
  BY <1>1, <1>2, <1>3, <1>4, <1>5, <1>6, <1>7, <1>8, <1>9, <1>10, <1>11, <1>12,
     <1>13, <1>14, <1>15 DEF HandlerStarts, HandlerGoesOn

\* Every step of the system is one of the contract, or leaves the status alone.
LEMMA ContractNext ==
  ASSUME OneRequestAtATime, ClaimsOutliveWork, SettingsAreCurrent, SerialInv, ExclusionInv,
         RemovalInv, ReadyHasOutputs, ContractInv, [Next]_vars
  PROVE  ContractInv' /\ [Contract!Next]_status
<1>1. CASE \E h \in Handlers : \/ HandlerStarts(h) \/ HandlerGoesOn(h)
                               \/ PublishFails(h) \/ PublishTwice(h) \/ RequestDies(h)
  BY <1>1, ContractHandlerStep
<1>2. CASE \E w \in Workers : \/ WorkerGoesOn(w) \/ StageFails(w) \/ Abandon(w)
                              \/ \E m \in Messages : Receive(w, m)
  BY <1>2, ContractWorkerStep, KeepReadyStep DEF ContractInv, SerialInv
<1> USE DEF ContractInv, rowVars, workerVars
<1>3. CASE \E m \in Messages : Redeliver(m) BY <1>3 DEF Redeliver
<1>4. CASE ClientUpload BY <1>4 DEF ClientUpload
<1>5. CASE ClaimGoesStale BY <1>5 DEF ClaimGoesStale
<1>6. CASE Cutover BY <1>6 DEF Cutover
<1>7. CASE UNCHANGED vars BY <1>7 DEF vars
<1> HIDE DEF ContractInv
<1> QED BY <1>1, <1>2, <1>3, <1>4, <1>5, <1>6, <1>7 DEF Next

\* Between them the two services move the status as VideoContract says, and in
\* no other way, through every crash, redelivery and deferred deletion.
THEOREM ContractIsKept ==
  ASSUME OneRequestAtATime, ClaimsOutliveWork, SettingsAreCurrent PROVE Spec => KeepsContract
<1>1. Init => Contract!Init /\ ContractInv
  BY KeepReadyAtStart DEF Init, Contract!Init, ContractInv, Holding, Pipeline
<1>2. SerialInv /\ ExclusionInv /\ RemovalInv /\ ReadyHasOutputs /\ ContractInv /\ [Next]_vars
        => ContractInv' /\ [Contract!Next]_status
  BY ContractNext
<1> QED
  BY <1>1, <1>2, HolderAlways, ReadyIsSearchable, PTL DEF Spec, KeepsContract, Contract!Spec

-----------------------------------------------------------------------------
(* Requests that overlap.                                                  *)
(*                                                                         *)
(* What follows holds for any number of requests at once, with zombie      *)
(* claims, failed publishes and stale writes, while no worker dies half    *)
(* way (a message it held may by then have been archived by another).      *)

NoWorkerDies == \A w \in Workers : ~Abandon(w)

\* A fresh claim belongs to a worker that has not let go yet: whoever leaves
\* the pipeline clears the claim in the same step.
FreshIsHeld == claim = "fresh" => \E w \in Workers : pc[w] \in Holding

\* A write is only undone after a publish that failed.
UndoFollowsFailure == \A h \in Handlers : hpc[h] = "restore" => publishFailures > 0

\* A READY video without outputs has a worker that fills or removes it; one
\* that may not finish the removal, the foreign keys refusing it, is not the
\* only one.
OutputsAreInHand ==
  status = "READY" /\ outputs = {} /\ publishFailures = 0 =>
    \/ \E w \in Workers : pc[w] \in Holding \union (Deletion \ {"delVideo"})
    \/ assets = {} /\ ~transcript /\ \E w \in Workers : pc[w] = "delVideo"

OutputsInv == TypeOK /\ FreshIsHeld /\ UndoFollowsFailure /\ OutputsAreInHand

\* No request makes a video READY but one that undoes a delete.
LEMMA OutputsHandlerStep ==
  ASSUME OutputsInv, TypeOK', NEW h \in Handlers,
         \/ HandlerStarts(h) \/ HandlerGoesOn(h)
         \/ PublishFails(h) \/ PublishTwice(h) \/ RequestDies(h)
  PROVE  OutputsInv'
<1> USE VideoAssumption
        DEF OutputsInv, TypeOK, FreshIsHeld, UndoFollowsFailure, OutputsAreInHand, RowExists,
            EndRequest, Begin, Handle, dataVars, rowVars, workerVars, handlerVars, boundVars
<1>1. CASE CreateVideo(h) BY <1>1 DEF CreateVideo
<1>2. CASE CompleteRead(h) BY <1>2 DEF CompleteRead
<1>3. CASE DeleteRead(h) BY <1>3 DEF DeleteRead
<1>4. CASE RetryRead(h) BY <1>4 DEF RetryRead
<1>5. CASE CompleteWrite(h) BY <1>5 DEF CompleteWrite, WriteBack, StatusToWrite
<1>6. CASE DeleteWrite(h) BY <1>6 DEF DeleteWrite, WriteBack, StatusToWrite
<1>7. CASE RetryWrite(h) BY <1>7 DEF RetryWrite, WriteBack, StatusToWrite
<1>8. CASE DeleteOversized(h) BY <1>8 DEF DeleteOversized
<1>9. CASE DeleteFindsNothing(h) BY <1>9 DEF DeleteFindsNothing
<1>10. CASE Publish(h) BY <1>10 DEF Publish
<1>11. CASE RestoreStatus(h) BY <1>11 DEF RestoreStatus
<1>12. CASE RestoreFailure(h) BY <1>12 DEF RestoreFailure
<1>13. CASE PublishFails(h) BY <1>13 DEF PublishFails
<1>14. CASE PublishTwice(h) BY <1>14 DEF PublishTwice
<1>15. CASE RequestDies(h) BY <1>15 DEF RequestDies
<1> HIDE DEF OutputsInv
<1> QED
  BY <1>1, <1>2, <1>3, <1>4, <1>5, <1>6, <1>7, <1>8, <1>9, <1>10, <1>11, <1>12,
     <1>13, <1>14, <1>15 DEF HandlerStarts, HandlerGoesOn

\* A worker lets go of the claim and of the video's outputs together.
LEMMA OutputsWorkerStep ==
  ASSUME OutputsInv, TypeOK', NEW w \in Workers,
         \/ WorkerGoesOn(w) \/ StageFails(w)
         \/ \E m \in Messages : Receive(w, m)
  PROVE  OutputsInv'
<1> USE PipelineNames
        DEF OutputsInv, TypeOK, FreshIsHeld, UndoFollowsFailure, OutputsAreInHand,
            Holding, Deletion, RowExists, Goto, Keep, DropJob, Same, SameRow,
            AssertNotDeleting, dataVars, rowVars, workerVars, handlerVars, boundVars
<1>1. CASE Load(w) BY <1>1 DEF Load
<1>2. CASE ClaimProcessing(w) BY <1>2 DEF ClaimProcessing
<1>3. CASE RecheckAfterLostClaim(w) BY <1>3 DEF RecheckAfterLostClaim
<1>4. CASE TouchProcessing(w) BY <1>4 DEF TouchProcessing
<1>5. CASE CheckDeleting(w)
  <2>1. local[w].next \in Pipeline BY LocalFields
  <2> QED BY <1>5, <2>1 DEF CheckDeleting
<1>6. CASE Download(w) BY <1>6 DEF Download
<1>7. CASE UploadAudio(w) BY <1>7 DEF UploadAudio
<1>8. CASE RecordAudio(w) BY <1>8 DEF RecordAudio
<1>9. CASE EnsureTranscript(w) BY <1>9 DEF EnsureTranscript
<1>10. CASE LoadReleaseTarget(w) BY <1>10 DEF LoadReleaseTarget
<1>11. CASE UploadKeyframe(w) BY <1>11 DEF UploadKeyframe
<1>12. CASE RecordKeyframe(w) BY <1>12 DEF RecordKeyframe
<1>13. CASE Embed(w) BY <1>13 DEF Embed
<1>14. CASE PersistResults(w) BY <1>14 DEF PersistResults
<1>15. CASE SetFailed(w) BY <1>15 DEF SetFailed
<1>16. CASE ReleaseClaim(w) BY <1>16 DEF ReleaseClaim
<1>17. CASE FindVideo(w) BY <1>17 DEF FindVideo
<1>18. CASE DeferIfClaimed(w) BY <1>18 DEF DeferIfClaimed
<1>19. CASE ListStoragePaths(w) BY <1>19 DEF ListStoragePaths
<1>20. CASE DeleteObjects(w) BY <1>20 DEF DeleteObjects
<1>21. CASE DeleteArtifacts(w) BY <1>21 DEF DeleteArtifacts
<1>22. CASE HardDelete(w) BY <1>22 DEF HardDelete
<1>23. CASE Ack(w) BY <1>23 DEF Ack
<1>24. CASE StageFails(w) BY <1>24 DEF StageFails
<1>26. CASE \E m \in Messages : Receive(w, m) BY <1>26 DEF Receive
<1> HIDE PipelineNames DEF OutputsInv
<1> QED
  BY <1>1, <1>2, <1>3, <1>4, <1>5, <1>6, <1>7, <1>8, <1>9, <1>10, <1>11, <1>12,
     <1>13, <1>14, <1>15, <1>16, <1>17, <1>18, <1>19, <1>20, <1>21, <1>22, <1>23,
     <1>24, <1>26 DEF WorkerGoesOn, Proceed, Remove

\* Every step but a worker's death keeps OutputsInv.
LEMMA OutputsNext ==
  ASSUME OutputsInv, [Next]_vars, [NoWorkerDies]_vars
  PROVE  OutputsInv'
<1>1. TypeOK' BY NextTypes DEF OutputsInv
<1>2. CASE \E h \in Handlers : \/ HandlerStarts(h) \/ HandlerGoesOn(h)
                               \/ PublishFails(h) \/ PublishTwice(h) \/ RequestDies(h)
  BY <1>1, <1>2, OutputsHandlerStep
<1>3. CASE \E w \in Workers : \/ WorkerGoesOn(w) \/ StageFails(w)
                              \/ \E m \in Messages : Receive(w, m)
  BY <1>1, <1>3, OutputsWorkerStep
<1>4. CASE UNCHANGED vars
  BY <1>4 DEF vars, OutputsInv, TypeOK, FreshIsHeld, UndoFollowsFailure, OutputsAreInHand,
              rowVars, dataVars, workerVars, handlerVars, boundVars
<1>5. CASE \/ \E m \in Messages : Redeliver(m)
           \/ ClientUpload \/ ClaimGoesStale \/ Cutover
  BY <1>1, <1>5
     DEF OutputsInv, FreshIsHeld, UndoFollowsFailure, OutputsAreInHand, Redeliver,
         ClientUpload, ClaimGoesStale, Cutover, rowVars, dataVars, workerVars, handlerVars,
         boundVars
<1> QED BY <1>2, <1>3, <1>4, <1>5 DEF Next, NoWorkerDies

\* However requests and workers race, a video is never left READY without
\* outputs - until a publish fails and its undo writes back an old READY.
THEOREM LostOutputsAreInHand ==
  Spec /\ [][NoWorkerDies]_vars => []LostOutputsArePending
<1>1. Init => OutputsInv
  BY InitTypes DEF Init, OutputsInv, FreshIsHeld, UndoFollowsFailure, OutputsAreInHand
<1>2. OutputsInv /\ [Next]_vars /\ [NoWorkerDies]_vars => OutputsInv'
  BY OutputsNext
<1>3. OutputsInv => LostOutputsArePending
  BY DEF OutputsInv, OutputsAreInHand, LostOutputsArePending, Deletion
<1> QED BY <1>1, <1>2, <1>3, PTL DEF Spec

-----------------------------------------------------------------------------
(* A delete is not lost on the way to the queue.                           *)
(*                                                                         *)
(* Workers may die, but not requests, and one publish may fail: of two     *)
(* overlapping deletes that both fail, the later undo writes back the      *)
(* DELETING it read from the earlier.                                      *)

NoRequestDies == \A h \in Handlers : ~RequestDies(h)
OneFailedPublish == MaxPublishFailures <= 1

\* A request that will publish, or undo, a delete.
Promises(h) == hpc[h] = "publish" /\ op[h] = "delete"
Undoes(h) == hpc[h] \in {"restore", "restoreFailure"}

RequestIsTracked(h) ==
  /\ hpc[h] # "idle" => status # "ABSENT"
  /\ hpc[h] \in {"deleteRead", "deleteWrite", "restore"} => op[h] = "delete"
  /\ hpc[h] = "completeWrite" => op[h] = "complete"
  /\ hpc[h] = "retryWrite" => op[h] = "retry"
  /\ hpc[h] \in {"deleteWrite", "restore"} \/ Promises(h) => saved[h] # "ABSENT"
  /\ Undoes(h) => publishFailures > 0 /\ \A g \in Handlers : Undoes(g) => g = h

\* A DELETE_REQUEST is archived only once the row is gone.
MessageIsTracked(m) ==
  /\ queue[m].state # "unsent" => status # "ABSENT"
  /\ queue[m].state = "unsent" => queue[m].kind = "none"
  /\ queue[m].kind = "DELETE_REQUEST" /\ queue[m].state = "archived" => status = "GONE"

\* ... because its worker reaches the acknowledgement only then.
WorkerIsTracked(w) ==
  pc[w] # "idle" =>
    /\ status # "ABSENT"
    /\ job[w] \in Messages /\ queue[job[w]].state # "unsent"
    /\ queue[job[w]].kind = "DELETE_REQUEST" =>
         pc[w] \in Deletion \/ (pc[w] = "ack" /\ status = "GONE")

\* Some request wrote DELETING and has yet to publish or undo it; one that
\* would write back a DELETING it read counts on another.
DeletingIsPromised ==
  status = "DELETING" =>
    DeleteSent \/ \E h \in Handlers : Promises(h) \/ hpc[h] = "restore"
SavedIsPromised(h) ==
  /\ saved[h] = "DELETING"
  /\ \/ hpc[h] = "restore"
     \/ publishFailures = 0 /\ (Promises(h) \/ hpc[h] = "deleteWrite")
  => DeleteSent \/ \E g \in Handlers \ {h} : Promises(g)

TrackedInv ==
  /\ TypeOK
  /\ \A h \in Handlers : RequestIsTracked(h)
  /\ \A m \in Messages : MessageIsTracked(m)
  /\ \A w \in Workers : WorkerIsTracked(w)

PromiseInv == DeletingIsPromised /\ \A h \in Handlers : SavedIsPromised(h)

\* A request keeps the messages and the other requests in order ...
LEMMA TrackedHandlerStep ==
  ASSUME OneFailedPublish, TrackedInv, TypeOK', NEW h \in Handlers,
         \/ HandlerStarts(h) \/ HandlerGoesOn(h)
         \/ PublishFails(h) \/ PublishTwice(h) \/ RequestDies(h)
  PROVE  TrackedInv'
<1> USE VideoAssumption
        DEF OneFailedPublish, TrackedInv, TypeOK, RequestIsTracked, MessageIsTracked,
            WorkerIsTracked, Promises, Undoes, Deletion, RowExists,
            EndRequest, Begin, Handle, dataVars, rowVars, workerVars, handlerVars, boundVars
<1>1. CASE CreateVideo(h) BY <1>1 DEF CreateVideo
<1>2. CASE CompleteRead(h) BY <1>2 DEF CompleteRead
<1>3. CASE DeleteRead(h) BY <1>3 DEF DeleteRead
<1>4. CASE RetryRead(h) BY <1>4 DEF RetryRead
<1>5. CASE CompleteWrite(h) BY <1>5 DEF CompleteWrite, WriteBack, StatusToWrite
<1>6. CASE DeleteWrite(h) BY <1>6 DEF DeleteWrite, WriteBack, StatusToWrite
<1>7. CASE RetryWrite(h) BY <1>7 DEF RetryWrite, WriteBack, StatusToWrite
<1>8. CASE DeleteOversized(h) BY <1>8 DEF DeleteOversized
<1>9. CASE DeleteFindsNothing(h) BY <1>9 DEF DeleteFindsNothing
<1>10. CASE Publish(h) BY <1>10 DEF Publish, Send, KindOf
<1>11. CASE RestoreStatus(h) BY <1>11 DEF RestoreStatus
<1>12. CASE RestoreFailure(h) BY <1>12 DEF RestoreFailure
<1>13. CASE PublishFails(h)
  <2>1. publishFailures = 0 /\ publishFailures' > 0 BY <1>13 DEF PublishFails
  <2>2. \A g \in Handlers : ~Undoes(g) BY <2>1
  <2>3. /\ status' = status /\ pc' = pc /\ job' = job
        /\ \A g \in Handlers \ {h} : /\ hpc'[g] = hpc[g] /\ op'[g] = op[g]
                                     /\ saved'[g] = saved[g]
    BY <1>13 DEF PublishFails
  <2>4. \A g \in Handlers \ {h} : RequestIsTracked(g)' BY <2>2, <2>3
  <2>5. RequestIsTracked(h)'
    <3>1. CASE op[h] = "delete" BY <1>13, <2>1, <2>2, <2>3, <3>1 DEF PublishFails
    <3>2. CASE op[h] = "retry" BY <1>13, <2>1, <2>2, <2>3, <3>2 DEF PublishFails
    <3>3. CASE op[h] \notin {"delete", "retry"} BY <1>13, <2>3, <3>3 DEF PublishFails
    <3> QED BY <3>1, <3>2, <3>3
  <2>6. \A m \in Messages : MessageIsTracked(m)' BY <1>13, <2>3 DEF PublishFails, Send, KindOf
  <2>7. \A w \in Workers : WorkerIsTracked(w)' BY <1>13, <2>3 DEF PublishFails, Send, KindOf
  <2> QED BY <2>4, <2>5, <2>6, <2>7
<1>14. CASE PublishTwice(h) BY <1>14 DEF PublishTwice, Send, KindOf
<1>15. CASE RequestDies(h) BY <1>15 DEF RequestDies
<1> HIDE DEF TrackedInv
<1> QED
  BY <1>1, <1>2, <1>3, <1>4, <1>5, <1>6, <1>7, <1>8, <1>9, <1>10, <1>11, <1>12,
     <1>13, <1>14, <1>15 DEF HandlerStarts, HandlerGoesOn

\* ... and so does a worker.
LEMMA TrackedWorkerStep ==
  ASSUME TrackedInv, TypeOK', NEW w \in Workers,
         \/ WorkerGoesOn(w) \/ StageFails(w) \/ Abandon(w)
         \/ \E m \in Messages : Receive(w, m)
  PROVE  TrackedInv'
<1> USE PipelineNames
        DEF TrackedInv, TypeOK, RequestIsTracked, MessageIsTracked, WorkerIsTracked,
            Promises, Undoes, Deletion, RowExists, Goto, Keep, DropJob, Same, SameRow,
            AssertNotDeleting, dataVars, rowVars, workerVars, handlerVars, boundVars
<1>1. CASE Load(w) BY <1>1 DEF Load
<1>2. CASE ClaimProcessing(w) BY <1>2 DEF ClaimProcessing, Claimable
<1>3. CASE RecheckAfterLostClaim(w) BY <1>3 DEF RecheckAfterLostClaim
<1>4. CASE TouchProcessing(w) BY <1>4 DEF TouchProcessing
<1>5. CASE CheckDeleting(w)
  <2>1. local[w].next \in Pipeline BY LocalFields
  <2> QED BY <1>5, <2>1 DEF CheckDeleting
<1>6. CASE Download(w) BY <1>6 DEF Download
<1>7. CASE UploadAudio(w) BY <1>7 DEF UploadAudio
<1>8. CASE RecordAudio(w) BY <1>8 DEF RecordAudio
<1>9. CASE EnsureTranscript(w) BY <1>9 DEF EnsureTranscript
<1>10. CASE LoadReleaseTarget(w) BY <1>10 DEF LoadReleaseTarget
<1>11. CASE UploadKeyframe(w) BY <1>11 DEF UploadKeyframe
<1>12. CASE RecordKeyframe(w) BY <1>12 DEF RecordKeyframe
<1>13. CASE Embed(w) BY <1>13 DEF Embed
<1>14. CASE PersistResults(w) BY <1>14 DEF PersistResults
<1>15. CASE SetFailed(w) BY <1>15 DEF SetFailed
<1>16. CASE ReleaseClaim(w) BY <1>16 DEF ReleaseClaim
<1>17. CASE FindVideo(w) BY <1>17 DEF FindVideo
<1>18. CASE DeferIfClaimed(w) BY <1>18 DEF DeferIfClaimed
<1>19. CASE ListStoragePaths(w) BY <1>19 DEF ListStoragePaths
<1>20. CASE DeleteObjects(w) BY <1>20 DEF DeleteObjects
<1>21. CASE DeleteArtifacts(w) BY <1>21 DEF DeleteArtifacts
<1>22. CASE HardDelete(w) BY <1>22 DEF HardDelete
<1>23. CASE Ack(w) BY <1>23 DEF Ack
<1>24. CASE StageFails(w) BY <1>24 DEF StageFails
<1>25. CASE Abandon(w) BY <1>25 DEF Abandon
<1>26. CASE \E m \in Messages : Receive(w, m) BY <1>26 DEF Receive
<1> HIDE PipelineNames DEF TrackedInv
<1> QED
  BY <1>1, <1>2, <1>3, <1>4, <1>5, <1>6, <1>7, <1>8, <1>9, <1>10, <1>11, <1>12,
     <1>13, <1>14, <1>15, <1>16, <1>17, <1>18, <1>19, <1>20, <1>21, <1>22, <1>23,
     <1>24, <1>25, <1>26 DEF WorkerGoesOn, Proceed, Remove

\* Every step keeps TrackedInv.
LEMMA TrackedNext ==
  ASSUME OneFailedPublish, TrackedInv, [Next]_vars
  PROVE  TrackedInv'
<1>1. TypeOK' BY NextTypes DEF TrackedInv
<1>2. CASE \E h \in Handlers : \/ HandlerStarts(h) \/ HandlerGoesOn(h)
                               \/ PublishFails(h) \/ PublishTwice(h) \/ RequestDies(h)
  BY <1>1, <1>2, TrackedHandlerStep
<1>3. CASE \E w \in Workers : \/ WorkerGoesOn(w) \/ StageFails(w) \/ Abandon(w)
                              \/ \E m \in Messages : Receive(w, m)
  BY <1>1, <1>3, TrackedWorkerStep
<1> USE <1>1 DEF TrackedInv, TypeOK, RequestIsTracked, MessageIsTracked, WorkerIsTracked,
            Promises, Undoes, rowVars, dataVars, workerVars, handlerVars, boundVars
<1>4. CASE \E m \in Messages : Redeliver(m) BY <1>4 DEF Redeliver
<1>5. CASE ClientUpload BY <1>5 DEF ClientUpload
<1>6. CASE ClaimGoesStale BY <1>6 DEF ClaimGoesStale
<1>7. CASE Cutover BY <1>7 DEF Cutover
<1>8. CASE UNCHANGED vars BY <1>8 DEF vars
<1> HIDE <1>1 DEF TrackedInv
<1> QED BY <1>2, <1>3, <1>4, <1>5, <1>6, <1>7, <1>8 DEF Next

\* A message that was sent stays sent.
LEMMA SentStaysSent ==
  ASSUME TrackedInv, [Next]_vars, DeleteSent
  PROVE  DeleteSent'
<1> PICK n \in Messages : queue[n].kind = "DELETE_REQUEST" BY DEF DeleteSent
<1>1. queue[n].state # "unsent" BY DEF TrackedInv, MessageIsTracked
<1>2. queue \in [Messages -> [kind : {"none", "PREPROCESS_REQUEST", "DELETE_REQUEST"},
                              state : {"unsent", "visible", "leased", "archived"}]]
  BY DEF TrackedInv, TypeOK
<1>3. queue'[n].kind = queue[n].kind
  <2>1. CASE queue' = queue BY <2>1
  <2>2. CASE \E k \in Messages, r \in Requests : Send(k, r) BY <1>1, <1>2, <2>2 DEF Send
  <2>3. CASE \E k, s : queue' = [queue EXCEPT ![k].state = s] BY <1>2, <2>3
  <2>4. ASSUME NEW h \in Handlers,
               \/ HandlerStarts(h) \/ HandlerGoesOn(h)
               \/ PublishFails(h) \/ PublishTwice(h) \/ RequestDies(h)
        PROVE  queue' = queue \/ \E k \in Messages, r \in Requests : Send(k, r)
    BY <2>4 DEF TrackedInv, TypeOK, HandlerStarts, HandlerGoesOn, CreateVideo, CompleteRead,
                DeleteRead, RetryRead,
                CompleteWrite, DeleteWrite, RetryWrite, WriteBack, DeleteOversized,
                DeleteFindsNothing, Publish, RestoreStatus, RestoreFailure, PublishFails,
                PublishTwice, RequestDies
  <2>5. ASSUME NEW w \in Workers,
               \/ WorkerGoesOn(w) \/ StageFails(w) \/ Abandon(w)
               \/ \E m \in Messages : Receive(w, m)
        PROVE  queue' = queue \/ \E k, s : queue' = [queue EXCEPT ![k].state = s]
    BY <2>5 DEF WorkerGoesOn, Proceed, Remove, Load, ClaimProcessing, RecheckAfterLostClaim,
                TouchProcessing, CheckDeleting, Download, UploadAudio, RecordAudio,
                EnsureTranscript, LoadReleaseTarget, UploadKeyframe, RecordKeyframe, Embed,
                PersistResults, SetFailed, ReleaseClaim, FindVideo, DeferIfClaimed,
                ListStoragePaths, DeleteObjects, DeleteArtifacts, HardDelete, Ack, StageFails,
                Abandon, Receive, Same
  <2>6. ASSUME (\E k \in Messages : Redeliver(k)) \/ ClientUpload \/ ClaimGoesStale
               \/ Cutover \/ UNCHANGED vars
        PROVE  queue' = queue \/ \E k, s : queue' = [queue EXCEPT ![k].state = s]
    BY <2>6 DEF Redeliver, ClientUpload, ClaimGoesStale, Cutover, vars
  <2> QED BY <2>1, <2>2, <2>3, <2>4, <2>5, <2>6 DEF Next
<1> QED BY <1>3 DEF DeleteSent

\* A message other than a DELETE_REQUEST was sent for another request.
LEMMA SentForAnother ==
  ASSUME TypeOK, ~DeleteSent', NEW m \in Messages, NEW r, Send(m, r)
  PROVE  r # "delete"
BY DEF TypeOK, DeleteSent, Send, KindOf

\* A request that neither sends nor dies hands its promise on.
LEMMA PromiseHandlerStep ==
  ASSUME OneFailedPublish, TrackedInv, PromiseInv, ~DeleteSent, ~DeleteSent',
         NEW h \in Handlers,
         \/ HandlerStarts(h) \/ HandlerGoesOn(h) \/ PublishFails(h) \/ PublishTwice(h)
  PROVE  PromiseInv'
<1> USE VideoAssumption
        DEF OneFailedPublish, TrackedInv, PromiseInv, TypeOK, DeletingIsPromised,
            SavedIsPromised, RequestIsTracked, Promises, Undoes, RowExists,
            EndRequest, Begin, Handle, dataVars, rowVars, workerVars, handlerVars, boundVars
<1>1. CASE CreateVideo(h) BY <1>1 DEF CreateVideo
<1>2. CASE CompleteRead(h) BY <1>2 DEF CompleteRead
<1>3. CASE DeleteRead(h) BY <1>3 DEF DeleteRead
<1>4. CASE RetryRead(h) BY <1>4 DEF RetryRead
<1>5. CASE CompleteWrite(h) BY <1>5 DEF CompleteWrite, WriteBack, StatusToWrite
<1>6. CASE DeleteWrite(h) BY <1>6 DEF DeleteWrite, WriteBack, StatusToWrite
<1>7. CASE RetryWrite(h) BY <1>7 DEF RetryWrite, WriteBack, StatusToWrite
<1>8. CASE DeleteOversized(h) BY <1>8 DEF DeleteOversized
<1>9. CASE DeleteFindsNothing(h) BY <1>9 DEF DeleteFindsNothing
<1>10. CASE Publish(h)
  <2>1. op[h] # "delete" BY <1>10, SentForAnother DEF Publish
  <2> QED BY <1>10, <2>1 DEF Publish
<1>11. CASE RestoreStatus(h)
  <2>1. \A g \in Handlers \ {h} : ~Undoes(g) BY <1>11 DEF RestoreStatus
  <2>2. status' = "DELETING" /\ status # "DELETING" => saved[h] = "DELETING"
    BY <1>11 DEF RestoreStatus
  <2>3. saved[h] = "DELETING" => \E g \in Handlers \ {h} : Promises(g)
    <3>1. hpc[h] = "restore" BY <1>11 DEF RestoreStatus
    <3>2. SavedIsPromised(h) BY DEF PromiseInv
    <3> HIDE DEF TrackedInv, PromiseInv, TypeOK, DeleteSent, Promises
    <3> QED BY <3>1, <3>2 DEF SavedIsPromised
  <2>4. \A g \in Handlers \ {h} : /\ hpc'[g] = hpc[g] /\ op'[g] = op[g]
                                   /\ saved'[g] = saved[g]
    BY <1>11 DEF RestoreStatus
  <2>5. publishFailures' = publishFailures /\ publishFailures > 0 /\ hpc'[h] = "idle"
    BY <1>11 DEF RestoreStatus
  <2>6. DeletingIsPromised'
    <3> SUFFICES ASSUME status' = "DELETING"
                 PROVE  \E g \in Handlers \ {h} : Promises(g)
      BY <2>4
    <3>1. CASE saved[h] = "DELETING" BY <2>3, <3>1
    <3>2. CASE saved[h] # "DELETING"
      <4>1. status = "DELETING" /\ ~RowExists BY <1>11, <2>2, <3>2 DEF RestoreStatus
      <4> QED BY <4>1
    <3> QED BY <3>1, <3>2
  <2>7. \A k \in Handlers : SavedIsPromised(k)'
    BY <2>1, <2>4, <2>5
  <2> QED BY <2>6, <2>7
<1>12. CASE RestoreFailure(h) BY <1>12 DEF RestoreFailure
<1>13. CASE PublishFails(h)
  <2>1. publishFailures = 0 /\ publishFailures' = 1 BY <1>13 DEF PublishFails
  <2>2. \A g \in Handlers : ~Undoes(g) BY <2>1
  <2>3. CASE op[h] = "delete"
    <3>1. /\ hpc' = [hpc EXCEPT ![h] = "restore"]
          /\ UNCHANGED <<op, saved, status>> /\ hpc[h] = "publish"
      BY <1>13, <2>3 DEF PublishFails
    <3> QED BY <2>1, <2>2, <2>3, <3>1
  <2>4. CASE op[h] # "delete"
    <3>1. /\ status' = status
          /\ \A g \in Handlers \ {h} : /\ hpc'[g] = hpc[g] /\ op'[g] = op[g]
                                       /\ saved'[g] = saved[g]
          /\ hpc'[h] # "restore"
      BY <1>13, <2>4 DEF PublishFails
    <3> QED BY <2>1, <2>2, <2>4, <3>1
  <2> QED BY <2>3, <2>4
<1>14. CASE PublishTwice(h)
  <2>1. op[h] # "delete" BY <1>14, SentForAnother DEF PublishTwice
  <2>2. publishFailures = 0 /\ publishFailures' = 1 BY <1>14 DEF PublishTwice
  <2>3. UNCHANGED <<hpc, op, saved, status>> BY <1>14 DEF PublishTwice
  <2> QED BY <2>1, <2>2, <2>3
<1> HIDE DEF PromiseInv
<1> QED
  BY <1>1, <1>2, <1>3, <1>4, <1>5, <1>6, <1>7, <1>8, <1>9, <1>10, <1>11, <1>12,
     <1>13, <1>14 DEF HandlerStarts, HandlerGoesOn

\* No worker makes a video DELETING.
LEMMA WorkersDoNotDelete ==
  ASSUME TrackedInv, NEW w \in Workers,
         \/ WorkerGoesOn(w) \/ StageFails(w) \/ Abandon(w)
         \/ \E m \in Messages : Receive(w, m)
  PROVE  /\ status' = "DELETING" => status = "DELETING"
         /\ UNCHANGED <<hpc, op, saved, publishFailures>>
BY DEF WorkerGoesOn, Proceed, Remove, Load, ClaimProcessing, RecheckAfterLostClaim,
       TouchProcessing, CheckDeleting, Download, UploadAudio, RecordAudio,
       EnsureTranscript, LoadReleaseTarget, UploadKeyframe, RecordKeyframe, Embed,
       PersistResults, SetFailed, ReleaseClaim, FindVideo, DeferIfClaimed,
       ListStoragePaths, DeleteObjects, DeleteArtifacts, HardDelete, Ack, StageFails,
       Abandon, Receive, Same, SameRow, rowVars, handlerVars, boundVars

\* Every step but a request's death keeps PromiseInv.
LEMMA PromiseNext ==
  ASSUME OneFailedPublish, TrackedInv, PromiseInv, [Next]_vars, [NoRequestDies]_vars
  PROVE  PromiseInv'
<1>1. TypeOK' BY NextTypes DEF TrackedInv
<1>2. CASE DeleteSent' BY <1>2 DEF PromiseInv, DeletingIsPromised, SavedIsPromised
<1>3. ASSUME ~DeleteSent' PROVE PromiseInv'
  <2>1. ~DeleteSent BY <1>3, SentStaysSent
  <2>2. CASE \E h \in Handlers : \/ HandlerStarts(h) \/ HandlerGoesOn(h)
                                 \/ PublishFails(h) \/ PublishTwice(h)
    BY <1>3, <2>1, <2>2, PromiseHandlerStep
  <2>3. ASSUME /\ status' = "DELETING" => status = "DELETING"
               /\ UNCHANGED <<hpc, op, saved, publishFailures>>
        PROVE  PromiseInv'
    BY <2>1, <2>3 DEF PromiseInv, DeletingIsPromised, SavedIsPromised, Promises
  <2>4. CASE \E w \in Workers : \/ WorkerGoesOn(w) \/ StageFails(w) \/ Abandon(w)
                                \/ \E m \in Messages : Receive(w, m)
    BY <2>3, <2>4, WorkersDoNotDelete
  <2>5. CASE (\E m \in Messages : Redeliver(m)) \/ ClientUpload \/ ClaimGoesStale \/ Cutover
    BY <2>3, <2>5 DEF Redeliver, ClientUpload, ClaimGoesStale, Cutover, rowVars, handlerVars,
                      boundVars
  <2>6. CASE UNCHANGED vars BY <2>3, <2>6 DEF vars, rowVars, handlerVars, boundVars
  <2> QED BY <2>2, <2>4, <2>5, <2>6 DEF Next, NoRequestDies
<1> QED BY <1>2, <1>3

\* However requests overlap and workers race and die, a DELETING video has its
\* DELETE_REQUEST in the queue: no ack comes before the row is gone, and no undo
\* leaves DELETING behind without a message.
THEOREM DeleteIsNotLost ==
  ASSUME OneFailedPublish
  PROVE  Spec /\ [][NoRequestDies]_vars => []DeletingHasMessage
<1>1. Init => TrackedInv /\ PromiseInv
  BY InitTypes DEF Init, TrackedInv, PromiseInv, RequestIsTracked, MessageIsTracked,
                   WorkerIsTracked, DeletingIsPromised, SavedIsPromised, Promises, Undoes
<1>2. TrackedInv /\ [Next]_vars => TrackedInv' BY TrackedNext
<1>3. TrackedInv /\ PromiseInv /\ [Next]_vars /\ [NoRequestDies]_vars => PromiseInv'
  BY PromiseNext
<1>4. TrackedInv /\ PromiseInv => DeletingHasMessage
  <2> SUFFICES ASSUME TrackedInv, PromiseInv, status = "DELETING", Busy = {}
               PROVE  \E m \in Messages : /\ queue[m].kind = "DELETE_REQUEST"
                                          /\ queue[m].state \in {"visible", "leased"}
    BY DEF DeletingHasMessage
  <2>1. DeleteSent BY DEF PromiseInv, DeletingIsPromised, Promises, Busy
  <2>2. PICK m \in Messages : queue[m].kind = "DELETE_REQUEST" BY <2>1 DEF DeleteSent
  <2>3. queue[m].state \in {"unsent", "visible", "leased", "archived"}
    BY DEF TrackedInv, TypeOK
  <2> QED BY <2>2, <2>3 DEF TrackedInv, MessageIsTracked
<1> QED BY <1>1, <1>2, <1>3, <1>4, PTL DEF Spec
=============================================================================
