------------------------ MODULE ProjectSearchProofs ------------------------
(***************************************************************************)
(* Theorems about ProjectSearch, for any videos, requests, reloads and     *)
(* bounds.                                                                 *)
(***************************************************************************)
EXTENDS ProjectSearch, TLAPS

-----------------------------------------------------------------------------
(* The steps by actor, and what each leaves alone.                         *)

Requesting == \E d \in Deletes : Request(d) \/ PublishFails(d) \/ ApiCrash(d)
Working == Job \/ JobCrash
Creating ==
  \/ CheckProject \/ Pipeline \/ PipeCrash
  \/ \E v \in Videos : CreateVideo(v) \/ ClaimVideo(v) \/ Reembed(v)
Reloading == Switch \/ \E r \in Reloads : ReadRelease(r) \/ SetTargets(r)
Asking ==
  \/ Searching \/ EmbeddingFails \/ LanguageModelFails
  \/ \E rating \in Ratings : Feedback(rating)

LEMMA NextByActor == Next => Requesting \/ Working \/ Creating \/ Exclude \/ Reloading \/ Asking
BY DEF Next, Requesting, Working, Creating, Reloading, Asking

LEMMA RequestingKeeps ==
  Requesting =>
    /\ UNCHANGED <<serving, job, rows, events, status, claims, vectors, creator, pipe>>
    /\ UNCHANGED <<release, targets, reload>>
    /\ search' = search \/ Bar
BY DEF Requesting, Request, ReadProject, MarkDeleting, Publish, Restore, RestoreTo, PublishFails,
       ApiCrash, RequestKeeps, videos, video, loading

LEMMA WorkingKeeps ==
  Working =>
    UNCHANGED <<serving, del, creator, pipe, search, events, release, targets, reload>>
BY DEF Working, Job, JobCrash, ListVideos, CheckClaims, DeleteArtifacts, HardDelete, DeleteRecords,
       AckDelete, JobStep, videos, loading, searching

LEMMA CreatingKeeps ==
  Creating =>
    /\ UNCHANGED <<project, serving, del, queue, job, release, targets, reload>>
    /\ UNCHANGED <<search, rows, events>>
BY DEF Creating, CheckProject, CreateVideo, ClaimVideo, Pipeline, PersistChunk,
       ClaimExpires, PipeCrash, Reembed, VideoStep, deleting, loading, searching

LEMMA ExcludeKeeps ==
  Exclude =>
    /\ UNCHANGED <<project, rows, events, status, claims, vectors, creator, pipe>>
    /\ UNCHANGED <<del, queue, job, release, targets, reload>>
    /\ serving' = "ROLLBACK_EXCLUDED" /\ Bar
BY DEF Exclude, videos, video, deleting, loading

LEMMA ReloadingKeeps ==
  Reloading =>
    /\ UNCHANGED <<project, serving, status, claims, vectors, creator, pipe>>
    /\ UNCHANGED <<del, queue, job, search, rows, events>>
BY DEF Reloading, Switch, ReadRelease, SetTargets, LoadStep, videos, video, deleting, searching

LEMMA AskingKeeps ==
  Asking =>
    /\ UNCHANGED <<project, serving, status, claims, vectors, creator, pipe>>
    /\ UNCHANGED <<del, queue, job, release, targets, reload>>
BY DEF Asking, Searching, Begin, TakeTargets, Query, Merge, Gate, Shown, Answer, SaveSnapshot,
       StoreSnapshot, SaveConversation, EmbeddingFails, LanguageModelFails, FailAt, Feedback,
       SearchStep, videos, video, deleting, loading

-----------------------------------------------------------------------------
(* The reload of the serving targets.                                      *)

\* One call at a time is between its read and its write, and what it has read is not
\* older than what search-service has.
ReloadInv ==
  /\ release \in 0..MaxSwitch /\ targets \in 0..release
  /\ reload \in [Reloads -> [step : {"ready", "read", "done"}, read : 0..release]]
  /\ \A r \in Reloads : reload[r].step = "read" => targets <= reload[r].read
  /\ \A r, s \in Reloads : reload[r].step = "read" /\ reload[s].step = "read" => r = s

LEMMA InitReload == Init => ReloadInv
<1> SUFFICES ASSUME Init PROVE ReloadInv OBVIOUS
<1>1. release = 0 /\ targets = 0 /\ MaxSwitch \in Nat BY ProjectAssumption DEF Init
<1>2. \E s \in {"ready", "done"} : reload = [r \in Reloads |-> [step |-> s, read |-> 0]]
  BY DEF Init
<1> QED BY <1>1, <1>2 DEF ReloadInv

LEMMA NextReload == ReloadInv /\ [Next]_vars => ReloadInv' /\ targets' >= targets
<1> SUFFICES ASSUME ReloadInv, [Next]_vars PROVE ReloadInv' /\ targets' >= targets OBVIOUS
<1>0. MaxSwitch \in Nat /\ release \in Nat /\ targets \in Nat BY ProjectAssumption DEF ReloadInv
<1>1. CASE UNCHANGED <<release, targets, reload>> BY <1>0, <1>1 DEF ReloadInv
<1>2. CASE Switch
  <2>1. release' = release + 1 /\ release < MaxSwitch /\ UNCHANGED <<targets, reload>> BY <1>2 DEF Switch
  <2> QED BY <1>0, <2>1 DEF ReloadInv
<1>3. ASSUME NEW r \in Reloads, ReadRelease(r) PROVE ReloadInv' /\ targets' >= targets
  <2>1. /\ reload' = [reload EXCEPT ![r] = [step |-> "read", read |-> release]]
        /\ \A s \in Reloads : reload[s].step # "read"
        /\ UNCHANGED <<release, targets>>
    BY <1>3 DEF ReadRelease, Locked
  <2> QED BY <1>0, <2>1 DEF ReloadInv
<1>4. ASSUME NEW r \in Reloads, SetTargets(r) PROVE ReloadInv' /\ targets' >= targets
  <2>1. /\ reload[r].step = "read" /\ reload' = [reload EXCEPT ![r].step = "done"]
        /\ targets' = reload[r].read /\ UNCHANGED release
    BY <1>4 DEF SetTargets
  <2>2. \A s \in Reloads : reload'[s].step # "read" BY <2>1 DEF ReloadInv
  <2> QED BY <1>0, <2>1, <2>2 DEF ReloadInv
<1>5. UNCHANGED vars => UNCHANGED <<release, targets, reload>> BY DEF vars
<1> QED BY <1>1, <1>2, <1>3, <1>4, <1>5, NextByActor, RequestingKeeps, WorkingKeeps, CreatingKeeps,
           ExcludeKeeps, AskingKeeps DEF Reloading

\* Reloads that overlap never bring back an older release (serving_targets.py:28).
THEOREM TargetsNeverGoBack == Spec => TargetsMoveForward
<1>1. ReloadInv /\ [Next]_vars => [targets' >= targets]_vars BY NextReload
<1>2. ReloadInv /\ [Next]_vars => ReloadInv' BY NextReload
<1> QED BY InitReload, <1>1, <1>2, PTL DEF Spec, TargetsMoveForward

-----------------------------------------------------------------------------
(* What the database holds.                                                *)

VideoInv ==
  /\ project \in {"ACTIVE", "DELETING", "gone"} /\ serving \in {"SERVABLE", "ROLLBACK_EXCLUDED"}
  /\ status \in [Videos -> {"none", "PENDING", "PROCESSING", "READY"}] /\ claims \subseteq Rows
  /\ vectors \in [Videos -> SUBSET (0..release)] /\ creator \in {"ready", "checked", "done"}
  /\ pipe \in [step : {"idle", "claimed"}, video : Videos]
  /\ job \in [step : {"idle", "listed", "objects", "artifacts", "records", "ack"},
              msg : {job.msg}, ids : SUBSET Videos]
  /\ job.step = "ack" => ~Exists

RowsInv ==
  /\ rows \in [snapshot : {rows.snapshot}, conversation : BOOLEAN]
  /\ rows.snapshot.saved \in BOOLEAN

Held == ReloadInv /\ VideoInv /\ RowsInv /\ NothingDangles

LEMMA InitHeld == Init => Held
<1> SUFFICES ASSUME Init PROVE Held OBVIOUS
<1>1. ReloadInv BY InitReload
<1>2. release = 0 /\ First \in Videos BY ProjectAssumption DEF Init
<1>3. VideoInv BY <1>2 DEF Init, VideoInv, NoPipe, NoJob, Rows
<1>4. RowsInv /\ NothingDangles BY DEF Init, RowsInv, NothingDangles, NoSnapshot, Rows, Exists
<1> QED BY <1>1, <1>3, <1>4 DEF Held

LEMMA WorkingHeld == ASSUME Held, Working PROVE VideoInv' /\ RowsInv' /\ NothingDangles'
<1> USE DEF Held
<1>0. UNCHANGED <<serving, del, creator, pipe, release>> BY WorkingKeeps
<1>1. ASSUME NEW d \in Deletes, ListVideos(d) PROVE VideoInv' /\ RowsInv' /\ NothingDangles'
  BY <1>0, <1>1 DEF ListVideos, JobStep, VideoInv, RowsInv, NothingDangles, Rows, Exists, video
<1>2. CASE CheckClaims
  BY <1>0, <1>2 DEF CheckClaims, JobStep, NextJob, NoJob, VideoInv, RowsInv, NothingDangles, Rows, Exists, video
<1>3. CASE DeleteArtifacts
  BY <1>0, <1>3 DEF DeleteArtifacts, JobStep, NextJob, VideoInv, RowsInv, NothingDangles, Rows, Exists, video
<1>4. CASE HardDelete
  <2>1. /\ job.step = "artifacts" /\ UNCHANGED <<project, vectors, queue, rows>>
        /\ \/ job' = NoJob /\ UNCHANGED <<status, claims>>
           \/ /\ \A v \in job.ids : vectors[v] = {}
              /\ job' = [job EXCEPT !.step = "records"] /\ claims' = claims \ job.ids
              /\ status' = [v \in Videos |-> IF v \in job.ids THEN "none" ELSE status[v]]
    BY <1>4 DEF HardDelete, JobStep, NextJob, video
  <2>2. Rows' \in {Rows, Rows \ job.ids} /\ claims' \subseteq Rows'
    BY <2>1 DEF VideoInv, Rows
  <2>3. {v \in Videos : vectors[v] # {}} \subseteq Rows' BY <2>1 DEF VideoInv, NothingDangles, Rows
  <2>4. VideoInv' BY <1>0, <2>1, <2>2 DEF VideoInv, NoJob, Exists
  <2>5. RowsInv' /\ (Exists' <=> Exists) BY <2>1 DEF RowsInv, Exists
  <2>6. ~Exists => Rows' = {} BY <2>2 DEF NothingDangles
  <2>7. NothingDangles' BY <2>1, <2>3, <2>5, <2>6 DEF NothingDangles
  <2> QED BY <2>4, <2>5, <2>7
<1>5. CASE DeleteRecords
  <2>1. /\ UNCHANGED <<status, claims, vectors>> /\ Rows' = Rows
        /\ \/ job' = NoJob /\ UNCHANGED <<project, rows>>
           \/ /\ Rows = {} /\ job' = [job EXCEPT !.step = "ack"] /\ project' = "gone"
              /\ rows' = [snapshot |-> NoSnapshot, conversation |-> FALSE]
    BY <1>5 DEF DeleteRecords, RecordsDeleted, Ack, video, Rows
  <2>2. VideoInv' BY <1>0, <2>1 DEF VideoInv, NoJob, Exists
  <2>3. RowsInv'
    <3>1. CASE UNCHANGED rows BY <3>1 DEF RowsInv
    <3>2. CASE rows' = [snapshot |-> NoSnapshot, conversation |-> FALSE]
      <4>1. rows'.snapshot = NoSnapshot /\ rows'.conversation = FALSE BY <3>2
      <4>2. rows'.snapshot.saved = FALSE BY <4>1 DEF NoSnapshot
      <4> HIDE DEF NoSnapshot
      <4> QED BY <3>2, <4>1, <4>2 DEF RowsInv
    <3> QED BY <2>1, <3>1, <3>2
  <2>4. NothingDangles' BY <2>1 DEF NothingDangles, NoSnapshot, Exists
  <2> QED BY <2>2, <2>3, <2>4
<1>6. CASE AckDelete
  BY <1>0, <1>6 DEF AckDelete, JobStep, NoJob, VideoInv, RowsInv, NothingDangles, Rows, Exists, video
<1>7. CASE JobCrash
  BY <1>0, <1>7 DEF JobCrash, NoJob, VideoInv, RowsInv, NothingDangles, Rows, Exists, videos, video, searching
<1> QED BY <1>1, <1>2, <1>3, <1>4, <1>5, <1>6, <1>7 DEF Working, Job

LEMMA CreatingHeld == ASSUME Held, Creating PROVE VideoInv' /\ RowsInv' /\ NothingDangles'
<1> USE DEF Held
<1>0. UNCHANGED <<project, serving, del, queue, job, release, rows>> /\ First \in Videos
      /\ release \in 0..release
  BY CreatingKeeps, ProjectAssumption DEF ReloadInv
<1>1. CASE CheckProject
  BY <1>0, <1>1 DEF CheckProject, VideoInv, RowsInv, NothingDangles, Rows, Exists, video
<1>2. ASSUME NEW v \in Videos, CreateVideo(v) PROVE VideoInv' /\ RowsInv' /\ NothingDangles'
  BY <1>0, <1>2 DEF CreateVideo, VideoInv, RowsInv, NothingDangles, Rows, Exists
<1>3. ASSUME NEW v \in Videos, ClaimVideo(v) PROVE VideoInv' /\ RowsInv' /\ NothingDangles'
  BY <1>0, <1>3 DEF ClaimVideo, VideoInv, RowsInv, NothingDangles, Rows, Exists
<1>4. CASE PersistChunk
  BY <1>0, <1>4 DEF PersistChunk, NoPipe, VideoInv, RowsInv, NothingDangles, Rows, Exists, video
<1>5. CASE PipeCrash
  BY <1>0, <1>5 DEF PipeCrash, NoPipe, VideoInv, RowsInv, NothingDangles, Rows, Exists, video
<1>6. CASE ClaimExpires
  BY <1>0, <1>6 DEF ClaimExpires, VideoInv, RowsInv, NothingDangles, Rows, Exists
<1>7. ASSUME NEW v \in Videos, Reembed(v) PROVE VideoInv' /\ RowsInv' /\ NothingDangles'
  BY <1>0, <1>7 DEF Reembed, VideoInv, RowsInv, NothingDangles, Rows, Exists, video
<1> QED BY <1>1, <1>2, <1>3, <1>4, <1>5, <1>6, <1>7 DEF Creating, Pipeline

\* What a search stores, and only while there is a project.
LEMMA AskingStores ==
  Asking =>
    \/ UNCHANGED rows
    \/ Exists /\ rows' = [rows EXCEPT !.snapshot = Snapshot(search.targets)] /\ SaveSnapshot
    \/ rows' = [rows EXCEPT !.conversation = Exists]
BY DEF Asking, Searching, Begin, TakeTargets, Query, Merge, Gate, Shown, Answer, SaveSnapshot,
       StoreSnapshot, SaveConversation, EmbeddingFails, LanguageModelFails, FailAt, Feedback

LEMMA AskingRows == ASSUME Held, Asking PROVE RowsInv' /\ NothingDangles'
<1> USE DEF Held
<1>1. UNCHANGED <<project, status, vectors>> /\ Rows' = Rows BY AskingKeeps DEF Rows
<1>2. CASE UNCHANGED rows BY <1>1, <1>2 DEF RowsInv, NothingDangles, Exists
<1>3. CASE Exists /\ rows' = [rows EXCEPT !.snapshot = Snapshot(search.targets)]
  <2>1. rows'.snapshot = Snapshot(search.targets) /\ Snapshot(search.targets).saved = TRUE
    BY <1>3 DEF RowsInv, Snapshot
  <2>2. RowsInv'
    <3> HIDE DEF Snapshot
    <3> QED BY <1>3, <2>1 DEF RowsInv
  <2>3. NothingDangles' BY <1>1, <1>3 DEF NothingDangles, Exists
  <2> QED BY <2>2, <2>3
<1>4. CASE rows' = [rows EXCEPT !.conversation = Exists]
  <2>1. rows'.snapshot = rows.snapshot /\ rows'.conversation = Exists BY <1>4 DEF RowsInv
  <2>2. RowsInv' BY <1>4, <2>1 DEF RowsInv, Exists
  <2>3. NothingDangles' BY <1>1, <2>1 DEF NothingDangles, Exists
  <2> QED BY <2>2, <2>3
<1> QED BY <1>2, <1>3, <1>4, AskingStores

-----------------------------------------------------------------------------
(* The requests that delete the project.                                   *)

RequestSteps == Answered \union {"ready", "read", "marked", "restoring"}
RequestsInv ==
  /\ del \in [Deletes -> [step : RequestSteps, prev : {"ACTIVE", "DELETING"}]]
  /\ queue \subseteq Deletes

LEMMA InitRequests == Init => RequestsInv
BY DEF Init, RequestsInv, RequestSteps, Answered

\* What a request may do, and to the project only while there is one.
LEMMA RequestingShapes ==
  ASSUME RequestsInv, project \in {"ACTIVE", "DELETING", "gone"}, Requesting
  PROVE  /\ RequestsInv' /\ project' \in {"ACTIVE", "DELETING", "gone"} /\ (Exists' <=> Exists)
         /\ queue \subseteq queue'
<1> USE DEF RequestSteps, Answered, Exists
<1> DEFINE Goal == /\ RequestsInv' /\ project' \in {"ACTIVE", "DELETING", "gone"}
                   /\ (Exists' <=> Exists) /\ queue \subseteq queue'
<1>1. ASSUME NEW d \in Deletes, ReadProject(d) PROVE Goal
  <2>1. UNCHANGED <<project, queue>> BY <1>1 DEF ReadProject
  <2>2. CASE Exists
    <3>1. del' = [del EXCEPT ![d] = [step |-> "read", prev |-> project]] BY <1>1, <2>2 DEF ReadProject
    <3> QED BY <2>1, <2>2, <3>1 DEF RequestsInv
  <2>3. CASE ~Exists
    <3>1. del' = [del EXCEPT ![d] = [@ EXCEPT !.step = "refused"]] BY <1>1, <2>3 DEF ReadProject
    <3> QED BY <2>1, <3>1 DEF RequestsInv
  <2> QED BY <2>2, <2>3
<1>2. ASSUME NEW d \in Deletes, MarkDeleting(d) PROVE Goal BY <1>2 DEF MarkDeleting, RequestsInv
<1>3. ASSUME NEW d \in Deletes, Publish(d) PROVE Goal BY <1>3 DEF Publish, RequestsInv
<1>4. ASSUME NEW d \in Deletes, Restore(d) PROVE Goal BY <1>4 DEF Restore, RestoreTo, RequestsInv
<1>5. ASSUME NEW d \in Deletes, PublishFails(d) PROVE Goal BY <1>5 DEF PublishFails, RequestsInv
<1>6. ASSUME NEW d \in Deletes, ApiCrash(d) PROVE Goal BY <1>6 DEF ApiCrash, RequestsInv
<1> QED BY <1>1, <1>2, <1>3, <1>4, <1>5, <1>6 DEF Requesting, Request

LEMMA NextHeld == Held /\ RequestsInv /\ [Next]_vars => Held' /\ RequestsInv'
<1> SUFFICES ASSUME Held, RequestsInv, [Next]_vars PROVE Held' /\ RequestsInv' OBVIOUS
<1>0. ReloadInv' BY NextReload DEF Held
<1>1. CASE Requesting
  <2>1. UNCHANGED <<serving, job, rows, status, claims, vectors, creator, pipe, release>>
    BY <1>1, RequestingKeeps
  <2>2. RequestsInv' /\ project' \in {"ACTIVE", "DELETING", "gone"} /\ (Exists' <=> Exists)
    BY <1>1, RequestingShapes DEF Held, VideoInv
  <2>3. VideoInv' /\ RowsInv' /\ NothingDangles'
    BY <2>1, <2>2 DEF Held, VideoInv, RowsInv, NothingDangles, Rows
  <2> QED BY <1>0, <2>2, <2>3 DEF Held
<1>2. CASE Working
  <2>1. VideoInv' /\ RowsInv' /\ NothingDangles' BY <1>2, WorkingHeld
  <2>2. RequestsInv'
    BY <1>2, WorkingKeeps DEF RequestsInv, Working, Job, JobCrash, ListVideos, CheckClaims, DeleteArtifacts,
                              HardDelete, DeleteRecords, AckDelete
  <2> QED BY <1>0, <2>1, <2>2 DEF Held
<1>3. CASE Creating
  <2>1. VideoInv' /\ RowsInv' /\ NothingDangles' BY <1>3, CreatingHeld
  <2>2. RequestsInv' BY <1>3, CreatingKeeps DEF RequestsInv
  <2> QED BY <1>0, <2>1, <2>2 DEF Held
<1>4. CASE Exclude
  <2>1. VideoInv' /\ RowsInv' /\ NothingDangles' /\ RequestsInv'
    BY <1>4, ExcludeKeeps DEF Held, VideoInv, RowsInv, NothingDangles, RequestsInv, Rows, Exists
  <2> QED BY <1>0, <2>1 DEF Held
<1>5. CASE Reloading
  <2>1. /\ UNCHANGED <<project, serving, status, claims, vectors, creator, pipe>>
        /\ UNCHANGED <<del, queue, job, rows>>
    BY <1>5, ReloadingKeeps
  <2>2. release' >= release /\ release \in Nat /\ release' \in Nat
    BY <1>0, <1>5, ProjectAssumption DEF Reloading, Switch, ReadRelease, SetTargets, Held, ReloadInv
  <2>3. 0..release \subseteq 0..release' BY <2>2
  <2>4. vectors \in [Videos -> SUBSET (0..release')] BY <2>3 DEF Held, VideoInv
  <2>5. VideoInv' BY <2>1, <2>4 DEF Held, VideoInv, Rows, Exists
  <2>6. RowsInv' /\ NothingDangles' /\ RequestsInv'
    BY <2>1 DEF Held, RowsInv, NothingDangles, RequestsInv, Rows, Exists
  <2> QED BY <1>0, <2>5, <2>6 DEF Held
<1>6. CASE Asking
  <2>1. /\ UNCHANGED <<project, serving, status, claims, vectors, creator, pipe>>
        /\ UNCHANGED <<del, queue, job, release>>
    BY <1>6, AskingKeeps
  <2>2. VideoInv' /\ RequestsInv' BY <2>1 DEF Held, VideoInv, RequestsInv, Rows, Exists
  <2>3. RowsInv' /\ NothingDangles' BY <1>6, <2>1, AskingRows DEF Held
  <2> QED BY <1>0, <2>2, <2>3 DEF Held
<1>7. CASE UNCHANGED vars
  BY <1>0, <1>7 DEF vars, Held, VideoInv, RowsInv, NothingDangles, RequestsInv, Rows, Exists
<1> QED BY <1>1, <1>2, <1>3, <1>4, <1>5, <1>6, <1>7, NextByActor

-----------------------------------------------------------------------------
(* Requests that do not overlap.                                           *)

InFlight == {"read", "marked", "restoring"}

\* One request is at work at a time.  From the first one that was accepted the
\* project is not ACTIVE, and no later request has read that it was.
Turns ==
  /\ \A d, e \in Deletes : del[d].step \in InFlight /\ del[e].step \in InFlight => d = e
  /\ \A d \in Deletes : del[d].step \in {"marked", "restoring"} => project # "ACTIVE"
  /\ \A d \in Deletes : del[d].step = "read" /\ del[d].prev = "DELETING" => project # "ACTIVE"
  /\ \A d \in Deletes : del[d].step = "accepted" =>
       project # "ACTIVE" /\ \A e \in Deletes : del[e].step \in InFlight => del[e].prev = "DELETING"

\* Unless core-api crashed, a project that is DELETING, or that a request would put
\* back to DELETING, has a message.
Queued ==
  Exists /\ (\A d \in Deletes : del[d].step # "crashed") =>
    /\ project = "DELETING" /\ (\A d \in Deletes : del[d].step \notin {"marked", "restoring"})
         => queue # {}
    /\ \A d \in Deletes : del[d].step \in InFlight /\ del[d].prev = "DELETING" => queue # {}

Orderly == Held /\ RequestsInv /\ Turns /\ Queued

LEMMA InitOrderly == Init => Orderly
BY InitHeld, InitRequests DEF Init, Orderly, Turns, Queued, InFlight

LEMMA RequestingOrderly ==
  ASSUME ~OverlappingDeletes, Orderly, Requesting PROVE Turns' /\ Queued'
<1> USE DEF Orderly, RequestsInv, RequestSteps, Answered, InFlight, Exists
<1>0. project \in {"ACTIVE", "DELETING", "gone"} BY DEF Held, VideoInv
<1>1. ASSUME NEW d \in Deletes, ReadProject(d) PROVE Turns' /\ Queued'
  <2>1. UNCHANGED <<project, queue>> /\ \A e \in Deletes : del[e].step \notin InFlight
    BY <1>1 DEF ReadProject, Overlaps
  <2>2. CASE Exists
    <3>1. del' = [del EXCEPT ![d] = [step |-> "read", prev |-> project]] BY <1>1, <2>2 DEF ReadProject
    <3>2. Turns' BY <1>0, <2>1, <2>2, <3>1 DEF Turns
    <3>3. del[d].step = "ready" BY <1>1 DEF ReadProject
    <3>4. Queued' BY <1>0, <2>1, <2>2, <3>1, <3>3 DEF Queued
    <3> QED BY <3>2, <3>4
  <2>3. CASE ~Exists
    <3>1. del' = [del EXCEPT ![d] = [@ EXCEPT !.step = "refused"]] BY <1>1, <2>3 DEF ReadProject
    <3>2. Turns' BY <2>1, <3>1 DEF Turns
    <3> QED BY <2>1, <2>3, <3>2 DEF Queued
  <2> QED BY <2>2, <2>3
<1>2. ASSUME NEW d \in Deletes, MarkDeleting(d) PROVE Turns' /\ Queued'
  <2>1. /\ del[d].step = "read" /\ UNCHANGED queue
        /\ \/ /\ project' = "DELETING" \/ (del[d].prev = "DELETING" /\ UNCHANGED project)
              /\ Exists' <=> Exists
              /\ del' = [del EXCEPT ![d].step = "marked"]
           \/ ~Exists /\ UNCHANGED project /\ del' = [del EXCEPT ![d].step = "failed"]
    BY <1>2 DEF MarkDeleting
  <2>2. Turns' BY <1>0, <2>1 DEF Turns
  <2>3. Queued' BY <1>0, <2>1 DEF Queued
  <2> QED BY <2>2, <2>3
<1>3. ASSUME NEW d \in Deletes, Publish(d) PROVE Turns' /\ Queued'
  <2>1. /\ del[d].step = "marked" /\ UNCHANGED project /\ del' = [del EXCEPT ![d].step = "accepted"]
        /\ queue' = queue \union {d}
    BY <1>3 DEF Publish
  <2>2. Turns' BY <2>1 DEF Turns
  <2>3. Queued' BY <2>1 DEF Queued
  <2> QED BY <2>2, <2>3
<1>4. ASSUME NEW d \in Deletes, PublishFails(d) PROVE Turns' /\ Queued'
  <2>1. /\ del[d].step = "marked" /\ UNCHANGED project /\ del' = [del EXCEPT ![d].step = "restoring"]
        /\ queue \subseteq queue'
    BY <1>4 DEF PublishFails
  <2>2. Turns' BY <2>1 DEF Turns
  <2>3. Queued' BY <2>1 DEF Queued
  <2> QED BY <2>2, <2>3
<1>5. ASSUME NEW d \in Deletes, Restore(d) PROVE Turns' /\ Queued'
  <2>1. /\ del[d].step = "restoring" /\ UNCHANGED queue /\ del' = [del EXCEPT ![d].step = "failed"]
        /\ project' = IF Exists THEN del[d].prev ELSE project
    BY <1>5 DEF Restore, RestoreTo
  <2>2. Turns' BY <2>1 DEF Turns
  <2>3. Queued' BY <2>1 DEF Queued
  <2> QED BY <2>2, <2>3
<1>6. ASSUME NEW d \in Deletes, ApiCrash(d) PROVE Turns' /\ Queued'
  <2>1. /\ del[d].step \in {"marked", "restoring"} /\ UNCHANGED <<project, queue>>
        /\ del' = [del EXCEPT ![d].step = "crashed"]
    BY <1>6 DEF ApiCrash
  <2>2. Turns' BY <2>1 DEF Turns
  <2>3. Queued' BY <2>1 DEF Queued
  <2> QED BY <2>2, <2>3
<1> QED BY <1>1, <1>2, <1>3, <1>4, <1>5, <1>6 DEF Requesting, Request

LEMMA NextOrderly == ~OverlappingDeletes /\ Orderly /\ [Next]_vars => Orderly'
<1> SUFFICES ASSUME ~OverlappingDeletes, Orderly, [Next]_vars PROVE Turns' /\ Queued'
  BY NextHeld DEF Orderly
<1>1. CASE Requesting BY <1>1, RequestingOrderly
<1>2. CASE Working
  <2>2. UNCHANGED project \/ project' = "gone"
    BY <1>2 DEF Working, Job, JobCrash, ListVideos, CheckClaims, DeleteArtifacts, HardDelete, DeleteRecords,
                RecordsDeleted, AckDelete
  <2>3. UNCHANGED queue \/ job.step = "ack"
    BY <1>2 DEF Working, Job, JobCrash, ListVideos, CheckClaims, DeleteArtifacts, HardDelete, DeleteRecords,
                AckDelete, JobStep
  <2>4. UNCHANGED del BY <1>2, WorkingKeeps
  <2>5. UNCHANGED queue \/ ~Exists BY <2>3 DEF Orderly, Held, VideoInv
  <2>6. Turns' BY <2>2, <2>4 DEF Orderly, Turns
  <2>7. Queued' BY <2>2, <2>4, <2>5 DEF Orderly, Queued, Exists
  <2> QED BY <2>6, <2>7
<1>3. UNCHANGED <<project, del, queue>> => Turns' /\ Queued' BY DEF Orderly, Turns, Queued, Exists
<1>4. UNCHANGED vars => UNCHANGED <<project, del, queue>> BY DEF vars
<1> QED BY <1>1, <1>2, <1>3, <1>4, NextByActor, CreatingKeeps, ExcludeKeeps, ReloadingKeeps, AskingKeeps

-----------------------------------------------------------------------------
(* The search.                                                             *)

SearchSteps == {"ready", "started", "querying", "merged", "gated", "answered", "saved", "done",
                "error", "refused"}
Searches ==
  [step : SearchSteps, targets : SUBSET Nat, todo : SUBSET ({"fts", "ann"} \X Nat),
   queried : SUBSET Nat, found : SUBSET Videos, shown : SUBSET Videos, used : SUBSET Videos,
   barred : BOOLEAN]
Anns == {g \in Nat : <<"ann", g>> \in search.todo}

\* What was queried and what is left make the targets, and nothing is shown before
\* the gate.  What is stored, and told by feedback, is what the search came to.
SearchInv ==
  /\ search \in Searches
  /\ search.used \subseteq search.shown /\ (Before => search.shown = {})
  /\ search.step \in {"ready", "started"} => search.queried = {}
  /\ search.step = "querying" => search.targets = search.queried \union Anns
  /\ search.step \in {"merged", "gated", "answered"} => search.queried = search.targets
StoredInv ==
  /\ rows.snapshot.saved =>
       search.step \in {"saved", "done"} /\ rows.snapshot = Snapshot(search.queried)
  /\ \A e \in events : search.step = "done" /\ e.search = Snapshot(search.queried)

LEMMA InitSearch == Init => SearchInv /\ StoredInv
<1> SUFFICES ASSUME Init PROVE SearchInv /\ StoredInv OBVIOUS
<1>1. PICK s \in {"ready", "refused"} :
        search = [step |-> s, targets |-> {}, todo |-> {}, queried |-> {}, found |-> {},
                  shown |-> {}, used |-> {}, barred |-> FALSE]
  <2>1. search = NewSearch \/ search = [NewSearch EXCEPT !.step = "refused"] BY DEF Init
  <2> QED BY <2>1 DEF NewSearch
<1>2. SearchInv BY <1>1 DEF SearchInv, Searches, SearchSteps, Before, Anns
<1>3. StoredInv BY DEF Init, StoredInv, NoSnapshot
<1> QED BY <1>2, <1>3

\* Keeping a search back changes nothing else.
LEMMA Barring ==
  ASSUME SearchInv, StoredInv, Bar, UNCHANGED <<rows, events>> PROVE SearchInv' /\ StoredInv'
<1>1. search' = [search EXCEPT !.barred = @ \/ Before] /\ Before \in BOOLEAN BY DEF Bar, Before
<1>2. /\ search'.step = search.step /\ search'.targets = search.targets /\ search'.todo = search.todo
      /\ search'.queried = search.queried /\ search'.shown = search.shown /\ search'.used = search.used
  BY <1>1 DEF SearchInv, Searches
<1>3. Before' = Before /\ Anns' = Anns BY <1>2 DEF Before, Anns
<1>4. search' \in Searches
  BY <1>1 DEF SearchInv, Searches
<1>5. SearchInv' BY <1>2, <1>3, <1>4 DEF SearchInv, Searches
<1>6. Snapshot(search.queried)' = Snapshot(search.queried) BY <1>2 DEF Snapshot
<1>7. StoredInv' BY <1>2, <1>6 DEF StoredInv
<1> QED BY <1>5, <1>7

LEMMA Finding ==
  ASSUME SearchInv, NEW q \in search.todo, Query(q) PROVE SearchInv' /\ search'.shown = search.shown
<1>1. PICK hits \in SUBSET Videos :
        search' = [search EXCEPT !.todo = @ \ {q}, !.found = @ \union hits,
                                 !.queried = IF q[1] = "ann" THEN @ \union {q[2]} ELSE @]
  <2>1. Chunks \in SUBSET Videos /\ {v \in Chunks : q[2] \in vectors[v]} \in SUBSET Videos
    BY DEF Chunks, Rows
  <2>2. {} \in SUBSET Videos /\ SUBSET Chunks \subseteq SUBSET Videos BY <2>1
  <2> QED BY <2>1, <2>2 DEF Query
<1>2. search.step = "querying" BY DEF Query, SearchStep
<1>3. q \in {"fts", "ann"} \X Nat BY DEF SearchInv, Searches
<1>4. search' \in Searches
  BY <1>1, <1>3 DEF SearchInv, Searches
<1>5. /\ search'.step = "querying" /\ search'.targets = search.targets /\ search'.shown = search.shown
      /\ search'.used = search.used /\ search'.todo = search.todo \ {q}
      /\ search'.queried = IF q[1] = "ann" THEN search.queried \union {q[2]} ELSE search.queried
  BY <1>1, <1>2 DEF SearchInv, Searches
<1>6. search'.targets = search'.queried \union Anns'
  <2>1. CASE q[1] = "ann"
    <3>1. q = <<"ann", q[2]>> /\ q[2] \in Nat BY <1>3, <2>1
    <3>2. Anns = Anns' \union {q[2]} BY <1>5, <3>1 DEF Anns
    <3> QED BY <1>2, <1>5, <2>1, <3>2 DEF SearchInv, Searches
  <2>2. CASE q[1] # "ann"
    <3>1. Anns' = Anns BY <1>5, <2>2 DEF Anns
    <3> QED BY <1>2, <1>5, <2>2, <3>1 DEF SearchInv, Searches
  <2> QED BY <2>1, <2>2
<1> QED BY <1>2, <1>4, <1>5, <1>6 DEF SearchInv, Searches, Before

LEMMA AskingSearches ==
  ASSUME SearchInv, StoredInv, RowsInv, Asking PROVE SearchInv' /\ StoredInv'
<1> USE DEF Anns, SearchSteps, Before
<1>1. CASE Begin
  <2>1. /\ search.step = "ready" /\ UNCHANGED <<rows, events>>
        /\ \E s \in {"started", "refused"} : search' = [search EXCEPT !.step = s]
    BY <1>1 DEF Begin, SearchStep, To
  <2> QED BY <2>1 DEF SearchInv, Searches, StoredInv
<1>2. CASE TakeTargets
  <2>1. /\ search.step = "started" /\ UNCHANGED <<rows, events>>
        /\ search' = [search EXCEPT !.step = "querying", !.targets = Served(targets),
             !.todo = {<<"fts", 0>>} \union {<<"ann", g>> : g \in Served(targets)}]
    BY <1>2 DEF TakeTargets, SearchStep, To, SearchInv, Searches
  <2>2. Served(targets) \subseteq Nat BY DEF Served
  <2>3. {<<"fts", 0>>} \union {<<"ann", g>> : g \in Served(targets)} \subseteq {"fts", "ann"} \X Nat
    BY <2>2
  <2>4. search'.todo = {<<"fts", 0>>} \union {<<"ann", g>> : g \in Served(targets)}
    BY <2>1 DEF SearchInv, Searches
  <2>5. Anns' = Served(targets) BY <2>2, <2>4
  <2>6. SearchInv'
    <3> HIDE DEF Anns
    <3> QED BY <2>1, <2>2, <2>3, <2>5 DEF SearchInv, Searches
  <2>7. ~rows.snapshot.saved /\ events = {} BY <2>1 DEF StoredInv
  <2> QED BY <2>1, <2>6, <2>7 DEF StoredInv
<1>3. ASSUME NEW q \in search.todo, Query(q) PROVE SearchInv' /\ StoredInv'
  <2>1. search.step = "querying" /\ UNCHANGED <<rows, events>> BY <1>3 DEF Query, SearchStep
  <2>2. SearchInv' BY <1>3, Finding
  <2> QED BY <2>1, <2>2 DEF StoredInv
<1>4. CASE Merge
  <2>1. PICK best \in Best(search.found) : search' = [To(IF best = {} THEN "saved" ELSE "merged") EXCEPT !.found = best]
    BY <1>4 DEF Merge
  <2>2. best \in SUBSET Videos BY <2>1 DEF Best, kSubset, SearchInv, Searches
  <2>3. /\ search.step = "querying" /\ search.todo = {} /\ UNCHANGED <<rows, events>>
        /\ \E s \in {"saved", "merged"} : search' = [search EXCEPT !.step = s, !.found = best]
    BY <1>4, <2>1 DEF Merge, SearchStep, To, SearchInv, Searches
  <2>4. Anns = {} /\ search.queried = search.targets BY <2>3 DEF SearchInv, Searches
  <2>5. /\ search'.step \in {"saved", "merged"} /\ search'.queried = search'.targets
        /\ search'.used = search.used /\ search'.shown = {}
    BY <2>3, <2>4 DEF SearchInv, Searches
  <2>6. search' \in Searches
    BY <2>2, <2>3 DEF SearchInv, Searches
  <2>7. SearchInv' BY <2>3, <2>5, <2>6 DEF SearchInv, Searches
  <2> QED BY <2>3, <2>7 DEF StoredInv
<1>5. CASE Gate
  <2>1. PICK some \in SUBSET Videos : search' = Shown(some) BY <1>5 DEF Gate, Chunks, Rows, SearchInv, Searches
  <2>2. /\ search.step = "merged" /\ UNCHANGED <<rows, events>>
        /\ \E s \in {"saved", "gated"} : search' = [search EXCEPT !.step = s, !.shown = some]
    BY <1>5, <2>1 DEF Gate, SearchStep, Shown, To, SearchInv, Searches
  <2> QED BY <2>1, <2>2 DEF SearchInv, Searches, StoredInv
<1>6. CASE Answer
  <2>1. PICK used \in SUBSET search.shown : search' = [search EXCEPT !.step = "answered", !.used = used]
    BY <1>6 DEF Answer, UsedRefs, To, SearchInv, Searches
  <2>2. search.step = "gated" /\ UNCHANGED <<rows, events>> BY <1>6 DEF Answer, SearchStep
  <2> QED BY <2>1, <2>2 DEF SearchInv, Searches, StoredInv
<1>7. CASE SaveSnapshot
  <2>1. /\ search.step = "answered" /\ search' = [search EXCEPT !.step = "saved"] /\ UNCHANGED events
        /\ UNCHANGED rows \/ rows' = [rows EXCEPT !.snapshot = Snapshot(search.targets)]
    BY <1>7 DEF SaveSnapshot, StoreSnapshot, SearchStep, To
  <2>2. SearchInv' BY <2>1 DEF SearchInv, Searches
  <2>3. Snapshot(search.queried)' = Snapshot(search.targets)
    <3>1. search'.shown = search.shown /\ search'.used = search.used /\ search'.queried = search.targets
      BY <2>1 DEF SearchInv, Searches
    <3> QED BY <3>1 DEF Snapshot
  <2>4. rows'.snapshot = Snapshot(search.targets) \/ rows'.snapshot = rows.snapshot BY <2>1 DEF RowsInv
  <2>5. StoredInv'
    <3> HIDE DEF Snapshot
    <3> QED BY <2>1, <2>3, <2>4 DEF StoredInv, SearchInv, Searches
  <2> QED BY <2>2, <2>5
<1>8. CASE SaveConversation
  <2>1. /\ search.step = "saved" /\ search' = [search EXCEPT !.step = "done"] /\ UNCHANGED events
        /\ rows' = [rows EXCEPT !.conversation = Exists]
    BY <1>8 DEF SaveConversation, SearchStep, To
  <2>2. SearchInv' BY <2>1 DEF SearchInv, Searches
  <2>3. Snapshot(search.queried)' = Snapshot(search.queried) BY <2>1 DEF Snapshot, SearchInv, Searches
  <2>4. rows'.snapshot = rows.snapshot BY <2>1 DEF RowsInv
  <2>5. StoredInv' BY <2>1, <2>3, <2>4 DEF StoredInv, SearchInv, Searches
  <2> QED BY <2>2, <2>5
<1>9. CASE EmbeddingFails \/ LanguageModelFails
  <2>1. /\ search.step \in {"querying", "gated"} /\ search' = [search EXCEPT !.step = "error"]
        /\ UNCHANGED <<rows, events>>
    BY <1>9 DEF EmbeddingFails, LanguageModelFails, FailAt, SearchStep, To
  <2> QED BY <2>1 DEF SearchInv, Searches, StoredInv
<1>10. ASSUME NEW rating \in Ratings, Feedback(rating) PROVE SearchInv' /\ StoredInv'
  <2>1. /\ search.step = "done" /\ rows.snapshot.saved /\ UNCHANGED <<search, rows>>
        /\ events' = events \union {[rating |-> rating, search |-> rows.snapshot]}
    BY <1>10 DEF Feedback, Deliver, SearchStep
  <2>2. SearchInv' BY <2>1 DEF SearchInv, Searches
  <2>3. Snapshot(search.queried)' = Snapshot(search.queried) BY <2>1 DEF Snapshot
  <2>4. StoredInv'
    <3> HIDE DEF Snapshot
    <3> QED BY <2>1, <2>3 DEF StoredInv
  <2> QED BY <2>2, <2>4
<1> QED BY <1>1, <1>2, <1>3, <1>4, <1>5, <1>6, <1>7, <1>8, <1>9, <1>10 DEF Asking, Searching

SearchHeld == Held /\ RequestsInv /\ SearchInv /\ StoredInv

LEMMA NextSearch == SearchHeld /\ [Next]_vars => SearchHeld'
<1> SUFFICES ASSUME SearchHeld, [Next]_vars PROVE SearchInv' /\ StoredInv'
  BY NextHeld DEF SearchHeld
<1> USE DEF SearchHeld
<1>1. CASE Asking BY <1>1, AskingSearches DEF Held
<1>2. CASE Bar /\ UNCHANGED <<rows, events>> BY <1>2, Barring
<1>3. CASE UNCHANGED <<search, rows, events>>
  <2>1. Snapshot(search.queried)' = Snapshot(search.queried) BY <1>3 DEF Snapshot
  <2> QED BY <1>3, <2>1 DEF SearchInv, Before, Anns, StoredInv
<1>4. CASE Working
  <2>1. UNCHANGED <<search, events>> BY <1>4, WorkingKeeps
  <2>2. UNCHANGED rows \/ rows'.snapshot = NoSnapshot
    BY <1>4 DEF Working, Job, JobCrash, ListVideos, CheckClaims, DeleteArtifacts, HardDelete, DeleteRecords,
                RecordsDeleted, AckDelete, searching
  <2>3. Snapshot(search.queried)' = Snapshot(search.queried) BY <2>1 DEF Snapshot
  <2>4. SearchInv' BY <2>1 DEF SearchInv, Before, Anns
  <2>5. StoredInv'
    <3>1. NoSnapshot.saved = FALSE BY DEF NoSnapshot
    <3> QED BY <2>1, <2>2, <2>3, <3>1 DEF StoredInv
  <2> QED BY <2>4, <2>5
<1>5. UNCHANGED vars => UNCHANGED <<search, rows, events>> BY DEF vars
<1> QED BY <1>1, <1>2, <1>3, <1>4, <1>5, NextByActor, RequestingKeeps, CreatingKeeps, ExcludeKeeps,
           ReloadingKeeps

-----------------------------------------------------------------------------
(* A search that is kept back.                                             *)

Barred ==
  search.barred => /\ search.shown = {}
                   /\ serving = "ROLLBACK_EXCLUDED" \/ \E d \in Deletes : del[d].step = "accepted"
Kept == SearchHeld /\ Orderly /\ Barred

LEMMA NextKept == ~OverlappingDeletes /\ Kept /\ [Next]_vars => Kept'
<1> SUFFICES ASSUME ~OverlappingDeletes, Kept, [Next]_vars PROVE Barred'
  BY NextSearch, NextOrderly DEF Kept
<1> USE DEF Kept, SearchHeld
<1>1. ASSUME Requesting, UNCHANGED search PROVE Barred'
  <2>1. UNCHANGED serving BY <1>1, RequestingKeeps
  <2>2. \A d \in Deletes : del[d].step = "accepted" => del'[d].step = "accepted"
    BY <1>1 DEF Requesting, Request, ReadProject, MarkDeleting, Publish, Restore, RestoreTo, PublishFails,
                ApiCrash, RequestsInv
  <2> QED BY <1>1, <2>1, <2>2 DEF Barred
<1>2. ASSUME Bar PROVE search'.barred = (search.barred \/ Before) /\ search'.shown = search.shown
  BY <1>2 DEF Bar, Before, SearchInv, Searches
<1>3. ASSUME NEW d \in Deletes, Publish(d) PROVE Barred'
  <2>1. Bar /\ del' = [del EXCEPT ![d].step = "accepted"] BY <1>3 DEF Publish
  <2>2. del'[d].step = "accepted" BY <2>1 DEF RequestsInv
  <2> QED BY <1>2, <2>1, <2>2 DEF Barred, SearchInv
<1>4. CASE Exclude
  <2>1. Bar /\ serving' = "ROLLBACK_EXCLUDED" BY <1>4, ExcludeKeeps
  <2> QED BY <1>2, <2>1 DEF Barred, SearchInv
<1>5. CASE Asking
  <2>1. UNCHANGED <<serving, del>> BY <1>5, AskingKeeps
  <2>2. search'.barred = search.barred
    BY <1>5 DEF Asking, Searching, Begin, TakeTargets, Query, Merge, Gate, Shown, Answer, SaveSnapshot,
                StoreSnapshot, SaveConversation, EmbeddingFails, LanguageModelFails, FailAt, Feedback, To,
                SearchInv, Searches
  <2>3. search'.shown = search.shown \/ Gate
    BY <1>5 DEF Asking, Searching, Begin, TakeTargets, Query, Merge, Answer, SaveSnapshot,
                StoreSnapshot, SaveConversation, EmbeddingFails, LanguageModelFails, FailAt, Feedback, To,
                SearchInv, Searches
  <2>4. ASSUME Gate, search.barred PROVE search'.shown = {}
    <3>1. ~Servable BY <2>4 DEF Barred, Servable, Orderly, Turns
    <3>2. search' = Shown({}) BY <2>4, <3>1 DEF Gate
    <3> QED BY <3>2 DEF Shown, To, SearchInv, Searches
  <2> QED BY <2>1, <2>2, <2>3, <2>4 DEF Barred
<1>6. UNCHANGED <<serving, del, search>> => Barred' BY DEF Barred
<1>7. Requesting => UNCHANGED search \/ \E d \in Deletes : Publish(d)
  BY DEF Requesting, Request, ReadProject, MarkDeleting, Restore, RestoreTo, PublishFails, ApiCrash
<1>8. UNCHANGED vars => UNCHANGED <<serving, del, search>> BY DEF vars
<1> QED BY <1>1, <1>3, <1>4, <1>5, <1>6, <1>7, <1>8, NextByActor, WorkingKeeps, CreatingKeeps, ReloadingKeeps

-----------------------------------------------------------------------------
(* The theorems.                                                           *)

\* Where core-api answers one request to delete before it takes the next, a deletion
\* is never left half done with nothing to finish it, whatever fails or crashes
\* (project_service.py:95, delete_project.py:29).
THEOREM DeletionStaysWhole == ASSUME ~OverlappingDeletes PROVE Spec => []DeletionIsWhole
<1>1. Init => SearchHeld /\ Orderly
  BY InitHeld, InitRequests, InitSearch, InitOrderly DEF SearchHeld
<1>2. SearchHeld /\ Orderly /\ [Next]_vars => (SearchHeld /\ Orderly)' BY NextSearch, NextOrderly
<1>3. SearchHeld /\ Orderly => DeletionIsWhole
  <2> SUFFICES ASSUME SearchHeld, Orderly PROVE DeletionIsWhole OBVIOUS
  <2> USE DEF SearchHeld, Orderly, Held
  <2>1. TypeOK
    BY DEF TypeOK, ReloadInv, VideoInv, RequestsInv, RequestSteps, SearchInv, Searches
  <2>2. DeletingIsQueued BY DEF DeletingIsQueued, Queued, Exists
  <2> QED BY <2>1, <2>2 DEF DeletionIsWhole
<1> QED BY <1>1, <1>2, <1>3, PTL DEF Spec

\* Under the same condition a search that had not passed its gate when a deletion was
\* accepted, or the project excluded, shows nothing (search_repository.py:26, :289).
THEOREM BarredStaysHidden == ASSUME ~OverlappingDeletes PROVE Spec => []BarredShowsNothing
<1>1. Init => Kept
  <2>1. Init => ~search.barred BY DEF Init, NewSearch
  <2> QED BY <2>1, InitHeld, InitRequests, InitSearch, InitOrderly DEF Kept, SearchHeld, Barred
<1>2. Kept => BarredShowsNothing BY DEF Kept, Barred, BarredShowsNothing
<1> QED BY <1>1, <1>2, NextKept, PTL DEF Spec

\* Feedback tells what its search queried and showed, with any number of reloads in
\* between and whether requests overlap or not (search_orchestrator.py:326).
THEOREM EventsStayTrue == Spec => []EventsTellTheSearch
<1>1. Init => SearchHeld BY InitHeld, InitRequests, InitSearch DEF SearchHeld
<1>2. SearchHeld => EventsTellTheSearch
  BY DEF SearchHeld, StoredInv, EventsTellTheSearch, Snapshot
<1> QED BY <1>1, <1>2, NextSearch, PTL DEF Spec
=============================================================================
