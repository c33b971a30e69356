--------------------------- MODULE ProjectSearch ---------------------------
(***************************************************************************)
(* One project from its users' side: core-api marks it for deletion and    *)
(* publishes, a pipeline-worker removes it, another one may be processing  *)
(* its videos, and meanwhile search-service answers one question about it. *)
(*                                                                         *)
(* A video has one chunk, named by the video.  The release moves through   *)
(* generations: generation g serves index g, and g - 1 besides.  What a    *)
(* video's own messages do is in VideoLifecycle and what the release does  *)
(* in ModelRelease; objects in storage are left to VideoLifecycle.         *)
(***************************************************************************)
EXTENDS Integers, FiniteSets, FiniteSetsExt

CONSTANTS
  Videos, First,        \* First is READY at the start, the others may be created
  Deletes,              \* requests to delete the project
  Reloads,              \* calls of reload-serving-targets
  Ratings,
  TopK,
  OverlappingDeletes,   \* may a request start before the answer to another?
  MaxActive,            \* bound: of a creation, the search and the reloads, how many happen
  MaxSwitch, MaxFaults  \* bounds

ASSUME ProjectAssumption ==
  /\ IsFiniteSet(Videos) /\ First \in Videos /\ TopK \in Nat \ {0}
  /\ OverlappingDeletes \in BOOLEAN /\ {MaxActive, MaxSwitch, MaxFaults} \subseteq Nat

VARIABLES
  project,   \* "ACTIVE", "DELETING" or "gone"
  serving,   \* "SERVABLE" or "ROLLBACK_EXCLUDED"
  status,    \* status of each video; "none" without a row
  claims,    \* videos with a fresh processing claim
  vectors,   \* for each video the indexes its chunk has a vector in; {} without a chunk
  creator,   \* step of a request that creates a video
  pipe,      \* the video that a pipeline works on and its step
  del,       \* for each request its step and the lifecycle state it read
  queue,     \* the delete messages
  job,       \* the worker that deletes: its step, message and video ids
  release,   \* generation of the committed release
  targets,   \* generation that search-service has loaded
  reload,    \* for each call its step and the generation it read
  search,    \* the search
  rows,      \* what is stored of it: the snapshot and whether there is a conversation
  events,    \* feedback events the ingestion service received
  faults
video == <<status, claims>>
videos == <<video, vectors, creator, pipe>>
deleting == <<del, queue, job>>
loading == <<release, targets, reload>>
searching == <<search, rows, events>>
vars == <<project, serving, status, claims, vectors, creator, pipe, del, queue, job,
          release, targets, reload, search, rows, events, faults>>

Fault == faults < MaxFaults /\ faults' = faults + 1
NoFault == UNCHANGED faults

NoSnapshot == [saved |-> FALSE]
NoJob == [step |-> "idle", msg |-> CHOOSE d \in Deletes : TRUE, ids |-> {}]
NoPipe == [step |-> "idle", video |-> First]
NewSearch == [step |-> "ready", targets |-> {}, todo |-> {}, queried |-> {}, found |-> {},
              shown |-> {}, used |-> {}, barred |-> FALSE]

Init ==
  /\ project = "ACTIVE" /\ serving = "SERVABLE"
  /\ status = [v \in Videos |-> IF v = First THEN "READY" ELSE "none"]
  /\ claims = {} /\ vectors = [v \in Videos |-> IF v = First THEN {0} ELSE {}]
  /\ pipe = NoPipe
  /\ del = [d \in Deletes |-> [step |-> "ready", prev |-> "ACTIVE"]] /\ queue = {} /\ job = NoJob
  /\ release = 0 /\ targets = 0
  /\ \E active \in SUBSET {"creation", "search", "reloads"} :
       /\ Cardinality(active) = MaxActive
       /\ creator = IF "creation" \in active THEN "ready" ELSE "done"
       /\ search = IF "search" \in active THEN NewSearch ELSE [NewSearch EXCEPT !.step = "refused"]
       /\ reload = [r \in Reloads |->
            [step |-> IF "reloads" \in active THEN "ready" ELSE "done", read |-> 0]]
  /\ rows = [snapshot |-> NoSnapshot, conversation |-> FALSE]
  /\ events = {} /\ faults = 0

Exists == project # "gone"
Rows == {v \in Videos : status[v] # "none"}

(***************************************************************************)
(* Requests to delete the project.                                         *)
(***************************************************************************)

Answered == {"accepted", "failed", "refused", "crashed"}
Overlaps(d) == \E e \in Deletes \ {d} : del[e].step \notin Answered \union {"ready"}

\* The search is before its gate: what it has not yet shown can still be kept back.
Before == search.step \in {"ready", "started", "querying", "merged"}
Bar == search' = [search EXCEPT !.barred = @ \/ Before]

RequestKeeps == /\ UNCHANGED <<serving, job, rows, events>> /\ UNCHANGED <<videos, loading>>

ReadProject(d) ==
  /\ del[d].step = "ready" /\ (~OverlappingDeletes => ~Overlaps(d))
  /\ del' = [del EXCEPT ![d] = IF Exists THEN [step |-> "read", prev |-> project]
                               ELSE [@ EXCEPT !.step = "refused"]]
  /\ UNCHANGED <<project, queue, search>> /\ NoFault /\ RequestKeeps

\* Only a change is written, and needs the row.
MarkDeleting(d) ==
  /\ del[d].step = "read"
  /\ IF del[d].prev = "DELETING" THEN del' = [del EXCEPT ![d].step = "marked"] /\ UNCHANGED project
     ELSE /\ del' = [del EXCEPT ![d].step = IF Exists THEN "marked" ELSE "failed"]
          /\ project' = IF Exists THEN "DELETING" ELSE project
  /\ UNCHANGED <<queue, search>> /\ NoFault /\ RequestKeeps

Publish(d) ==
  /\ del[d].step = "marked" /\ del' = [del EXCEPT ![d].step = "accepted"]
  /\ queue' = queue \union {d} /\ Bar
  /\ UNCHANGED project /\ NoFault /\ RequestKeeps

\* All attempts failed; one of them may have stored the message nevertheless.
PublishFails(d) ==
  /\ del[d].step = "marked" /\ Fault /\ del' = [del EXCEPT ![d].step = "restoring"]
  /\ queue' \in {queue, queue \union {d}}
  /\ UNCHANGED <<project, search>> /\ RequestKeeps

RestoreTo(d, lifecycle) ==
  /\ del[d].step = "restoring" /\ del' = [del EXCEPT ![d].step = "failed"]
  /\ project' = IF Exists THEN lifecycle ELSE project
  /\ UNCHANGED <<queue, search>> /\ NoFault /\ RequestKeeps

\* Mutation: a failed deletion leaves the project as it is.
RestoreNothing(d) == RestoreTo(d, project)

Restore(d) == RestoreTo(d, del[d].prev)

ApiCrash(d) ==
  /\ del[d].step \in {"marked", "restoring"} /\ Fault
  /\ del' = [del EXCEPT ![d].step = "crashed"]
  /\ UNCHANGED <<project, queue, search>> /\ RequestKeeps

(***************************************************************************)
(* The worker that deletes.  A failed or interrupted job keeps its message.*)
(***************************************************************************)

JobStep(from) ==
  /\ job.step = from /\ NoFault
  /\ UNCHANGED <<serving, del, creator, pipe, search, events>> /\ UNCHANGED loading
NextJob(step) == job' = [job EXCEPT !.step = step]

ListVideos(d) ==
  /\ JobStep("idle") /\ d \in queue
  /\ job' = [step |-> IF Rows = {} THEN "records" ELSE "listed", msg |-> d, ids |-> Rows]
  /\ UNCHANGED <<project, video, vectors, queue, rows>>

\* DeletionDeferred leaves the message to a later delivery.
CheckClaims ==
  /\ JobStep("listed")
  /\ IF job.ids \intersect claims # {} THEN job' = NoJob ELSE NextJob("objects")
  /\ UNCHANGED <<project, video, vectors, queue, rows>>

DeleteArtifacts ==
  /\ JobStep("objects") /\ NextJob("artifacts")
  /\ vectors' = [v \in Videos |-> IF v \in job.ids THEN {} ELSE vectors[v]]
  /\ UNCHANGED <<project, video, queue, rows>>

\* A chunk written since then refers to its video.
HardDelete ==
  /\ JobStep("artifacts")
  /\ IF \E v \in job.ids : vectors[v] # {} THEN job' = NoJob /\ UNCHANGED video
     ELSE /\ NextJob("records") /\ claims' = claims \ job.ids
          /\ status' = [v \in Videos |-> IF v \in job.ids THEN "none" ELSE status[v]]
  /\ UNCHANGED <<project, vectors, queue, rows>>

Ack == job' = [job EXCEPT !.step = "ack"]
RecordsDeleted ==
  Ack /\ project' = "gone" /\ rows' = [snapshot |-> NoSnapshot, conversation |-> FALSE]

\* Mutation: the rows of its searches, which refer to the project, are not deleted.
DeleteRecordsOnly ==
  /\ JobStep("records")
  /\ IF Rows # {} \/ rows.conversation THEN job' = NoJob /\ UNCHANGED <<project, rows>>
     ELSE RecordsDeleted
  /\ UNCHANGED <<video, vectors, queue>>

\* One transaction; a video created since the listing refers to the project.
DeleteRecords ==
  /\ JobStep("records")
  /\ IF Rows # {} THEN job' = NoJob /\ UNCHANGED <<project, rows>> ELSE RecordsDeleted
  /\ UNCHANGED <<video, vectors, queue>>

AckDelete ==
  /\ JobStep("ack") /\ job' = NoJob /\ queue' = queue \ {job.msg}
  /\ UNCHANGED <<project, video, vectors, rows>>

JobCrash ==
  /\ job.step # "idle" /\ Fault /\ job' = NoJob
  /\ UNCHANGED <<project, serving, del, queue>> /\ UNCHANGED <<videos, loading, searching>>

(***************************************************************************)
(* Videos that are created and processed meanwhile.                        *)
(***************************************************************************)

VideoStep ==
  /\ UNCHANGED <<project, serving>> /\ UNCHANGED <<deleting, loading, searching>>

\* The project and the new row are read and written in one transaction, unlocked.
CheckProject ==
  /\ creator = "ready"
  /\ creator' = IF project = "ACTIVE" /\ serving = "SERVABLE" THEN "checked" ELSE "done"
  /\ UNCHANGED <<video, vectors, pipe>> /\ NoFault /\ VideoStep

CreateVideo(v) ==
  /\ creator = "checked" /\ v # First /\ creator' = "done"
  /\ status' = IF Exists THEN [status EXCEPT ![v] = "PENDING"] ELSE status
  /\ UNCHANGED <<claims, vectors, pipe>> /\ NoFault /\ VideoStep

ClaimVideo(v) ==
  /\ pipe.step = "idle" /\ v \notin claims /\ status[v] \in {"PENDING", "PROCESSING"}
  /\ status' = [status EXCEPT ![v] = "PROCESSING"] /\ claims' = claims \union {v}
  /\ pipe' = [step |-> "claimed", video |-> v]
  /\ UNCHANGED <<creator, vectors>> /\ NoFault /\ VideoStep

\* Chunk, vector, READY and the end of the claim are one transaction, which fails
\* without the video.
PersistChunk ==
  /\ pipe.step = "claimed" /\ pipe' = NoPipe
  /\ IF status[pipe.video] = "none" THEN UNCHANGED <<vectors, video>>
     ELSE /\ vectors' = [vectors EXCEPT ![pipe.video] = @ \union {release}]
          /\ status' = [status EXCEPT ![pipe.video] = "READY"] /\ claims' = claims \ {pipe.video}
  /\ UNCHANGED creator /\ NoFault /\ VideoStep

PipeCrash ==
  /\ pipe.step # "idle" /\ Fault /\ pipe' = NoPipe
  /\ UNCHANGED <<creator, video, vectors>> /\ VideoStep

ClaimExpires ==
  /\ pipe.step = "idle" /\ claims # {} /\ claims' = {}
  /\ UNCHANGED <<creator, status, vectors, pipe>> /\ NoFault /\ VideoStep

Reembed(v) ==
  /\ status[v] = "READY" /\ vectors[v] # {} /\ release \notin vectors[v]
  /\ vectors' = [vectors EXCEPT ![v] = @ \union {release}]
  /\ UNCHANGED <<creator, video, pipe>> /\ NoFault /\ VideoStep

\* A rollback that excludes the project from search.
Exclude ==
  /\ serving = "SERVABLE" /\ Exists /\ Fault /\ serving' = "ROLLBACK_EXCLUDED" /\ Bar
  /\ UNCHANGED <<project, rows, events>> /\ UNCHANGED <<videos, deleting, loading>>

(***************************************************************************)
(* The release and its copy in search-service.                             *)
(***************************************************************************)

LoadStep == NoFault /\ UNCHANGED <<project, serving>> /\ UNCHANGED <<videos, deleting, searching>>

\* A release that no call will load makes no difference here.
Switch ==
  /\ release < MaxSwitch /\ (\E r \in Reloads : reload[r].step # "done") /\ release' = release + 1
  /\ UNCHANGED <<targets, reload>> /\ LoadStep

\* The lock is held from the reading of the row until the targets are replaced.
Locked == \E r \in Reloads : reload[r].step = "read"

\* Mutation: the row is read before the lock is taken.
ReadReleaseUnlocked(r) ==
  /\ reload[r].step = "ready" /\ reload' = [reload EXCEPT ![r] = [step |-> "read", read |-> release]]
  /\ UNCHANGED <<release, targets>> /\ LoadStep

ReadRelease(r) ==
  /\ reload[r].step = "ready" /\ ~Locked
  /\ reload' = [reload EXCEPT ![r] = [step |-> "read", read |-> release]]
  /\ UNCHANGED <<release, targets>> /\ LoadStep

SetTargets(r) ==
  /\ reload[r].step = "read" /\ reload' = [reload EXCEPT ![r].step = "done"]
  /\ targets' = reload[r].read
  /\ UNCHANGED release /\ LoadStep

(***************************************************************************)
(* The search.                                                             *)
(***************************************************************************)

SearchStep(from) ==
  /\ search.step = from
  /\ UNCHANGED <<project, serving>> /\ UNCHANGED <<videos, deleting, loading>>
To(step) == [search EXCEPT !.step = step]

AllReady == \A v \in Rows : status[v] = "READY"
Servable == project = "ACTIVE" /\ serving = "SERVABLE" /\ AllReady
Chunks == {v \in Rows : vectors[v] # {}}
Served(generation) == {g \in {generation, generation - 1} : g \in Nat}

\* The generations are taken at once; the query is embedded for each of them.
Begin ==
  /\ SearchStep("ready") /\ UNCHANGED <<rows, events>> /\ NoFault
  /\ search' = To(IF project = "ACTIVE" /\ Rows # {} /\ AllReady THEN "started" ELSE "refused")

TakeTargets ==
  /\ SearchStep("started") /\ UNCHANGED <<rows, events>> /\ NoFault
  /\ search' = [To("querying") EXCEPT
       !.targets = Served(targets),
       !.todo = {<<"fts", 0>>} \union {<<"ann", g>> : g \in Served(targets)}]

\* Each query is a transaction of its own, and they run at the same time.
Query(q) ==
  /\ SearchStep("querying") /\ q \in search.todo /\ UNCHANGED <<rows, events>> /\ NoFault
  /\ \E hits \in IF ~Servable THEN {{}} ELSE IF q[1] = "fts" THEN SUBSET Chunks
                  ELSE {{v \in Chunks : q[2] \in vectors[v]}} :
       search' = [search EXCEPT !.todo = @ \ {q}, !.found = @ \union hits,
                                !.queried = IF q[1] = "ann" THEN @ \union {q[2]} ELSE @]

\* Reciprocal ranks order what was found, and the first TopK are kept.
Best(found) == IF Cardinality(found) <= TopK THEN {found} ELSE kSubset(TopK, found)

Merge ==
  /\ SearchStep("querying") /\ search.todo = {} /\ UNCHANGED <<rows, events>> /\ NoFault
  /\ \E best \in Best(search.found) :
       search' = [To(IF best = {} THEN "saved" ELSE "merged") EXCEPT !.found = best]

Shown(chunks) == [To(IF chunks = {} THEN "saved" ELSE "gated") EXCEPT !.shown = chunks]

\* Mutation: the results are not read again before they are used.
NoGate ==
  /\ SearchStep("merged") /\ UNCHANGED <<rows, events>> /\ NoFault
  /\ search' = Shown(search.found)

Gate ==
  /\ SearchStep("merged") /\ UNCHANGED <<rows, events>> /\ NoFault
  /\ search' = Shown(IF Servable THEN search.found \intersect Chunks ELSE {})

\* The refs the language model names; none unless it names them as it was told to.
UsedRefs == SUBSET search.shown

Answer ==
  /\ SearchStep("gated") /\ UNCHANGED <<rows, events>> /\ NoFault
  /\ \E used \in UsedRefs : search' = [To("answered") EXCEPT !.used = used]

FailAt(step) ==
  /\ SearchStep(step) /\ UNCHANGED <<rows, events>> /\ Fault /\ search' = To("error")

\* Each of them retries a timeout or an overload before it fails.
EmbeddingFails == FailAt("querying") /\ search.queried = {} /\ <<"fts", 0>> \in search.todo
LanguageModelFails == FailAt("gated")

Snapshot(served) ==
  [saved |-> TRUE, topk |-> search.shown, used |-> search.used,
   active |-> Max(served), paths |-> served]

StoreSnapshot(snapshot) ==
  /\ SearchStep("answered") /\ search' = To("saved") /\ UNCHANGED events
  /\ \/ rows' = (IF Exists THEN [rows EXCEPT !.snapshot = snapshot] ELSE rows) /\ NoFault
     \/ Fault /\ UNCHANGED rows

\* Mutation: the targets are read when the snapshot is written.
SaveSnapshotNow == StoreSnapshot(Snapshot(Served(targets)))

\* What cannot be stored is logged.
SaveSnapshot == StoreSnapshot(Snapshot(search.targets))

SaveConversation ==
  /\ SearchStep("saved") /\ search' = To("done") /\ NoFault
  /\ rows' = [rows EXCEPT !.conversation = Exists] /\ UNCHANGED events

\* At least once; the id of an event is made of the search and the rating.
Deliver(event) == events' = events \union {event}

Feedback(rating) ==
  /\ SearchStep("done") /\ rows.snapshot.saved /\ NoFault
  /\ Deliver([rating |-> rating, search |-> rows.snapshot])
  /\ UNCHANGED <<search, rows>>

(***************************************************************************)
(* The specification.                                                      *)
(***************************************************************************)

Request(d) == ReadProject(d) \/ MarkDeleting(d) \/ Publish(d) \/ Restore(d)
Job == \/ \E d \in Deletes : ListVideos(d)
       \/ CheckClaims
       \/ DeleteArtifacts
       \/ HardDelete
       \/ DeleteRecords
       \/ AckDelete
Pipeline == PersistChunk \/ ClaimExpires
Searching == \/ Begin
             \/ TakeTargets
             \/ \E q \in search.todo : Query(q)
             \/ Merge
             \/ Gate
             \/ Answer
             \/ SaveSnapshot
             \/ SaveConversation

Next ==
  \/ \E d \in Deletes : Request(d) \/ PublishFails(d) \/ ApiCrash(d)
  \/ Job
  \/ JobCrash
  \/ CheckProject
  \/ \E v \in Videos : CreateVideo(v) \/ ClaimVideo(v) \/ Reembed(v)
  \/ Pipeline
  \/ PipeCrash
  \/ Exclude
  \/ Switch
  \/ \E r \in Reloads : ReadRelease(r) \/ SetTargets(r)
  \/ Searching
  \/ EmbeddingFails
  \/ LanguageModelFails
  \/ \E rating \in Ratings : Feedback(rating)

Spec == Init /\ [][Next]_vars

\* Deliveries are repeated until one is acknowledged, and workers are started again.
FairSpec == Spec /\ WF_vars(Job) /\ WF_vars(Pipeline)

(***************************************************************************)
(* Properties.                                                             *)
(***************************************************************************)

\* Each variable keeps its type.
TypeOK ==
  /\ project \in {"ACTIVE", "DELETING", "gone"} /\ serving \in {"SERVABLE", "ROLLBACK_EXCLUDED"}
  /\ status \in [Videos -> {"none", "PENDING", "PROCESSING", "READY"}]
  /\ claims \subseteq Rows /\ \A v \in Videos : vectors[v] \subseteq 0..release
  /\ creator \in {"ready", "checked", "done"} /\ pipe.step \in {"idle", "claimed"}
  /\ \A d \in Deletes : del[d].step \in Answered \union {"ready", "read", "marked", "restoring"}
  /\ queue \subseteq Deletes /\ job.ids \subseteq Videos
  /\ release \in 0..MaxSwitch /\ targets \in 0..release
  /\ search.shown \subseteq Videos /\ search.used \subseteq search.shown

\* A row never outlives the project or video that it refers to, whatever is created
\* while the deletion works its way through the tables.
NothingDangles ==
  /\ {v \in Videos : vectors[v] # {}} \subseteq Rows
  /\ ~Exists => Rows = {} /\ ~rows.snapshot.saved /\ ~rows.conversation

\* A project that stays DELETING with no request at work has a message that will
\* remove it, although publishing may fail: what Restore is there for.  A crash of
\* core-api is excepted; another request puts it right.
DeletingIsQueued ==
  project = "DELETING" /\ (\A d \in Deletes : del[d].step \in {"ready", "accepted", "failed"})
    => queue # {}

\* A deletion is never left half done with nothing to finish it.
DeletionIsWhole == TypeOK /\ NothingDangles /\ DeletingIsQueued

\* Once a deletion was accepted, or the project excluded by a rollback, a search
\* that has not passed its gate shows nothing, whatever it had found by then and
\* whatever became of other deletions.
BarredShowsNothing == search.barred => search.shown = {}

\* Feedback tells what its search queried and showed, although the targets may
\* have been reloaded in between, and both ratings tell the same.
EventsTellTheSearch ==
  \A e \in events :
    /\ e.search.topk = search.shown /\ e.search.used = search.used
    /\ e.search.paths = search.queried /\ e.search.active = Max(search.queried)

\* Reloads that overlap never bring back an older release.
TargetsMoveForward == [][targets' >= targets]_vars

\* A message to delete the project removes it in the end, although videos and
\* searches may still be added to it and claims put the deletion off.
DeleteEnds == (queue # {}) ~> ~Exists
=============================================================================
