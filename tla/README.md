# Biblio in TLA+

Biblio stores users' videos, turns each into searchable chunks and vectors, answers
questions about them, and improves the embedding model from the feedback on its answers.
This directory models the parts of it where order, failure or arithmetic decide whether it
is right, checks the models with TLC and proves the theorems that matter most with TLAPS.
Paths below are relative to `src/services/` unless they start with `docs/`.

## 1. The system

| Component | State it keeps | Operations | Talks to |
| --- | --- | --- | --- |
| core-api, videos (`core-api/src/services/video_service.py`) | `video` rows (status, error, input type) | create, complete, retry, delete (one or many), list, playback | PGMQ (publish), bucket (signed URLs, exists) |
| core-api, projects, admin, feedback, auth | `project`, `search_feedback`, `user` rows; reads `model_release` | project CRUD, rollback trigger, feedback | PGMQ |
| pipeline-worker, videos (`pipeline-worker/src/usecases`, `services`) | `video.status` and `processing_claimed_at`, `asset`, `transcript_segment`, `chunk`, `vector_index_entry` rows; objects | claim, download, audio, transcription, keyframes, embedding, persist; deferred delete | PGMQ (read, archive), bucket, STT, embedding endpoint |
| pipeline-worker, long audio and text (`long_audio_transcription.py`, `transcript_merge_service.py`, `chunking_service.py`) | the parts of an audio in the bucket and their `asset` rows | cut, store, recognise in groups, merge, clean up; words to segments to chunks | bucket, STT |
| pipeline-worker, projects (`delete_project.py`) | `project` and its videos' rows | cascading delete | PGMQ, bucket |
| PGMQ | messages with a visibility timeout | send, read, archive | all services |
| search-service | the search targets it loaded (model, index); snapshots of searches | search, fuse, gate, answer; reload of targets; feedback | embedding endpoint, database, ingestion of events |
| managed-embedding-endpoint | loaded models, admission slots and queues | embed, reload of models, health | database, bucket |
| feedback-loop: runs (`run_control`, `runtime`) | `ml_pipeline_run` rows | schedule, take a run slot, train, evaluate, hand over | PGMQ, bucket |
| feedback-loop: release (`release`, `infra/db/stores.py`, `snapshot_registry.py`) | the singleton `model_release` row, `model_snapshot` rows, deployment attempts | open a candidate, cut over, block, roll back | embedding endpoint, search-service |
| feedback-loop: legacy reindex and recovery | `vector_index_catalog`, `legacy_reindex_item` rows, vectors; `ROLLBACK_EXCLUDED` projects | seed, embed, gate of the cutover; re-embed and re-admit excluded projects | embedding endpoint, PGMQ |
| feedback-loop: datasets, training, evaluation | files | feedback to training groups, rankings to a decision, numeric training | bucket |
| frontend | localStorage markers of uploads whose complete call is still owed | upload, polling, re-sent complete call | core-api, Supabase storage |
| Terraform, CI | none | deployment | - |

What makes it hard: every service has several instances and consumer loops, each handler
and task is a chain of short transactions with calls to other services in between, queues
deliver at least once, workers die with messages and claims in hand, some transactions last
for hours, and most writes go to a row by its key alone, whatever the row has become since
it was read.

What makes each component correct:

* **Videos**: one processor at a time; READY means searchable; a delete wins and finishes;
  nothing else is removed; processing ends.
* **Transcript**: every word of a long audio once and whole, although parts overlap and are
  cut in mid-word; nothing left behind in the bucket; the chunks are what was said.
* **Projects and search**: no row outlives its project; a failed publish restores it; what
  a search shows was still allowed at its gate; feedback tells what the search did.
* **Release**: row, snapshots, loaded models and search agree on one serving model; a
  candidate serves only when it is loaded and reindexed; a rollback starts only on the
  release its request names and returns to the one before it; transitions end.
* **Legacy reindex**: no video gets lost from the searched indexes; a finished item tells
  the truth; the gate opens in the end; excluded projects come back.
* **Runs**: one training at a time; a candidate is complete; no request is lost.
* **Embedding endpoint**: slots are never lost or given back twice; a waiter that gives up
  leaves no trace; the active model is loaded.
* **Datasets and evaluation**: a group teaches what users said, once; a decision follows
  the rankings.

## 2. Plan

| Step | State |
| --- | --- |
| `VideoLifecycle`, the abstract `VideoContract`, `VideoLifecycleProofs` | done |
| `ModelRelease`, the abstract `ReleaseHistory`, `ModelReleaseProofs` | done |
| `LegacyReindex`: legacy worker, cutover gate, rollback exclusion and recovery, `LegacyReindexProofs` | done |
| `EmbeddingEndpoint`: admission control, reloads, the three clients | done |
| `TrainingRuns`, `TrainingRunsProofs` | done |
| `ProjectSearch`: project deletion against uploads and searches, `ProjectSearchProofs` | done |
| `Transcription` with `TranscriptionProofs`, `TranscriptText` and `Datasets` with `AlgorithmsProofs` | done |
| `EmbeddingEndpointProofs` | done |
| The refinements `KeepsContract` and `KeepsHistory` as theorems | done |
| Every safety property of the passing runs as a theorem | done |
| What overlapping requests, deployments and rollbacks keep of what fails under them | left out: where they fail the code needs a decision first, see 6 |

The modules were written in this order: what users lose most by first (their videos), then
what can put every search wrong at once (the release), then what these two lean on.

## 3. Modules

| Module | Models | Extends / instantiates |
| --- | --- | --- |
| `VideoContract` | the status transitions a client may rely on | - |
| `VideoLifecycle` | one video: core-api requests, queue, worker tasks | `VideoContract` (refinement) |
| `ReleaseHistory` | releases pushed, rollbacks popped | - |
| `ModelRelease` | deployment and rollback of models | `ReleaseHistory` (refinement) |
| `EmbeddingEndpoint` | admission, inference and reloads of the endpoint, and its clients | - |
| `LegacyReindex` | vectors of all videos under a moving release | `SequencesExt` |
| `TrainingRuns` | scheduler, dataset worker, train-release workers | `SequencesExt` |
| `ProjectSearch` | deletion of a project against its videos and a search | `FiniteSetsExt` |
| `Transcription` | a long audio recognised in overlapping parts | - |
| `TranscriptText` | a recogniser's words to segments and chunks | `SequencesExt` |
| `Datasets` | feedback to training groups, rankings to a decision | `SequencesExt`, `FiniteSetsExt` |
| `MC...` | instances and symmetry for TLC; `MCAlgorithms` runs the last three one at a time | the module |
| `...Proofs` | theorems | the module, `TLAPS` |

Definitions that follow a comment `Mutation:` are changed forms of the definition after
them. No specification uses them: they record a plausible mistake that the run named for
them in `PROJECT.json` catches.

How the modules meet. The release row is written in `ModelRelease`; `EmbeddingEndpoint`,
`LegacyReindex` and `ProjectSearch` have it as a variable of their own, moved by an
environment action that does what `ModelRelease` allows it to do (`ReleaseMoves`,
`OpenCandidate` to `Rollback`, `Switch`). Conversely `ModelRelease` has the endpoint and
search as what they have loaded, and the legacy worker as `Reindex`. A video's messages and
objects are in `VideoLifecycle`; `LegacyReindex` and `ProjectSearch` keep its status and
vectors.

### VideoLifecycle

The module follows one video. Videos meet only in a batch delete, which is deferred as a whole
while one of its videos has a fresh claim (`delete_video.py:38`): for each of the others that
only delays the message, and in the model a message may stay in the queue for any time. One
action is one transaction, one object-store call or one queue call; between two of them any
other actor may act.

* **State.** `status`, `claim` (`processing_claimed_at`: null, within the cutoff or past
  it), `inputType` are the `video` row; `outputs` (model versions with chunks and vectors),
  `transcript`, `assets` its dependent rows; `blobs` the bucket; `queue` the PGMQ messages;
  `pc`, `job`, `local` each consumer loop; `hpc`, `op`, `saved` each HTTP request with the
  status it read.
* **Requests.** `CreateVideo`, `CompleteRead` / `CompleteWrite`, `DeleteRead` /
  `DeleteWrite`, `RetryRead` / `RetryWrite`, `DeleteOversized`, `DeleteFindsNothing`,
  then `Publish`. `PublishFails` is a publish that reports failure after its retries,
  whether or not the message was stored, followed by `RestoreStatus` / `RestoreFailure`;
  `PublishTwice` a retried one whose reply was lost; `RequestDies` the end of the process.
* **Queue.** `Receive` leases a message, `Redeliver` is the visibility timeout, `Ack`
  archives, `Abandon` is an exception or the death of the worker.
* **Processing.** `Load`, `ClaimProcessing`, `RecheckAfterLostClaim`, the stages `Download`
  to `PersistResults` with `TouchProcessing` and `CheckDeleting` between them, `StageFails`,
  `SetFailed`, `ReleaseClaim`.
* **Deletion.** `FindVideo`, `DeferIfClaimed`, `ListStoragePaths`, `DeleteObjects`,
  `DeleteArtifacts`, `HardDelete`.
* **Environment.** `ClientUpload`, `ClaimGoesStale`, `Cutover` (the active model changes).

The chunks of a video are one keyframe and one output set; error codes, durations and
names are left out.

### ModelRelease

* **State.** `release` is the committed `model_release` row, `dirty` and `lock` its
  uncommitted version and the session that holds the row's lock; `snapshot` and `run` the
  other tables; `loaded` and `searchTarget` what the embedding endpoint and the search
  service hold in memory; `request` the ROLLBACK_REQUEST messages; `copy` each session's
  row as it read it. Three processes, each with a program counter: `"scheduler"` (the retry
  adapter of every tick), `"trainer"` (the hand-off at the end of a run) and `"rollback"`.
* **Sessions.** A flush writes the attributes that differ from the copy (`Updated`), takes
  the row's lock, and is visible to others after `Commit`. This is what makes a restore over
  a changed row mix two releases.
* **Deployment** (`CandidateDeploymentService.attempt`): `Scan` or `Train`, `OpenRead`,
  `OpenWrite` (the conditional UPDATE), `Reload` or `ReloadFails`, `RecordFailure`,
  `CutoverRead`, `ReadinessGate`, `LegacyGate`, `Switch` (row, snapshots and cutover time,
  then commit), `SearchReload`, `Complete`. An exception (`Fails`) is logged and committed
  by the trainer and ends the scheduler, whose session is rolled back. A candidate that
  its own session has not committed yet is invisible to the endpoint, so a first attempt
  ends in `RecordFailure`, which commits the open candidate for the next.
* **Rollback**: `RequestRollback` (core-api), `Receive`, `RollbackRead` (the decision),
  `Mark`, `CheckTarget` or `IndexGone`, `Restore`, `SearchReload`, `Ack`; `RollbackFails`.
* **A ghost**, `cutShort`: the models whose deployer ended after its cutover's commit and
  before its run was marked as deployed (`SearchReloadFails`, `Crash`). The code deploys such
  a model again (see 6), and `RolledBackStaysOut` says that it does so with no other.
* **Environment**: `Crash`, and `Reindex`, which stands for the legacy reindex worker as the
  cutover gate sees it (`LegacyReindex` has the worker and the gate).

`Overlap` says whether a deployment and a rollback may be in progress together. The code
lets them; most of the properties need them to take turns (`Overlap = FALSE`), and the run
`ReleaseRace` shows what happens when they do not. The scheduler and the trainer overlap in
every run. The projects that a rollback excludes are in `LegacyReindex`.

### EmbeddingEndpoint

The endpoint runs on one event loop and never suspends while it holds the controller's lock,
so one action is what runs between two suspensions.

* **State.** `running`, `admitted`, `queue` are the controller's counters and queues; `st`
  where the handler of each request is; `gone` the requests whose task was cancelled during
  inference; `caller` each client's call, attempt and model; `up`, `loaded`, `synced`,
  `reload` the process and its registry; `row` the release row.
* **Clients.** `Refuse`, `SendLegacy`, `SendManaged`, `ClientTimeout`. Which answers are
  retried differs per client (`Retryable`); a caller that timed out leaves its request behind.
* **A request.** `Resume` (a granted waiter runs on), `Withdraw` (timeout or cancellation of
  a wait, also just after the grant), `CancelInference`, `LookUp` (the thread looks the
  model up again), `Encode`. `GrantWaiters` is the loop that hands out free slots.
* **Models.** `Boot`, `ReloadRead`, `ReloadReplace`, `ReloadFails`, `Restart`;
  `ReleaseMoves` is the environment.

### LegacyReindex

* **State.** `release`, `line` (what a rollback can restore), `gate` (a cutover that has
  passed its gates); `video` and `vec` the videos and vectors; `catalog`, `item` (status) and
  `total` (the chunks a finished item claims, `mark_succeeded`) the tables of the worker,
  `tx` its uncommitted writes, `job` its run; `excluded`, `requests`, `restored` the
  recovery; `late` a ghost: the videos whose ingest ended on a target that was not, or was
  about to stop being, the active one.
* **Videos.** `Create`, `ReadTarget`, `Persist`, `RequestDelete`, `HardDelete` (which waits
  for the rows the worker has locked).
* **The worker.** `Scan`, `StartItem`, `EmbedBatch`, `CompleteItem`, `EndRun` are one
  transaction; `Crash` rolls it back. `RunOnce` says whether a run commits: the worker does
  with `--run-once`, and the loop it is deployed with does not.
* **The release.** `OpenCandidate`, `GatePasses`, `GateBlocks`, `Switch`; `Rollback` with
  `Restore` or `StayPreparing`.
* **Recovery.** `RecoveryScan`, `RecoveryCommit`, `Reembed`.

### TrainingRuns

* **State.** `time` has two points a day, the minute of the dataset and that of the
  training; `sched`, `asked` the scheduler and what it asked; `queue` both queues; `maker`,
  `data` the dataset worker and its objects; `at`, `task`, `row`, `runs` each train-release
  worker, its message, its uncommitted run and the table; `nodata` a ghost: the requests
  answered without a dataset.
* **Scheduler.** `Pass`, `AskDataset`, `AskTraining`, `Restart`.
* **Dataset worker.** `TakeDataset`, `WriteRows`, `WriteManifest`, `AckDataset`,
  `LoseDataset`.
* **Train-release workers.** `Read`, `RequestRun`, `Train`, `Evaluate`, `StageFails`,
  `HandoffCommits` or `HandoffFails`, `Commit`, `Ack`, `Lose`. A request is one transaction
  from the insertion of its run to the end, so another worker does not see the run, only
  waits at the unique index for it.

PENDING and SUPERSEDED are modelled (`RequestRun`) and never reached: they need a committed
RUNNING run, and `CommittedRunsHaveEnded` says that there is none.

### ProjectSearch

* **Requests to delete.** `ReadProject`, `MarkDeleting`, `Publish` or `PublishFails`,
  `Restore`, `ApiCrash`. A publish that stored the message twice is one message. A request
  that read DELETING writes nothing (`MarkDeleting`): the session only sends what differs.
* **The job.** `ListVideos`, `CheckClaims`, `DeleteArtifacts`, `HardDelete`, `DeleteRecords`,
  `AckDelete`, `JobCrash`; foreign keys make a step fail when a row was added.
* **Videos.** `CheckProject`, `CreateVideo`, `ClaimVideo`, `PersistChunk` (chunk, vector,
  READY and the end of the claim in one transaction), `PipeCrash`, `ClaimExpires`, `Reembed`,
  and `Exclude`, a rollback.
* **Targets.** `Switch`, `ReadRelease`, `SetTargets` (between them the reload's lock).
* **The search.** `Begin`, `TakeTargets`, one `Query` for full text and one for each index,
  `Merge`, `Gate`, `Answer`, `SaveSnapshot`, `SaveConversation`, `Feedback`. `search.barred`
  is a ghost: a deletion was accepted, or the project excluded, before the search's gate.

### Transcription, TranscriptText, Datasets

`Transcription` is an attempt of a worker: `Plan` cuts the audio, `Begin`, `Lookup` and the
sweep of what an earlier attempt left, then each part is registered, stored, recognised (at
most `Concurrency` at a time), the words each part owns are merged (`Owns`: by the middle of
the overlap), and the parts are removed. A deletion of the video waits for the attempt while
its claim is fresh; one whose claim has aged (only the checks between the stages renew it) may
be overtaken by it (`DeleteObjects`, `DeleteRows`). The ghost `loose` are the parts that a
failed lookup kept from the attempt that drops their rows, and those of an attempt that was
overtaken: the code may leave these in the bucket (see 6), and no others. Words do not
influence each other, so `Audio` is every word there may be. `TranscriptText` has one action
for each stage, `Parse`, `Segment`, `Chunk`; `Datasets` one for each query of the
materialiser, with `Delete` and `Hide` between them, and `Judge`. All three translate pure
functions as operators; a property of each states what the functions are for in other terms
than they compute it.

Loops over words, sentences and queries are recursive functions in a `LET` (`InOrder`,
`Pieces`, `Packed`, `Total`): the value at `i` is what the loop holds after its `i`th element.
`InOrder` is a stable sort by insertion, `Pieces` cuts words into segments and a segment into
sentences, `Packed` packs sentences into chunks. `Hits` is the code's list of zeros and ones,
padded to five; metrics are integers, rounded down.

## 4. Runs

Bounds are constants of the modules (marked "bound" where they are declared). Every run
switches the deadlock check off: once the messages, requests and faults of its instance are
used up, the system is at rest.

| Run | Question | Instance | Result |
| --- | --- | --- | --- |
| `VideoExternal` | Do processing and deletion exclude each other, keep READY searchable and the pointers to objects, and follow `VideoContract`? | EXTERNAL_URL; 2 workers, 1 request at a time, 3 messages, 1 crash | holds (3.0M states) |
| `VideoRaces` | What survives two overlapping requests and a failed or doubled publish? | both input types; 2 workers, 2 requests, 2 messages, 1 publish failure | holds (4.0M states) |
| `VideoLive` | Does a delete finish, and processing end, also when requests overlap and a claim ages out under its worker? | both input types; 1 worker, 2 requests, 2 messages, 2 models, 1 crash, fairness | holds (353k states) |
| `ReleaseSerial` | Do row, snapshots, endpoint and search agree, and does a rolled back model stay out? | 4 models, 5 snapshots, 3 requests, 3 attempts, 2 faults, taking turns | holds (1.8M states) |
| `ReleaseLive` | Is every candidate cut over, does search follow, is the history kept? | 4 models, 4 snapshots, 2 requests, 2 attempts, no fault, fairness | holds (61k states) |
| `ReleaseRace` | Does a rollback start only on the release it names, with overlap? | 3 models, 3 snapshots, 1 request | **violated** |
| `EmbeddingEndpoint` | Are slots conserved and handed out in order, does every search call end, is the active model served? | 1 search, 2 video and 1 legacy caller; 1 slot, limits 2 and 1, retries 1 and 0, 2 models, fairness | holds (57k states) |
| `LegacyReindex` | Does a worker that commits leave every served video where search looks, tell the truth, and end? | 2 videos (2 chunks, 1 chunk) in 2 projects, 3 models, limit 1, 1 rollback, 1 fault, fairness | holds (356k states) |
| `LegacyGate` | Is the legacy data moved before the switch, with the worker as it is deployed? | 1 video, 4 models, no fault | **violated** |
| `TrainingRuns` | Do trainings exclude each other, are candidates complete, is every request answered? | 2 workers, 2 weeks of 1 day, 1 fault, fairness | holds (356k states) |
| `ProjectSearch` | Is a deletion whole, does a barred search show nothing, does feedback tell the search? | 2 videos, 2 requests to delete, 2 reloads, 2 ratings, 1 shown chunk, 1 switch, 1 fault, fairness | holds (1.2M states) |
| `Algorithms` | Is the transcript the audio, are its parts found again, do text, groups and decisions say what they should? | audio of length 10, parts of 4 or 5, overlap 2, 2 at a time, 1 retry, 2 errors, 2 faults; all small word lists, logs and rankings of `MCAlgorithms` | holds (299k states) |

Why the bounds are enough:

* **Videos.** The hazards need two workers (a holder and one that wrongly joins it), two
  messages of one kind or of both, a third for a retry, and one crash: a crashed actor is
  never worse than a second one. The two input types differ in who makes the first message;
  `VideoRaces` has both. Two workers of which one has let its claim age (a zombie) are
  left to the theorems, which cover any number of them; `VideoLive` has one worker, whose
  claim may age. Two overlapping requests are in `VideoRaces` for what they must keep, and in
  `VideoLive` for the delete that must still finish when the other wrote over DELETING.
* **Release.** Three releases in line (active, target, superseded) and a fourth to push one
  out of the row's `previous`; three rollbacks to walk back through them.
* **Endpoint.** One slot makes every request wait; a lane with room for two has an order;
  a second model makes reloads differ. A retry adds a second request of the same caller.
* **Legacy reindex.** Three models make one index older than the previous one; two chunks
  in one video can be moved in part; a limit of 1 makes a run leave something; two projects
  tell the excluded one from the other. `LegacyGate` has models enough for an index to fall
  behind the previous one and for one more switch. One rollback and three models are where
  `Covered` is true without conditions: a fourth model or a second rollback loses videos (see
  6), and `ServedVideosAreFound` covers any number of models under the condition that
  excludes the former.
* **Runs.** Two workers compete for the one slot; two requests of two weeks are in the queue
  at once when the first takes long.
* **Projects.** Two requests to delete, one failing, with a video before and one made
  during; two reloads of two generations in either order. Of a creation, the search and the
  reloads, two happen in one behaviour (`MaxActive`), any two.
* **Algorithms.** Ten units are three parts, the last one shorter, in two groups; words of
  every length up to the overlap start at every place. Two faults are a crash after an upload
  followed by a lookup that fails in an attempt with another part length: with one, the parts
  of a former plan are always found, and `PartsStay` would say more than the code keeps.

### What the violations say

* **ReleaseRace.** The rollback worker decides on an unlocked read, waits for the row's lock
  that a deployment holds, and marks ROLLBACK_PREPARING over the release that was cut over
  meanwhile (`rollback.py:104-132`, `stores.py:221-228`).
* **LegacyGate.** The worker's loop never commits its session; only `--run-once` does
  (`bootstrap.py:337`, `docker-compose.yml:214`). The gate counts from committed catalog
  rows, finds none, and lets the cutover through with videos in an index nobody searches.

`PROJECT.json` quotes the sentences of the documentation that these contradict.

### Fairness

* *Videos.* Requests and worker loops proceed (weak fairness per process): asyncio tasks
  that are ready run. A visible message is received in the end (strong fairness): the loops
  poll every queue for ever and PGMQ hands out the oldest visible message first. A leased
  one times out. `ClaimGoesStale`: time passes.
* *Release.* The scheduler's tick and the rollback worker's poll recur
  (`scheduler.py:101-104`, `consumer.py:43-57`), so `Scan` and `Receive` are strongly fair;
  the steps of the processes too, because a step that waits for a row lock is granted it in
  turn.
* *Endpoint.* Tasks that are ready and threads that run go on, backoffs end, a start goes
  on to its end. No timeout is assumed: a search call ends without one.
* *Legacy reindex.* The worker's runs, the recovery scan with its commit and the
  re-embedding worker keep going. Nobody has to open the gate or ask for a rollback.
* *Runs.* The workers poll their queues and work on. Nothing makes time pass.
* *Projects.* The deletion job and the video pipeline keep going, which includes that a
  claim left by a dead pipeline expires.
* Nothing is assumed of crashes, failures, requests or training: they may never happen.

## 5. Proofs

TLAPS checks every theorem for all values of the constants that satisfy the ASSUME of the
module. TLC checked the properties they state on the instances above first.

`VideoLifecycleProofs`

| Theorem | Assumes | Says |
| --- | --- | --- |
| `TypeCorrect` | - | `TypeOK` |
| `ProcessingStaysReclaimable` | one request at a time | a PROCESSING video has a claim time |
| `DeletionIsFinal` | one request at a time | DELETING only becomes GONE, also under workers whose claim aged out |
| `RemovalWasRequested` | one request at a time | only a DELETING video is removed |
| `ReadyIsSearchable` | one request at a time | READY has outputs |
| `OneProcessor` | the same, and claims that outlive the work | at most one processor |
| `NoObjectIsLost` | the same | no asset row goes before its object |
| `ContractIsKept` | the same, and settings that name the active model | `VideoContract` is implemented |
| `LostOutputsAreInHand` | no worker dies | a READY video without outputs is in a worker's hands |
| `DeleteIsNotLost` | one failed publish at most, no request dies | a DELETING video has its message |

The argument of the first eight: under `OneRequestAtATime` (and without failed publishes,
whose undo writes an old status back) what a request read is still true when it writes.
`SerialInv` says so for every request (`RequestIsSafe`), message (`MessageIsSafe`: a
DELETE_REQUEST exists only for a video past deletion) and worker (`WorkerIsSafe`: one in the
deletion steps has seen DELETING). `ExclusionInv` adds that whoever is in the pipeline has a
fresh claim (`HolderHasClaim`), which is why no second claim can succeed; it needs
`ClaimsOutliveWork`: without it the code does admit two processors. `RemovalInv`: a deletion
that has found no fresh claim is alone (`RemovalIsAlone`), so what it listed is still all
there is when it deletes it. `ContractIsKept` maps every action to a transition of the
contract or to none; it needs that nobody processes a READY video (`ContractInv`), which is
true while the model of the worker's settings is the one that is served (`SettingsAreCurrent`,
see 6).

The last two hold for any number of overlapping requests, and for claims that age out under
live workers. A READY video without outputs is always between two steps of a worker, because
a fresh claim has a holder and whoever leaves the pipeline clears it (`OutputsInv`). A
DELETING one has a message, or a request that will publish or undo it; a request that would
write back a DELETING it read is not the only one (`PromiseInv`, over `TrackedInv`: which
message each request and worker is at). Their assumptions are actions of the model that may
not happen (`NoWorkerDies`, `NoRequestDies`), stated as `[][...]_vars` beside the
specification: the code does not survive them, see 6. `MaxPublishFailures <= 1` is
needed too: with two failures the property is false.

`ModelReleaseProofs`

| Theorem | Assumes | Says |
| --- | --- | --- |
| `TypeCorrect` | - | `TypeOK` |
| `OneActiveOneTarget` | - | one ACTIVE snapshot, at most one target |
| `ReleaseStaysConsistent` | `~Overlap` | candidate fields set exactly while reindexing, the row and the ACTIVE snapshot agree, one of each |
| `ServingModelIsLoaded` | `~Overlap` | the active model is loaded, at every moment |
| `RolledBackIsNotRedeployed` | `~Overlap` | a model rolled back serves again only if its deployer was cut short, whatever fails |
| `SearchModelIsLoaded` | `~Overlap` | without faults, the model search embeds with is loaded |
| `RowsKeepHistory` | `~Overlap`, no deployer is cut short | `ReleaseHistory` is implemented |

The argument, layer by layer:

1. `TypeInv` adds to `TypeOK` that a deployer past its read has its candidate in its copy
   and that a snapshot in use has a model: otherwise the written rows would not be rows.
2. `RowsInv`: the holder of the lock has opened a candidate, or marked a rollback, over a
   stable row (`LockInv`); a rollback in progress is alone (`TurnsInv`); the scheduler's run
   is finished and the trainer's is not, so the two deploy different models until one is cut
   over (`JobsInv`, lemma `JobsDiffer`). From these, the row a session read is still the
   row it writes (`CandidateInv`, `ReadInv`), so a flush of differing attributes writes
   exactly the new release (`UpdatedExactly`, `SwitchWrites`, `RestoreWrites`).
3. `SnapshotsInv` adds the snapshots: a rollback's target and its expectations stay true
   while it works (`RollbackInv`).
4. `LoadedInv` adds the endpoint: a candidate past its readiness check is a target of every
   reload, because it is committed or serves in another role (`ReloadKeepsCandidate`).
5. `TrainerInv` and `OnceInv` say that each model is released once: the run of a released
   model is completed, or its deployer is about to complete it, or was cut short. `LineInv`
   then orders the snapshots by their cutover times, and with it a cutover is a push and a
   restore a pop of the history (`RowsKeepHistory`).
6. `SearchInv`: search lags behind the release by one cutover or restore, the one that is
   about to reload it, so its model is the active or the previous one, which every reload of
   the endpoint asks for.

Crashes, failed calls and the overlap of scheduler and trainer are part of all of them, with
two exceptions. `SearchModelIsLoaded` is about the time before the first fault, as in the
run. The faults that end a deployer between its cutover's commit and its run's completion
make the code deploy the model again (see 6): `cutShort` remembers them,
`RolledBackIsNotRedeployed` says that they are the only way back for a model that was rolled
back, and `RowsKeepHistory` is about behaviours without them. `Overlap` is the race of
`ReleaseRace`; no theorem says that a rollback starts on the release it names, because
without overlap that is the check at its start and with overlap it is false.

`EmbeddingEndpointProofs`

| Theorem | Assumes | Says |
| --- | --- | --- |
| `SlotsAreConserved` | - | counters, lanes and queues are the requests' own; no idle slot |
| `OrderIsKept` | - | nobody is served past a search request, a waiter, or an earlier one |
| `ActiveStaysServed` | - | once synced, the active model is loaded |

The controller's invariant is stated of values (`SlotsOf`, `LanesOf`), because the loop that
grants slots works between two states: a request frees its slot, then the loop hands out
what is free. `LoopGrants` shows that it leaves the invariant true, no slot idle, and serves
in order (`Orderly`); it rests on how many it grants (`GrantNumbers`) and on lemmas about a
queue without repetition that loses its front (`Suffix`), one entry (`Taken`) or gains one
(`Appended`). Each step of a request is then one of six changes (`Freeing`, `StartingNow`,
`Queueing`, `LeavingQueue`, `GoingOn`, nothing). `ActiveStaysServed` needs what a reload in
progress may find changed (`ReadIsFresh`): the row has at most gone back to the release
before, whose model the reload keeps, because a cutover waits for its own reload.

`TrainingRunsProofs`

| Theorem | Assumes | Says |
| --- | --- | --- |
| `TrainingsAlwaysExclude` | - | one training at a time, committed runs have ended |
| `ReadyIsAlwaysComplete` | - | a candidate and its dataset are complete |
| `RequestsAreAlwaysKept` | - | a request is answered before it is archived; one a week, more only after a restart |

`WorkerInv` says where a worker can be with which run and that committed runs have ended
(the transaction hides them until then), so a new run is RUNNING and alone at the unique
index; `MakerInv` that only the newest dataset can lack its manifest; `SchedulerInv` ties
the counts of requests to the days and weeks the scheduler has seen.

`ProjectSearchProofs`

| Theorem | Assumes | Says |
| --- | --- | --- |
| `TargetsNeverGoBack` | - | search never goes back to an older release |
| `EventsStayTrue` | - | feedback tells what was queried and shown |
| `DeletionStaysWhole` | `~OverlappingDeletes` | no deletion is half done with nothing to finish it |
| `BarredStaysHidden` | `~OverlappingDeletes` | a barred search shows nothing |

`ReloadInv`: whoever has read the release holds the reload's lock, and has read at least what
is served. `Held`: a job that has passed a check keeps what it checked (`VideoInv`, `RowsInv`,
`NothingDangles`). `RequestsInv` and `Orderly` (`Turns`, `Queued`): one request is between
its read and its answer, so the state it restores is still the one before it, and a DELETING
project has a message or a request that will send or undo it. `SearchInv`, `StoredInv` follow
what a search queried into its snapshot and its events. With overlapping requests
`DeletionIsWhole` is false (see 6), which is why the theorem assumes that they take turns.

`LegacyReindexProofs`

| Theorem | Assumes | Says |
| --- | --- | --- |
| `TypeCorrect` | - | `TypeOK` |
| `ItemsStayTruthful` | - | a finished item has moved as many chunks as it claims |
| `ServedVideosAreFound` | one rollback at most, indexes are in the catalog in time | no served video gets lost from search |

`ClaimInv` follows a claim from the run that makes it: what the job has loaded is in the
source as its session sees it, what is no longer left is in the target, and both stay when
the transaction commits, because the rows it marked keep the video from being deleted
(`Locked`). `Claim` is about any set of vectors, and grows with it (`ClaimsLast`), so every
other writer of vectors is one lemma.

`KeptInv` is what `Covered` needs to be inductive: an open gate has found every served video
in the active index (`GatePasses` counts the previous one, which has all others), so the
switch that drops the previous one loses nothing; the previous index has every video that
the active model did not embed itself, and that is what a rollback goes back to; it
excludes the rest. A recovery that has been decided counts as done (`Out`), because its
commit does not look again. `LineInv` says that a model is released once and that a
rollback returns to `previous`. The two assumptions are where the code stops keeping the
promise (see 6): `SourceIsKnown`, a gate that opens has the index to be dropped in the
catalog, is an action property beside the specification; `MaxRollbacks <= 1` is the bound of
the run.

`AlgorithmsProofs`

| Theorem | Assumes | Says |
| --- | --- | --- |
| `TextStaysFaithful` | - | text runs forward, is what was said, once and in order, in chunks that fit |
| `GroupsAlwaysTeach` | - | groups are of the last copy of an event, tell apart, and use no chunk that was shown |
| `DecisionsFollowRanks` | - | no worse at any relevant chunk passes; no better at any and worse at one fails |

The provers have no induction schema for operators, so these proofs make their own for sets
(`SetInduction`, from the well-foundedness of `<`): the set is that of the numbers, or the
sequences (`SequenceInduction`), for which the claim holds. A recursive function is a
`CHOOSE`, which says something only when such a function exists: `Recursion` shows that it
does, and `Flattened`, `PiecesAre`, `PackedIs`, `InOrderParsed` and `Totals` that the
operators of the modules are it.

`TextStaysFaithful`, stage by stage. `RepairedIs`: a word is repaired only between neighbours
that leave it room, so none stays reversed, and a refused answer has one that is not.
`InsertedKeeps`: a word put at its spot keeps the words in order and all there. `CutsInv`:
after `n` words what is closed and what is open are the first `n`, in this order. `OpenInv`
is the invariant of the chunker: what the chunks add (`News`) and what the open one adds are
the first `n` sentences; the open one begins with what it shares (`Kept`), and is longer than
it may be only when it is that and one sentence. That a chunk's span is not reversed needs
all three: its first and last sentence stand in this order in the text (`Among`), so do their
segments (`SpansInOrder`), and the words of those are in order. `TextAssumption` says that a
word knows its place in the answer and that a setting of the overlap is not negative
(`settings.py:77`).

`GroupsAlwaysTeach`: two copies of an event that are both the last are one place in the log
(`OneIsLatest`), and nothing in the pool was shown to anybody (`OffersWereNotShown`), whatever
was deleted or hidden between the queries. `LogsAssumption` says that events have integer
times.

`DecisionsFollowRanks` compares the first `k` ranks of two rankings for each `k`: who places
every relevant chunk as high has as many hits among them (`PlacedIsCounted`,
`HigherIsEarlier`), so no metric is lower (`MetricsOrder`, for all lists of five hits) and no
sum over the queries (`TotalsOrder`). Conversely a chunk that is placed lower changes the
discounted gain of its query by more than rounding down can hide (`SmallestDifference`,
`ScaledApart`, `NdcgTells`). `EvaluationsAssumption` says that at most five ranks count
(`TOP_K`) and that a ranking has a chunk once, as one of a corpus without duplicates does.

`TranscriptionProofs`

| Theorem | Assumes | Says |
| --- | --- | --- |
| `PartsGiveTheAudio` | - | the merge of the parts of any audio is the audio |
| `PartsStayAlways` | - | a stored part is registered and outlives its calls, but for `loose` ones |
| `TranscriptIsTheAudioAlways` | - | a transcript is the audio, and no part is left, but for `loose` ones |

`PartsGiveTheAudio` is about the plan and the merge alone: for every word not longer than the
overlap there is a part that owns it, only one, and that part contains it whole (it is the one
place where the arithmetic of middles and bounds is used). The other two follow an attempt
through its steps, for any number of failures, crashes and part lengths: what is in storage is
registered or `loose`, what is registered is in the plan of the attempt, in what its lookup
found, or `loose`, and the last sweep removes the first two.

Only model-checked:

* liveness (`DeleteCompletes`, `ProcessingEndsWithoutCrash`, `CandidateCutsOver`,
  `SearchFollows`, `SearchCallsEnd`, `LegacyMoves`, `Reenters`, `RequestsAreAnswered`,
  `DeleteEnds`): the installed provers cannot take it under fairness.

Every invariant and every action property of the passing runs is stated by a theorem above;
`DeletingIsFinal` and `OnlyDeletingIsRemoved` are stated by theorems alone: where requests do
not overlap, `KeepsContract` says as much in the run, and the theorems add claims that age
out.

## 6. Behaviour to know of

What the models show the code to do, where nothing is promised or a property names it as an
exception. Each can be seen by stating the stronger property.

Videos:

* A worker that dies after a touch leaves a fresh claim; the redelivered message is skipped
  and acknowledged, and the video stays PROCESSING (`process_video.py:61-66`).
* `complete` and `retry` write the status they decided on before a delete committed
  (`video_service.py:168-170`): with overlapping requests UPLOADED can follow DELETING. The
  delete still finishes (`DeleteCompletes`): its message removes the video whatever its
  status.
* Audio uploaded before its asset row exists outlives the video
  (`pipeline_orchestrator.py:257`).
* When one chunk fails, `asyncio.gather` lets its siblings go on uploading keyframes
  (`pipeline_orchestrator.py:451`).
* Two overlapping deletes whose publishes both fail: the second restores DELETING, the status
  it read, and no message is on its way (`video_service.py:301-305`).
* The undo of a failed publish writes back the status it read, without looking: READY can
  overwrite the FAILED of a later attempt, or come back after the outputs are gone.
* A worker decides whether outputs are current by the model of its settings
  (`process_video.py:43`), and builds them for the active model of the release row.
* After a changed part length, a crash and a failed lookup of the registered parts, parts of
  the former plan stay in the bucket without a row (`long_audio_transcription.py:87-119`,
  `:137-144`). So may parts that an attempt uploads while a deletion overtakes it: the
  deletion waits only for a fresh claim, and no check of the long audio renews it (`:265`).

Release and reindex:

* A rollback clears `previous_model_version`; the next reload of the endpoint drops the model
  that the following rollback targets; that one answers `blocked_not_ready`, is
  acknowledged, and ROLLBACK_PREPARING stays (`rollback.py:151-152`).
* A rollback that is committed and whose reload of search fails is found stale, or without a
  target, when its message comes again, and the reload is not repeated (`rollback.py:158`):
  search keeps its targets until another release reloads them.
* A blocked run leaves its candidate open, and no other run deploys it
  (`candidate_deployment.py:134`).
* A retry uses the cutover time of its first attempt (`transition.py:238`), so a release made
  again can carry an old one.
* A candidate may be opened while projects are excluded (`transition.py:179`): the legacy
  worker pauses for the projects, the recovery waits for STABLE, and the gate for the legacy
  worker.
* When a deployer ends, or its reload of search fails, between the commit of a cutover and the
  completion of its run, the run stays READY_FOR_RELEASE and is deployed again: over the
  release it is already serving, or after a rollback has taken it out (`transition.py:355`).
* The catalog of indexes is filled by the runs of the legacy worker alone
  (`legacy_reindex.py:136`). When three cutovers follow without a committed run in between,
  the gate of the third does not know the index it drops, and opens without counting its
  videos.
* A rollback excludes the projects whose chunks were made with the problem model
  (`stores.py:510-537`). A video uploaded with an older model and re-embedded since is not
  excluded when a second rollback drops the index it was re-embedded into; nor is a project
  that a recovery scan let in over that rollback.
* A legacy item that has SUCCEEDED is about the chunks its source had then: a re-embedding can
  add chunks to the source later, and the item claims the old number until a scan finds the
  video old-only and queues it again (`legacy_reindex_store.py:399-407`).
* A FAILED legacy item is never tried again, and takes a place in every run's limit
  (`legacy_reindex_store.py:408`).
* A video whose ingest read the target before a cutover can be where search does not look
  until the legacy worker finds it (the ghost `late`).

Projects, runs and the rest:

* Two overlapping requests to delete whose publishes fail: the second restores DELETING, the
  state it read, and the project stays DELETING without a message
  (`project_service.py:93`, `:122`) until it is deleted again. So does one whose request dies
  between commit and publish.
* `pgmq.read` gets its count where the visibility timeout belongs (`runtime/queue.py:58`): a
  message is hidden for one second and read up to 30 at a time. The models therefore let a
  message that is being worked on be delivered again at any moment.
* A tick that misses its minute misses the day's dataset or the week's training
  (`scheduler.py:130-142`): `Pass` may go by without them.
* A committed run is never RUNNING, so detection of stuck runs, PENDING and SUPERSEDED
  never take effect.
* A LIKE that is later disliked stays a LIKE: the DISLIKE is an event of its own, makes no
  group (`materializer.py:221`) and takes none away; what it was shown is only kept out of
  the random negatives. A chunk deleted after the text query is still trained on.
* ADR-010 says that a dataset is made of the last 30 days of feedback
  (`docs/ADR/ADR-010-feedback-dataset-retrieval-group-and-decoupled-training.md:84`). The
  reader takes every object under its prefix (`raw_log.py:13-33`), and no property here is
  about a window.

## 7. Not modelled

* Frontend: its only lasting state is the list of uploads whose complete call is still owed
  (`upload-completion-store.ts`); what it does with it is the repeated complete call that
  `VideoLifecycle` already allows at any time. Terraform, CI and scripts hold no program
  logic.
* Authentication, metadata edits, listings, playback: single statements.
* Provider calls (speech, vision, embedding, language model): they succeed or fail.
* The numeric training, and the baseline that a first training compares with.
* `VideoLifecycle`: several chunks of one video and the tasks of `asyncio.gather` that outlive
  a failed one. `ModelRelease`: restarts of the endpoint and of search, which load what the
  row says (`EmbeddingEndpoint` has them). `LegacyReindex`: a delete that is taken back, more
  than one rollback. `ProjectSearch`: two deletion jobs at once, the expiry of snapshots,
  objects in the bucket (they are in `VideoLifecycle`); a release switches only while a reload
  is to come. `Transcription`: words longer than the overlap, which may be cut in every part,
  and two attempts at once, of which one has let its claim age. `TrainingRuns`: the deployment
  of a candidate (it is in `ModelRelease`).

