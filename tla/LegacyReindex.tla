--------------------------- MODULE LegacyReindex ---------------------------
(***************************************************************************)
(* How the vectors of the videos follow the model release: the legacy      *)
(* reindex worker moves what only older indexes hold into the active one,  *)
(* the cutover gate waits for it, a rollback excludes the projects that    *)
(* used the bad model, and the recovery scan of the scheduler with the     *)
(* re-embedding worker brings them back.                                   *)
(*                                                                         *)
(* The legacy worker does a whole run in one transaction, which it commits *)
(* only when it was started to run once; its uncommitted rows are in `tx`  *)
(* and hold their locks.  Index and model go together: an index is named   *)
(* by its model.  ModelRelease has the steps of the release itself.        *)
(***************************************************************************)
EXTENDS Naturals, Sequences, FiniteSets, SequencesExt

CONSTANTS
  Videos, Projects, ProjectOf,
  Stored,          \* the videos that were READY with the first model at the start
  ChunksPerVideo,  \* how many chunks each video has
  Models, Base, NoModel,
  PerRunLimit,     \* LEGACY_REINDEX_PER_RUN_VIDEO_LIMIT
  RunOnce,         \* whether the worker runs with --run-once, over and over
  MaxRollbacks, MaxFaults   \* bounds

ASSUME ReindexAssumption ==
  /\ ProjectOf \in [Videos -> Projects] /\ Stored \subseteq Videos
  /\ IsFiniteSet(Videos) /\ IsFiniteSet(Models)
  /\ ChunksPerVideo \in [Videos -> Nat \ {0}] /\ PerRunLimit \in Nat \ {0}
  /\ Base \in Models /\ NoModel \notin Models
  /\ RunOnce \in BOOLEAN /\ {MaxRollbacks, MaxFaults} \subseteq Nat

ChunksOf(v) == {v} \X (1..ChunksPerVideo[v])
Chunks == UNION {ChunksOf(v) : v \in Videos}
Vectors == Chunks \X Models
Keys == Videos \X Models \X Models     \* video, source index, target index
OrNone == Models \union {NoModel}

VARIABLES
  release,    \* the model_release row
  line,       \* the snapshots a rollback can restore, the next one last
  unused,     \* models that were not released yet
  gate,       \* whether a cutover has passed its gates and is about to switch
  excluded,   \* projects that are ROLLBACK_EXCLUDED
  video,      \* status of each video, and the model of its chunks
  vec,        \* vector_index_entry
  catalog,    \* vector_index_catalog, by age
  item,       \* legacy_reindex_item: its status
  total,      \* and its total_chunk_count, which is also its completed_chunk_count
  tx,         \* what the legacy worker has written and not committed
  job,        \* its run: the items to do and the one at hand
  requests,   \* REEMBEDDING_REQUEST messages
  restored,   \* the projects a recovery scan is about to let in again
  late,       \* ghost: videos that became READY when their target was not or would not stay active
  rollbacks, faults
released == <<release, line, unused, gate, rollbacks>>
stored == <<video, vec, late>>
recovery == <<excluded, requests, restored>>
worker == <<catalog, item, total, tx, job>>
vars == <<release, line, unused, gate, excluded, video, vec, catalog, item, total, tx, job,
          requests, restored, late, rollbacks, faults>>

NoTx == [vec |-> {}, item |-> [k \in {} |-> "none"], total |-> [k \in {} |-> 0], catalog |-> <<>>]
NoJob == [step |-> "idle", todo |-> {}, key |-> <<>>, loaded |-> {}, left |-> {}]

Init ==
  /\ release = [status |-> "STABLE", active |-> Base, previous |-> NoModel, candidate |-> NoModel]
  /\ line = <<>> /\ unused = Models \ {Base} /\ gate = FALSE /\ rollbacks = 0
  /\ excluded = {} /\ requests = {} /\ restored = {}
  /\ video = [v \in Videos |-> IF v \in Stored THEN [st |-> "READY", model |-> Base]
                                                ELSE [st |-> "none", model |-> NoModel]]
  /\ vec = (UNION {ChunksOf(v) : v \in Stored}) \X {Base} /\ late = {}
  /\ catalog = <<Base>>
  /\ item = [k \in Keys |-> "none"] /\ total = [k \in Keys |-> 0]
  /\ tx = NoTx /\ job = NoJob
  /\ faults = 0

Fault == faults < MaxFaults /\ faults' = faults + 1
NoFault == UNCHANGED faults
Named(r) == {r.active, r.previous, r.candidate} \ {NoModel}

HasChunks(v) == \E x \in vec : x[1][1] = v
Reflected(v, m, vectors) == ChunksOf(v) \X {m} \subseteq vectors
ReadyOf(p) == {v \in Videos : ProjectOf[v] = p /\ video[v].st = "READY"}

\* Mutation: the previous index is taken for one that is still searched.
SourcesKeepPrevious(r, cat) == ToSet(cat) \ Named(r)

\* The indexes whose videos have to move, and those of their READY videos the target lacks.
Sources(r, cat) == ToSet(cat) \ {r.active, r.candidate}
OldOnly(source, target, vectors) ==
  {v \in Videos :
     /\ video[v].st = "READY"
     /\ \E c \in ChunksOf(v) : <<c, source>> \in vectors /\ <<c, target>> \notin vectors}

(***************************************************************************)
(* Videos.                                                                 *)
(***************************************************************************)

Create(v) ==
  /\ video[v].st = "none" /\ ProjectOf[v] \notin excluded
  /\ video' = [video EXCEPT ![v].st = "PENDING"]
  /\ UNCHANGED <<vec, late>> /\ UNCHANGED <<released, recovery, worker, faults>>

ReadTarget(v) ==
  /\ video[v].st = "PENDING" /\ release.status # "ROLLBACK_PREPARING"
  /\ video' = [video EXCEPT ![v] = [st |-> "PROCESSING", model |-> release.active]]
  /\ UNCHANGED <<vec, late>> /\ UNCHANGED <<released, recovery, worker, faults>>

\* The outputs are stored in the index that was the target when the ingest began.
Persist(v) ==
  /\ video[v].st = "PROCESSING"
  /\ video' = [video EXCEPT ![v].st = "READY"]
  /\ vec' = vec \union (ChunksOf(v) \X {video[v].model})
  /\ late' = IF video[v].model = release.active /\ ~gate /\ release.status # "ROLLBACK_PREPARING"
             THEN late ELSE late \union {v}
  /\ UNCHANGED <<released, recovery, worker, faults>>

\* (VideoLifecycle has the requests that are taken back.)
RequestDelete(v) ==
  /\ video[v].st \in {"PENDING", "PROCESSING", "READY"}
  /\ video' = [video EXCEPT ![v].st = "DELETING"]
  /\ UNCHANGED <<vec, late>> /\ UNCHANGED <<released, recovery, worker, faults>>

\* Rows of the video that the legacy worker has written block the delete.
Locked(v) ==
  \/ \E k \in DOMAIN tx.item : k[1] = v
  \/ \E x \in tx.vec : x[1][1] = v

HardDelete(v) ==
  /\ video[v].st = "DELETING" /\ ~Locked(v)
  /\ video' = [video EXCEPT ![v] = [st |-> "gone", model |-> NoModel]]
  /\ vec' = {x \in vec : x[1][1] # v}
  /\ item' = [k \in Keys |-> IF k[1] = v THEN "none" ELSE item[k]]
  /\ total' = [k \in Keys |-> IF k[1] = v THEN 0 ELSE total[k]]
  /\ UNCHANGED <<late, catalog, tx, job>> /\ UNCHANGED <<released, recovery, faults>>

(***************************************************************************)
(* The legacy reindex worker.                                              *)
(***************************************************************************)

\* Its session sees the committed rows and its own.
OwnVectors == vec \union tx.vec
OwnItem(k) == IF k \in DOMAIN tx.item THEN tx.item[k] ELSE item[k]
OwnTotal(k) == IF k \in DOMAIN tx.total THEN tx.total[k] ELSE total[k]
OwnCatalog == catalog \o tx.catalog
Put(f, keys, value) == [k \in DOMAIN f \union keys |-> IF k \in keys THEN value ELSE f[k]]
Mark(k, status) == [tx EXCEPT !.item = Put(@, {k}, status)]

Paused == release.status = "ROLLBACK_PREPARING" \/ excluded # {}

\* What an old-only video's item becomes when it is enqueued: a finished item is taken up
\* again, a failed one is left as it is.
Enqueued(status) ==
  IF status \in {"none", "SUCCEEDED", "SKIPPED"} THEN "PENDING" ELSE status

Before(x, y, cat) == \E i, j \in DOMAIN cat : i < j /\ cat[i] = x /\ cat[j] = y

\* Which rows of each source a run takes: those of the older sources first, up to the limit.
\* Only new items count, but every row, the ones whose item has failed too, takes a place.
\* (Which rows of one source come first is left open.)
TakenRows(rows, cat, limit) ==
  \A s \in DOMAIN rows :
    LET created == {r \in Videos \X DOMAIN rows :
                      /\ Before(r[2], s, cat) /\ r[1] \in rows[r[2]]
                      /\ OwnItem(<<r[1], r[2], release.active>>) = "none"}
        rest == IF Cardinality(created) < limit THEN limit - Cardinality(created) ELSE 0
        all == OldOnly(s, release.active, OwnVectors)
    IN  /\ rows[s] \subseteq all
        /\ Cardinality(rows[s]) = IF Cardinality(all) < rest THEN Cardinality(all) ELSE rest

\* One run: the catalog gets the indexes of the release, the old-only videos their items.
Scan ==
  /\ job.step = "idle" /\ ~Paused
  /\ UNCHANGED <<catalog, item, total>> /\ UNCHANGED <<released, recovery, stored, faults>>
  /\ \E new \in SetToSeqs(Named(release) \ ToSet(OwnCatalog)) :
       LET cat == OwnCatalog \o new
           sources == Sources(release, cat)
       IN  \E rows \in [sources -> SUBSET Videos] :
             /\ TakenRows(rows, cat, PerRunLimit)
             /\ LET keys == {k \in Keys : k[2] \in sources /\ k[1] \in rows[k[2]]
                                          /\ k[3] = release.active}
                    changed == {k \in keys : Enqueued(OwnItem(k)) # OwnItem(k)}
                    items == Put(tx.item, changed, "PENDING")
                    pending == {k \in Keys : k \in changed \/ OwnItem(k) = "PENDING"}
                IN  /\ tx' = [tx EXCEPT !.catalog = @ \o new, !.item = items]
                    /\ \E todo \in SUBSET pending :
                         /\ \/ Cardinality(todo) = PerRunLimit
                            \/ Cardinality(todo) < PerRunLimit /\ todo = pending
                         /\ job' = [NoJob EXCEPT !.step = "run", !.todo = todo]

NextItem(k) == [NoJob EXCEPT !.step = "run", !.todo = job.todo \ {k}]
Lose == tx' = NoTx /\ job' = NoJob

\* An item is marked RUNNING and its video loaded.  An item that was deleted meanwhile
\* cannot be updated, which ends the run; a chunk without text fails the item.
StartItem(k) ==
  /\ job.step = "run" /\ job.key = <<>>
  /\ LET v == k[1]
         chunks == {c \in ChunksOf(v) : <<c, k[2]>> \in OwnVectors}
     IN  \/ /\ OwnItem(k) = "none" /\ Lose /\ NoFault
         \/ /\ OwnItem(k) # "none" /\ video[v].st # "READY"
            /\ tx' = Mark(k, "SKIPPED") /\ job' = NextItem(k) /\ NoFault
         \/ /\ OwnItem(k) # "none" /\ video[v].st = "READY" /\ chunks # {}
            /\ tx' = Mark(k, "RUNNING")
            /\ job' = [NextItem(k) EXCEPT !.key = k, !.loaded = chunks, !.left = chunks]
            /\ NoFault
         \/ /\ OwnItem(k) # "none" /\ video[v].st = "READY"
            /\ IF chunks = {} THEN NoFault ELSE Fault
            /\ tx' = Mark(k, "FAILED") /\ job' = NextItem(k)
  /\ UNCHANGED <<catalog, item, total>> /\ UNCHANGED <<released, recovery, stored>>

\* One batch of one chunk.  The endpoint only embeds with the models of the release.
EmbedBatch ==
  /\ job.key # <<>> /\ job.left # {}
  /\ LET k == job.key
     IN  \/ /\ k[3] \in Named(release)
            /\ \E c \in job.left :
                 /\ \A d \in job.left : c[2] <= d[2]
                 /\ tx' = [tx EXCEPT !.vec = @ \union {<<c, k[3]>>}]
                 /\ job' = [job EXCEPT !.left = @ \ {c}]
            /\ NoFault
         \/ /\ IF k[3] \in Named(release) THEN Fault ELSE NoFault
            /\ tx' = Mark(k, "FAILED")
            /\ job' = NextItem(k)
  /\ UNCHANGED <<catalog, item, total>> /\ UNCHANGED <<released, recovery, stored>>

\* As many vectors in the target as chunks were loaded from the source.
Consistent(k) ==
  Cardinality({c \in ChunksOf(k[1]) : <<c, k[3]>> \in OwnVectors}) = Cardinality(job.loaded)

CompleteItem ==
  /\ job.key # <<>> /\ job.left = {}
  /\ \/ /\ Consistent(job.key)
        /\ tx' = [Mark(job.key, "SUCCEEDED")
                    EXCEPT !.total = Put(@, {job.key}, Cardinality(job.loaded))]
     \/ /\ ~Consistent(job.key)
        /\ tx' = Mark(job.key, "FAILED")
  /\ job' = NextItem(job.key)
  /\ UNCHANGED <<catalog, item, total>> /\ UNCHANGED <<released, recovery, stored, faults>>

\* Mutation: no run commits.
EndRunUncommitted ==
  /\ job.step = "run" /\ job.key = <<>> /\ job.todo = {}
  /\ job' = NoJob
  /\ UNCHANGED <<vec, catalog, item, total, tx>>
  /\ UNCHANGED <<video, late>> /\ UNCHANGED <<released, recovery, faults>>

\* Mutation: the items are committed before the vectors, which get lost.
EndRunItemsOnly ==
  /\ job.step = "run" /\ job.key = <<>> /\ job.todo = {}
  /\ job' = NoJob
  /\ item' = [k \in Keys |-> OwnItem(k)] /\ total' = [k \in Keys |-> OwnTotal(k)]
  /\ catalog' = OwnCatalog /\ tx' = NoTx
  /\ UNCHANGED <<vec, video, late>> /\ UNCHANGED <<released, recovery, faults>>

\* The end of a run.  Only a worker that runs once commits.
EndRun ==
  /\ job.step = "run" /\ job.key = <<>> /\ job.todo = {}
  /\ job' = NoJob
  /\ IF RunOnce
     THEN /\ vec' = OwnVectors /\ catalog' = OwnCatalog
          /\ item' = [k \in Keys |-> OwnItem(k)] /\ total' = [k \in Keys |-> OwnTotal(k)]
          /\ tx' = NoTx
     ELSE UNCHANGED <<vec, catalog, item, total, tx>>
  /\ UNCHANGED <<video, late>> /\ UNCHANGED <<released, recovery, faults>>

Crash ==
  /\ job.step = "run" /\ Fault /\ Lose
  /\ UNCHANGED <<catalog, item, total>> /\ UNCHANGED <<released, recovery, stored>>

(***************************************************************************)
(* The release.                                                            *)
(***************************************************************************)

OpenCandidate ==
  /\ release.status = "STABLE"
  /\ \E m \in unused :
       /\ release' = [release EXCEPT !.status = "CANDIDATE_REINDEXING", !.candidate = m]
       /\ unused' = unused \ {m}
  /\ UNCHANGED <<line, gate, rollbacks>> /\ UNCHANGED <<recovery, stored, worker, faults>>

\* What the gate counts: from the committed catalog, the old-only videos of every source.
Remaining == {r \in Videos \X Sources(release, catalog) :
                r[1] \in OldOnly(r[2], release.active, vec)}

GatePasses ==
  /\ release.status = "CANDIDATE_REINDEXING" /\ ~gate
  /\ Remaining = {}
  /\ gate' = TRUE
  /\ UNCHANGED <<release, line, unused, rollbacks>> /\ UNCHANGED <<recovery, stored, worker, faults>>

\* A closed gate enqueues what it has counted (100 rows at most: all of them here) and waits
\* for the rows the worker has locked.
GateBlocks ==
  /\ release.status = "CANDIDATE_REINDEXING" /\ ~gate
  /\ LET keys == {k \in Keys : <<k[1], k[2]>> \in Remaining /\ k[3] = release.active}
     IN  /\ keys # {} /\ keys \intersect DOMAIN tx.item = {}
         /\ item' = [k \in Keys |-> IF k \in keys THEN Enqueued(item[k]) ELSE item[k]]
  /\ UNCHANGED <<catalog, total, tx, job>> /\ UNCHANGED <<released, recovery, stored, faults>>

Switch ==
  /\ gate
  /\ release' = [status |-> "STABLE", active |-> release.candidate,
                 previous |-> release.active, candidate |-> NoModel]
  /\ line' = Append(line, release.active)
  /\ gate' = FALSE
  /\ UNCHANGED <<unused, rollbacks>> /\ UNCHANGED <<recovery, stored, worker, faults>>

\* The projects with a chunk of the bad model.
Affected(m) == {ProjectOf[v] : v \in {w \in Videos : HasChunks(w) /\ video[w].model = m}}

RestorePossible ==
  /\ Last(line) \in ToSet(catalog)
  /\ \E x \in vec : x[2] = Last(line)
Restore ==
  /\ release' = [status |-> "STABLE", active |-> Last(line),
                 previous |-> NoModel, candidate |-> NoModel]
  /\ line' = Front(line)
StayPreparing ==
  /\ release' = [release EXCEPT !.status = "ROLLBACK_PREPARING"]
  /\ UNCHANGED line

\* A rollback request, or its continuation.  The restore waits for the index and the model.
Rollback ==
  /\ line # <<>>
  /\ \/ /\ release.status = "STABLE" /\ rollbacks < MaxRollbacks
        /\ rollbacks' = rollbacks + 1
        /\ excluded' = excluded \union Affected(release.active)
     \/ /\ release.status = "ROLLBACK_PREPARING" /\ RestorePossible
        /\ UNCHANGED <<rollbacks, excluded>>
  /\ \/ RestorePossible /\ Restore /\ NoFault
     \/ StayPreparing /\ IF RestorePossible THEN Fault ELSE NoFault
  /\ UNCHANGED <<unused, gate, requests, restored>> /\ UNCHANGED <<stored, worker>>

(***************************************************************************)
(* Recovery.                                                               *)
(***************************************************************************)

ToReembed(p) == {v \in ReadyOf(p) : ~Reflected(v, release.active, vec)}

\* Mutation: a project is restored when the chunks' own model is the active one again.
RestoredByChunkModel(p) == ReadyOf(p) # {} /\ \A v \in ReadyOf(p) : video[v].model = release.active

Restored(p) == ReadyOf(p) # {} /\ ToReembed(p) = {}

\* The scan reads the projects and sends its messages; its update is committed later.
RecoveryScan ==
  /\ release.status = "STABLE" /\ excluded # {} /\ restored = {}
  /\ UNCHANGED excluded /\ UNCHANGED <<released, stored, worker, faults>>
  /\ requests' = requests \union
       {<<v, release.active>> : v \in UNION {ToReembed(p) : p \in excluded}}
  /\ restored' = {p \in excluded : Restored(p)}

RecoveryCommit ==
  /\ restored # {}
  /\ excluded' = excluded \ restored
  /\ restored' = {}
  /\ UNCHANGED requests /\ UNCHANGED <<released, stored, worker, faults>>

\* A REEMBEDDING_REQUEST: all chunks of the video in one transaction, then the ack.  A video
\* that is gone, or a model that is not loaded, is an error and the message comes back.
Reembed(v, m) ==
  /\ <<v, m>> \in requests
  /\ video[v].st # "gone" /\ m \in Named(release)
  /\ HasChunks(v) => (ChunksOf(v) \X {m}) \intersect tx.vec = {}
  /\ vec' = IF HasChunks(v) THEN vec \union (ChunksOf(v) \X {m}) ELSE vec
  /\ \/ requests' = requests \ {<<v, m>>} /\ NoFault
     \/ UNCHANGED requests /\ Fault
  /\ UNCHANGED <<video, late, excluded, restored>> /\ UNCHANGED <<released, worker>>

LegacyRun ==
  (\E k \in job.todo : StartItem(k)) \/ EmbedBatch \/ CompleteItem \/ EndRun \/ Scan

Next ==
  \/ \E v \in Videos : Create(v) \/ ReadTarget(v) \/ Persist(v)
  \/ \E v \in Videos : RequestDelete(v) \/ HardDelete(v)
  \/ LegacyRun \/ Crash
  \/ OpenCandidate \/ GatePasses \/ GateBlocks \/ Switch \/ Rollback
  \/ RecoveryScan \/ RecoveryCommit
  \/ \E v \in Videos, m \in Models : Reembed(v, m)

Spec == Init /\ [][Next]_vars

\* The three workers keep going; nobody has to upload, delete, release or roll back.
FairSpec ==
  /\ Spec
  /\ WF_vars(LegacyRun)
  /\ WF_vars(RecoveryScan) /\ WF_vars(RecoveryCommit)
  /\ WF_vars(\E v \in Videos, m \in Models : Reembed(v, m))

(***************************************************************************)
(* Properties.                                                             *)
(***************************************************************************)

Statuses == {"none", "PENDING", "RUNNING", "SUCCEEDED", "FAILED", "SKIPPED"}
TypeOK ==
  /\ release \in [status : {"STABLE", "CANDIDATE_REINDEXING", "ROLLBACK_PREPARING"},
                  active : Models, previous : OrNone, candidate : OrNone]
  /\ line \in Seq(Models) /\ unused \subseteq Models /\ gate \in BOOLEAN
  /\ excluded \subseteq Projects /\ restored \subseteq Projects
  /\ video \in [Videos -> [st : {"none", "PENDING", "PROCESSING", "READY", "DELETING", "gone"},
                           model : OrNone]]
  /\ vec \subseteq Vectors /\ tx.vec \subseteq Vectors
  /\ catalog \in Seq(Models) /\ tx.catalog \in Seq(Models)
  /\ item \in [Keys -> Statuses \ {"RUNNING"}]
  /\ tx.item \in [DOMAIN tx.item -> Statuses] /\ DOMAIN tx.item \subseteq Keys
  /\ total \in [Keys -> Nat]
  /\ tx.total \in [DOMAIN tx.total -> Nat] /\ DOMAIN tx.total \subseteq DOMAIN tx.item
  /\ job.step \in {"idle", "run"} /\ job.todo \subseteq Keys
  /\ job.left \subseteq job.loaded /\ job.loaded \subseteq Chunks
  /\ requests \subseteq Videos \X Models
  /\ late \subseteq Videos

\* Search looks into the active and the previous index.  Through cutovers, a rollback, legacy
\* runs, re-embeddings and recoveries, no READY video of a project that search serves is missing
\* there.  The exception is a video whose ingest had read an older target: it can be where
\* search does not look until the legacy reindex finds it.  (Two more things lose videos, with
\* more models and rollbacks than the runs have: a third cutover over an index that no committed
\* run has put into the catalog, and a second rollback, which excludes by the chunks' first model.)
Searched == {release.active, release.previous}
Covered ==
  \A v \in Videos :
    video[v].st = "READY" /\ ProjectOf[v] \notin excluded /\ v \notin late
      => \A c \in ChunksOf(v) : \E m \in Searched : <<c, m>> \in vec

\* A committed item keeps to its statuses, none RUNNING, and one that has SUCCEEDED tells the
\* truth: as many chunks as it claims to have moved, and at least one, are in its source and in
\* its target, whatever failed attempts left behind in either.  (Not every chunk of the source
\* is: a re-embedding can add to an index after an item has moved what it held before.)
Moved(k, vectors) ==
  {c \in ChunksOf(k[1]) : <<c, k[2]>> \in vectors /\ <<c, k[3]>> \in vectors}
ItemsTruthful ==
  /\ TypeOK
  /\ \A k \in Keys : item[k] = "SUCCEEDED" => total[k] \in 1..Cardinality(Moved(k, vec))

\* What the cutover gate waits for comes to an end: the videos that only older indexes hold
\* get into the active one, unless the release or the projects pause the worker, an item has
\* failed, or failed items fill every run's limit.
Failed == {k \in Keys : item[k] = "FAILED"}
LegacyMoves ==
  Remaining # {} ~>
    \/ Remaining = {}
    \/ Paused
    \/ \E k \in Failed : k[3] = release.active
    \/ Cardinality(Failed) >= PerRunLimit

\* The excluded projects are served again once their videos are re-embedded, unless one has no
\* READY video or the release leaves STABLE.
Reenters ==
  excluded # {} ~>
    excluded = {} \/ (\E p \in excluded : ReadyOf(p) = {}) \/ release.status # "STABLE"

\* Model_Release_and_Reindex_Spec.md: "previous보다 오래된 데이터의 legacy 재색인이 완료된
\* 뒤에만 서빙을 전환한다" -- after a switch no video is left behind in indexes older than the
\* previous one, at least of the indexes that a run of the worker has put into its catalog.
GateIsComplete ==
  [][\A v \in Videos :
       /\ gate /\ ~gate' /\ video[v].st = "READY" /\ v \notin late
       /\ {x[2] : x \in {y \in vec : y[1][1] = v}} \subseteq ToSet(OwnCatalog)
       => Reflected(v, release.active, vec)]_vars
=============================================================================
