------------------------ MODULE LegacyReindexProofs ------------------------
(***************************************************************************)
(* Theorems about LegacyReindex, for any videos, chunks, models and limits *)
(* of a run, and any number of faults.                                     *)
(***************************************************************************)
EXTENDS LegacyReindex, TLAPS, FiniteSetTheorems, SequenceTheorems

-----------------------------------------------------------------------------
(* The steps by actor, and what each leaves alone.                         *)

Uploading(v) == Create(v) \/ ReadTarget(v) \/ Persist(v) \/ RequestDelete(v)
Working == (\E k \in job.todo : StartItem(k)) \/ EmbedBatch \/ CompleteItem \/ Scan \/ Crash
Releasing == OpenCandidate \/ GatePasses \/ Switch \/ Rollback
Reembedding == \E v \in Videos, m \in Models : Reembed(v, m)

LEMMA NextByActor ==
  Next => \/ \E v \in Videos : Uploading(v) \/ HardDelete(v)
          \/ Working \/ EndRun \/ Releasing \/ GateBlocks
          \/ RecoveryScan \/ RecoveryCommit \/ Reembedding
BY DEF Next, LegacyRun, Uploading, Working, Releasing, Reembedding

LEMMA UploadingKeeps ==
  ASSUME NEW v \in Videos, Uploading(v)
  PROVE  UNCHANGED <<release, line, unused, gate, rollbacks, excluded, requests, restored,
                     catalog, item, total, tx, job>>
BY DEF Uploading, Create, ReadTarget, Persist, RequestDelete, released, recovery, worker

LEMMA WorkingKeeps ==
  Working => UNCHANGED <<release, line, unused, gate, rollbacks, excluded, requests, restored,
                         video, vec, late, catalog, item, total>>
BY DEF Working, StartItem, EmbedBatch, CompleteItem, Scan, Crash, released, recovery, stored

LEMMA ReleasingKeeps ==
  Releasing => UNCHANGED <<requests, restored, video, vec, late, catalog, item, total, tx, job>>
BY DEF Releasing, OpenCandidate, GatePasses, Switch, Rollback, recovery, stored, worker

-----------------------------------------------------------------------------
(* Types.                                                                  *)

ReleaseTyped ==
  /\ release \in [status : {"STABLE", "CANDIDATE_REINDEXING", "ROLLBACK_PREPARING"},
                  active : Models, previous : OrNone, candidate : OrNone]
  /\ line \in Seq(Models) /\ unused \subseteq Models /\ gate \in BOOLEAN
  /\ excluded \subseteq Projects /\ restored \subseteq Projects /\ rollbacks \in Nat
  /\ gate => release.status = "CANDIDATE_REINDEXING"
  /\ release.status = "CANDIDATE_REINDEXING" => release.candidate \in Models

VideosTyped ==
  /\ video \in [Videos -> [st : {"none", "PENDING", "PROCESSING", "READY", "DELETING", "gone"},
                           model : OrNone]]
  /\ vec \subseteq Vectors /\ late \subseteq Videos
  /\ requests \subseteq Videos \X Models
  /\ \A v \in Videos : video[v].st = "PROCESSING" => video[v].model \in Models

TxTyped ==
  /\ tx = [vec |-> tx.vec, item |-> tx.item, total |-> tx.total, catalog |-> tx.catalog]
  /\ tx.vec \subseteq Vectors /\ tx.catalog \in Seq(Models)
  /\ tx.item \in [DOMAIN tx.item -> Statuses] /\ DOMAIN tx.item \subseteq Keys
  /\ tx.total \in [DOMAIN tx.total -> Nat] /\ DOMAIN tx.total \subseteq DOMAIN tx.item
  /\ \A k \in DOMAIN tx.item : tx.item[k] = "RUNNING" => k = job.key

JobTyped ==
  /\ job = [step |-> job.step, todo |-> job.todo, key |-> job.key,
            loaded |-> job.loaded, left |-> job.left]
  /\ job.step \in {"idle", "run"} /\ job.todo \subseteq Keys
  /\ job.left \subseteq job.loaded /\ job.loaded \subseteq Chunks
  /\ job.key # <<>> => job.key \in Keys /\ job.step = "run"

RowsTyped ==
  catalog \in Seq(Models) /\ item \in [Keys -> Statuses \ {"RUNNING"}] /\ total \in [Keys -> Nat]

WorkerTyped == TxTyped /\ JobTyped /\ RowsTyped
TypeInv == ReleaseTyped /\ VideosTyped /\ WorkerTyped

LEMMA NamedModels == ReleaseTyped => Named(release) \subseteq Models
BY DEF ReleaseTyped, Named, OrNone

LEMMA LineTyped ==
  ASSUME NEW s \in Seq(Models), s # <<>>
  PROVE  /\ Last(s) \in Models /\ Front(s) \in Seq(Models)
         /\ Len(Front(s)) = Len(s) - 1
         /\ \A i \in 1..Len(s) - 1 : Front(s)[i] = s[i]
<1>1. Len(s) \in Nat /\ Len(s) # 0 /\ Len(s) \in DOMAIN s BY EmptySeq
<1>2. /\ Front(s) \in Seq(Models)
      /\ Len(Front(s)) = IF 1 <= Len(s) - 1 THEN Len(s) - 1 - 1 + 1 ELSE 0
      /\ \A i \in 1..Len(s) - 1 - 1 + 1 : Front(s)[i] = s[1 + i - 1]
  BY <1>1, SubSeqProperties DEF Front
<1>3. Last(s) \in Models BY <1>1 DEF Last
<1>4. Len(Front(s)) = Len(s) - 1
  <2>1. CASE Len(s) = 1 BY <1>2, <2>1
  <2>2. CASE Len(s) # 1
    <3> \A n \in Nat : n # 0 /\ n # 1 => 1 <= n - 1 /\ n - 1 - 1 + 1 = n - 1 OBVIOUS
    <3>1. 1 <= Len(s) - 1 /\ Len(s) - 1 - 1 + 1 = Len(s) - 1 BY <1>1, <2>2
    <3> QED BY <1>2, <3>1
  <2> QED BY <2>1, <2>2
<1>5. ASSUME NEW i \in 1..Len(s) - 1 PROVE Front(s)[i] = s[i]
  <2>1. i \in 1..Len(s) - 1 - 1 + 1 /\ 1 + i - 1 = i BY <1>1
  <2> QED BY <2>1, <1>2
<1> QED BY <1>2, <1>3, <1>4, <1>5

LEMMA ReleaseStaysTyped ==
  ASSUME ReindexAssumption, TypeInv, Next PROVE ReleaseTyped'
<1> USE DEF TypeInv
<1>1. ASSUME NEW v \in Videos, Uploading(v) PROVE ReleaseTyped'
  BY <1>1, UploadingKeeps DEF ReleaseTyped
<1>2. CASE Working BY <1>2, WorkingKeeps DEF ReleaseTyped
<1>3. ASSUME NEW v \in Videos, HardDelete(v) PROVE ReleaseTyped'
  BY <1>3 DEF HardDelete, ReleaseTyped, released, recovery
<1>4. CASE EndRun \/ GateBlocks
  BY <1>4 DEF EndRun, GateBlocks, ReleaseTyped, released, recovery
<1>5. CASE OpenCandidate \/ GatePasses
  BY <1>5 DEF OpenCandidate, GatePasses, ReleaseTyped, recovery, OrNone
<1>6. CASE Switch
  <2>1. release.active \in Models /\ release.candidate \in Models BY <1>6 DEF Switch, ReleaseTyped
  <2>2. line' \in Seq(Models) BY <1>6, <2>1 DEF Switch, ReleaseTyped
  <2>3. release' \in [status : {"STABLE", "CANDIDATE_REINDEXING", "ROLLBACK_PREPARING"},
                  active : Models, previous : OrNone, candidate : OrNone]
    BY <1>6, <2>1 DEF Switch, OrNone
  <2>4. release'.status = "STABLE" /\ gate' = FALSE BY <1>6 DEF Switch
  <2> QED BY <1>6, <2>1, <2>2, <2>3, <2>4 DEF Switch, ReleaseTyped, recovery
<1>7. CASE Rollback
  <2>1. line # <<>> BY <1>7 DEF Rollback
  <2>2. Last(line) \in Models /\ Front(line) \in Seq(Models)
    BY <2>1, LineTyped DEF ReleaseTyped
  <2>3. line' \in Seq(Models) BY <1>7, <2>2 DEF Rollback, Restore, StayPreparing, ReleaseTyped
  <2>4. /\ release' \in [status : {"STABLE", "CANDIDATE_REINDEXING", "ROLLBACK_PREPARING"},
                     active : Models, previous : OrNone, candidate : OrNone]
        /\ release'.status # "CANDIDATE_REINDEXING"
    <3>1. CASE Restore BY <3>1, <2>2 DEF Restore, OrNone
    <3>2. CASE StayPreparing BY <3>2 DEF StayPreparing, ReleaseTyped
    <3> QED BY <1>7, <3>1, <3>2 DEF Rollback
  <2>7. ~gate BY <1>7 DEF Rollback, ReleaseTyped
  <2>5. \A m : Affected(m) \subseteq Projects BY DEF Affected, ReindexAssumption
  <2>6. excluded' \subseteq Projects /\ rollbacks' \in Nat
    BY <1>7, <2>5 DEF Rollback, ReleaseTyped
  <2> QED BY <1>7, <2>3, <2>4, <2>6, <2>7 DEF Rollback, ReleaseTyped
<1>8. CASE RecoveryScan \/ RecoveryCommit
  BY <1>8 DEF RecoveryScan, RecoveryCommit, ReleaseTyped, released
<1>9. CASE Reembedding BY <1>9 DEF Reembedding, Reembed, ReleaseTyped, released
<1> QED BY <1>1, <1>2, <1>3, <1>4, <1>5, <1>6, <1>7, <1>8, <1>9, NextByActor DEF Releasing

LEMMA ChunksTyped ==
  ASSUME NEW v \in Videos, NEW m \in Models PROVE ChunksOf(v) \X {m} \subseteq Vectors
BY DEF Vectors, Chunks

LEMMA VideosStayTyped ==
  ASSUME ReindexAssumption, TypeInv, Next PROVE VideosTyped'
<1> USE DEF TypeInv
<1>1. ASSUME NEW v \in Videos, Create(v) \/ ReadTarget(v) \/ RequestDelete(v) PROVE VideosTyped'
  <2>1. CASE Create(v) BY <2>1 DEF Create, VideosTyped, recovery
  <2>2. CASE ReadTarget(v) BY <2>2 DEF ReadTarget, VideosTyped, ReleaseTyped, recovery, OrNone
  <2>3. CASE RequestDelete(v) BY <2>3 DEF RequestDelete, VideosTyped, recovery
  <2> QED BY <1>1, <2>1, <2>2, <2>3
<1>2. ASSUME NEW v \in Videos, Persist(v) PROVE VideosTyped'
  <2>1. video[v].model \in Models BY <1>2 DEF Persist, VideosTyped
  <2>2. vec' \subseteq Vectors BY <1>2, <2>1, ChunksTyped DEF Persist, VideosTyped
  <2>3. late' \subseteq Videos BY <1>2 DEF Persist, VideosTyped
  <2> QED BY <1>2, <2>2, <2>3 DEF Persist, VideosTyped, recovery
<1>3. CASE Working \/ Releasing BY <1>3, WorkingKeeps, ReleasingKeeps DEF VideosTyped
<1>4. ASSUME NEW v \in Videos, HardDelete(v) PROVE VideosTyped'
  BY <1>4 DEF HardDelete, VideosTyped, recovery, OrNone
<1>5. CASE EndRun \/ GateBlocks
  BY <1>5 DEF EndRun, GateBlocks, VideosTyped, WorkerTyped, TxTyped, recovery, stored, OwnVectors
<1>6. CASE RecoveryScan
  <2>1. requests' \subseteq Videos \X Models
    BY <1>6 DEF RecoveryScan, ToReembed, ReadyOf, VideosTyped, ReleaseTyped
  <2> QED BY <1>6, <2>1 DEF RecoveryScan, VideosTyped, stored
<1>7. CASE RecoveryCommit BY <1>7 DEF RecoveryCommit, VideosTyped, stored
<1>8. CASE Reembedding
  <2> PICK v \in Videos, m \in Models : Reembed(v, m) BY <1>8 DEF Reembedding
  <2>1. vec' \subseteq Vectors BY ChunksTyped DEF Reembed, VideosTyped
  <2> QED BY <2>1 DEF Reembed, VideosTyped
<1> QED BY <1>1, <1>2, <1>3, <1>4, <1>5, <1>6, <1>7, <1>8, NextByActor DEF Uploading

LEMMA MarkTyped ==
  ASSUME TxTyped, NEW k \in Keys, NEW s \in Statuses, s = "RUNNING" => k = job'.key,
         \A j \in DOMAIN tx.item : tx.item[j] # "RUNNING" \/ j = k,
         NEW totals, totals = tx.total \/ \E n \in Nat : totals = Put(tx.total, {k}, n),
         NEW vectors, vectors \subseteq Vectors,
         tx' = [vec |-> vectors, item |-> Put(tx.item, {k}, s), total |-> totals,
                catalog |-> tx.catalog]
  PROVE  TxTyped'
<1> USE DEF TxTyped
<1>1. /\ tx'.item = Put(tx.item, {k}, s) /\ tx'.total = totals
      /\ tx'.vec = vectors /\ tx'.catalog = tx.catalog
  OBVIOUS
<1>2. /\ DOMAIN tx'.item = DOMAIN tx.item \union {k}
      /\ \A j \in DOMAIN tx'.item : tx'.item[j] = IF j = k THEN s ELSE tx.item[j]
      /\ tx'.item \in [DOMAIN tx'.item -> Statuses]
  BY <1>1 DEF Put
<1>3. /\ tx'.total \in [DOMAIN tx'.total -> Nat]
      /\ DOMAIN tx'.total \subseteq DOMAIN tx.total \union {k}
  <2>1. CASE totals = tx.total BY <1>1, <2>1
  <2>2. ASSUME NEW n \in Nat, totals = Put(tx.total, {k}, n) PROVE <1>3!1 /\ <1>3!2
    <3>1. DOMAIN totals = DOMAIN tx.total \union {k} BY <2>2 DEF Put
    <3>2. totals = [j \in DOMAIN tx.total \union {k} |-> IF j = k THEN n ELSE tx.total[j]]
      BY <2>2 DEF Put
    <3>3. \A j \in DOMAIN tx.total : tx.total[j] \in Nat OBVIOUS
    <3>4. totals \in [DOMAIN tx.total \union {k} -> Nat] BY <3>2, <3>3
    <3> QED BY <1>1, <3>1, <3>4
  <2> QED BY <2>1, <2>2
<1>4. \A j \in DOMAIN tx'.item : tx'.item[j] = "RUNNING" => j = job'.key BY <1>2
<1>5. /\ tx' = [vec |-> tx'.vec, item |-> tx'.item, total |-> tx'.total, catalog |-> tx'.catalog]
      /\ tx'.vec \subseteq Vectors /\ tx'.catalog \in Seq(Models)
  BY <1>1
<1> QED BY <1>2, <1>3, <1>4, <1>5

LEMMA NoKeyIsEmpty == ~ <<>> \in Keys
BY DEF Keys

LEMMA CatalogGrows ==
  ASSUME ReleaseTyped, WorkerTyped, NEW new \in SetToSeqs(Named(release) \ ToSet(OwnCatalog))
  PROVE  new \in Seq(Models)
<1> DEFINE S == Named(release) \ ToSet(OwnCatalog)
<1>1. IsFiniteSet({release.active, release.previous, release.candidate})
  <2>1. IsFiniteSet({} \union {release.active}) BY FS_EmptySet, FS_AddElement
  <2>2. IsFiniteSet({release.active} \union {release.previous}) BY <2>1, FS_AddElement
  <2>3. IsFiniteSet({release.active, release.previous} \union {release.candidate})
    BY <2>2, FS_AddElement
  <2>4. {release.active, release.previous, release.candidate}
          = {release.active, release.previous} \union {release.candidate} OBVIOUS
  <2> QED BY <2>3, <2>4
<1>2. S \in SUBSET {release.active, release.previous, release.candidate} BY DEF Named
<1>3. Cardinality(S) \in Nat BY <1>1, <1>2, FS_Subset, FS_CardinalityType
<1>4. S \subseteq Models BY NamedModels
<1>5. new \in [1..Cardinality(S) -> S] BY DEF SetToSeqs
<1>6. \E n \in Nat : new \in [1..n -> Models] BY <1>3, <1>4, <1>5
<1> QED BY <1>6, SeqDef

LEMMA LoseTyped ==
  ASSUME Lose PROVE TxTyped' /\ JobTyped'
<1>1. /\ tx'.vec = {} /\ tx'.item = [k \in {} |-> "none"] /\ tx'.total = [k \in {} |-> 0]
      /\ tx'.catalog = <<>> /\ tx' = [vec |-> tx'.vec, item |-> tx'.item,
                                    total |-> tx'.total, catalog |-> tx'.catalog]
  BY DEF Lose, NoTx
<1>2. /\ job' = [step |-> job'.step, todo |-> job'.todo, key |-> job'.key,
                 loaded |-> job'.loaded, left |-> job'.left]
      /\ job'.step = "idle" /\ job'.todo = {} /\ job'.key = <<>>
      /\ job'.left = {} /\ job'.loaded = {}
  BY DEF Lose, NoJob
<1>3. <<>> \in Seq(Models) BY EmptySeq
<1>4. DOMAIN tx'.item = {} /\ DOMAIN tx'.total = {} BY <1>1
<1>5. tx'.item \in [DOMAIN tx'.item -> Statuses] /\ tx'.total \in [DOMAIN tx'.total -> Nat]
  BY <1>1
<1> QED BY <1>1, <1>2, <1>3, <1>4, <1>5 DEF TxTyped, JobTyped

LEMMA RunTyped ==
  ASSUME JobTyped, NEW k, job' = NextItem(k) PROVE JobTyped' /\ job'.key = <<>>
<1>1. /\ job' = [step |-> job'.step, todo |-> job'.todo, key |-> job'.key,
                 loaded |-> job'.loaded, left |-> job'.left]
      /\ job'.step = "run" /\ job'.todo = job.todo \ {k} /\ job'.key = <<>>
      /\ job'.left = {} /\ job'.loaded = {}
  BY DEF NextItem, NoJob
<1> QED BY <1>1 DEF JobTyped

LEMMA NoneRunning ==
  ASSUME TxTyped, job.key = <<>>, NEW k \in DOMAIN tx.item PROVE tx.item[k] # "RUNNING"
BY NoKeyIsEmpty DEF TxTyped

LEMMA StartItemTyped ==
  ASSUME WorkerTyped, NEW k \in job.todo, StartItem(k) PROVE WorkerTyped'
<1> DEFINE v == k[1]
           chunks == {c \in ChunksOf(v) : <<c, k[2]>> \in OwnVectors}
<1>1. k \in Keys /\ RowsTyped' BY DEF StartItem, WorkerTyped, JobTyped, RowsTyped
<1>2. \A j \in DOMAIN tx.item : tx.item[j] # "RUNNING"
  BY NoneRunning DEF StartItem, WorkerTyped
<1>3. CASE Lose BY <1>1, <1>3, LoseTyped DEF WorkerTyped
<1>4. tx.vec \subseteq Vectors BY DEF WorkerTyped, TxTyped
<1>5. ASSUME NEW s \in {"SKIPPED", "FAILED"}, tx' = Mark(k, s), job' = NextItem(k)
      PROVE  WorkerTyped'
  <2>1. tx' = [vec |-> tx.vec, item |-> Put(tx.item, {k}, s), total |-> tx.total,
               catalog |-> tx.catalog]
    BY <1>5 DEF Mark, WorkerTyped, TxTyped
  <2>2. s \in Statuses /\ s # "RUNNING" BY DEF Statuses
  <2>3. TxTyped' BY <1>1, <1>2, <1>4, <2>1, <2>2, MarkTyped DEF WorkerTyped
  <2> QED BY <1>1, <1>5, <2>3, RunTyped DEF WorkerTyped
<1>6. ASSUME tx' = Mark(k, "RUNNING"),
             job' = [NextItem(k) EXCEPT !.key = k, !.loaded = chunks, !.left = chunks]
      PROVE  WorkerTyped'
  <2>1. /\ job' = [step |-> job'.step, todo |-> job'.todo, key |-> job'.key,
                   loaded |-> job'.loaded, left |-> job'.left]
        /\ job'.step = "run" /\ job'.todo = job.todo \ {k} /\ job'.key = k
        /\ job'.left = chunks /\ job'.loaded = chunks
    BY <1>6 DEF NextItem, NoJob
  <2>2. tx' = [vec |-> tx.vec, item |-> Put(tx.item, {k}, "RUNNING"), total |-> tx.total,
               catalog |-> tx.catalog]
    BY <1>6 DEF Mark, WorkerTyped, TxTyped
  <2>3. "RUNNING" \in Statuses BY DEF Statuses
  <2>4. TxTyped' BY <1>1, <1>2, <1>4, <2>1, <2>2, <2>3, MarkTyped DEF WorkerTyped
  <2>5. chunks \subseteq Chunks BY <1>1 DEF Chunks, Keys
  <2> QED BY <1>1, <2>1, <2>4, <2>5 DEF WorkerTyped, JobTyped
<1> QED BY <1>3, <1>5, <1>6 DEF StartItem

LEMMA EmbedBatchTyped ==
  ASSUME WorkerTyped, EmbedBatch PROVE WorkerTyped'
<1> DEFINE k == job.key
<1>1. k \in Keys /\ RowsTyped' BY DEF EmbedBatch, WorkerTyped, JobTyped, RowsTyped
<1>2. \A j \in DOMAIN tx.item : tx.item[j] # "RUNNING" \/ j = k BY DEF WorkerTyped, TxTyped
<1>4. ASSUME NEW c \in job.left, tx' = [tx EXCEPT !.vec = @ \union {<<c, k[3]>>}],
             job' = [job EXCEPT !.left = @ \ {c}]
      PROVE  WorkerTyped'
  <2>1. <<c, k[3]>> \in Vectors BY <1>1 DEF Vectors, Keys, WorkerTyped, JobTyped
  <2>2. TxTyped' BY <1>4, <2>1 DEF WorkerTyped, TxTyped, JobTyped
  <2>3. JobTyped' BY <1>4 DEF WorkerTyped, JobTyped
  <2> QED BY <1>1, <2>2, <2>3 DEF WorkerTyped
<1>5. CASE tx' = Mark(k, "FAILED") /\ job' = NextItem(k)
  <2>1. tx' = [vec |-> tx.vec, item |-> Put(tx.item, {k}, "FAILED"), total |-> tx.total,
               catalog |-> tx.catalog]
    BY <1>5 DEF Mark, WorkerTyped, TxTyped
  <2>2. "FAILED" \in Statuses /\ "FAILED" # "RUNNING" BY DEF Statuses
  <2>3. tx.vec \subseteq Vectors BY DEF WorkerTyped, TxTyped
  <2>4. TxTyped' BY <1>1, <1>2, <2>1, <2>2, <2>3, MarkTyped DEF WorkerTyped
  <2> QED BY <1>1, <1>5, <2>4, RunTyped DEF WorkerTyped
<1> QED BY <1>4, <1>5 DEF EmbedBatch

LEMMA FiniteChunks ==
  ASSUME ReindexAssumption, NEW v \in Videos
  PROVE  IsFiniteSet(ChunksOf(v)) /\ ChunksOf(v) # {}
<1>1. ChunksPerVideo[v] \in Nat /\ ChunksPerVideo[v] # 0 BY DEF ReindexAssumption
<1>2. IsFiniteSet({v}) BY FS_Singleton
<1>3. IsFiniteSet(1..ChunksPerVideo[v])
  <2>1. ASSUME NEW n \in Nat PROVE IsFiniteSet(1..n) BY FS_Interval
  <2> QED BY <1>1, <2>1
<1>5. IsFiniteSet({v} \X (1..ChunksPerVideo[v])) BY <1>2, <1>3, FS_Product
<1>4. <<v, 1>> \in {v} \X (1..ChunksPerVideo[v]) BY <1>1
<1> QED BY <1>4, <1>5 DEF ChunksOf

\* What the job has loaded of its item's video is finite.
JobInv == job.key # <<>> => job.loaded \subseteq ChunksOf(job.key[1]) /\ job.loaded # {}

LEMMA LoadedIsFinite ==
  ASSUME ReindexAssumption, JobTyped, JobInv, job.key # <<>>
  PROVE  IsFiniteSet(job.loaded) /\ Cardinality(job.loaded) \in Nat \ {0}
<1>1. job.key[1] \in Videos BY DEF JobTyped, Keys
<1>2. job.loaded \in SUBSET ChunksOf(job.key[1]) BY DEF JobInv
<1>3. IsFiniteSet(job.loaded) BY <1>1, <1>2, FiniteChunks, FS_Subset
<1> QED BY <1>3, FS_CardinalityType, FS_EmptySet DEF JobInv

LEMMA CompleteItemTyped ==
  ASSUME ReindexAssumption, WorkerTyped, JobInv, CompleteItem PROVE WorkerTyped'
<1> DEFINE k == job.key
<1>1. k \in Keys /\ RowsTyped' BY DEF CompleteItem, WorkerTyped, JobTyped, RowsTyped
<1>2. \A j \in DOMAIN tx.item : tx.item[j] # "RUNNING" \/ j = k BY DEF WorkerTyped, TxTyped
<1>3. tx.vec \subseteq Vectors BY DEF WorkerTyped, TxTyped
<1>4. Cardinality(job.loaded) \in Nat BY LoadedIsFinite DEF CompleteItem, WorkerTyped
<1>5. \/ tx' = [vec |-> tx.vec, item |-> Put(tx.item, {k}, "SUCCEEDED"),
               total |-> Put(tx.total, {k}, Cardinality(job.loaded)), catalog |-> tx.catalog]
      \/ tx' = [vec |-> tx.vec, item |-> Put(tx.item, {k}, "FAILED"), total |-> tx.total,
               catalog |-> tx.catalog]
  BY DEF CompleteItem, Mark, WorkerTyped, TxTyped
<1>6. PICK s \in {"SUCCEEDED", "FAILED"},
           totals \in {tx.total, Put(tx.total, {k}, Cardinality(job.loaded))} :
        tx' = [vec |-> tx.vec, item |-> Put(tx.item, {k}, s), total |-> totals,
               catalog |-> tx.catalog]
  BY <1>5
<1>7. s \in Statuses /\ s # "RUNNING" BY DEF Statuses
<1>8. totals = tx.total \/ \E n \in Nat : totals = Put(tx.total, {k}, n) BY <1>4
<1>9. TxTyped' BY <1>1, <1>2, <1>3, <1>6, <1>7, <1>8, MarkTyped DEF WorkerTyped
<1> QED BY <1>1, <1>9, RunTyped DEF WorkerTyped, CompleteItem

LEMMA ScanTyped ==
  ASSUME ReleaseTyped, WorkerTyped, Scan PROVE WorkerTyped'
<1>1. PICK new \in SetToSeqs(Named(release) \ ToSet(OwnCatalog)),
           changed \in SUBSET Keys, todo \in SUBSET Keys :
        /\ tx' = [tx EXCEPT !.catalog = @ \o new, !.item = Put(tx.item, changed, "PENDING")]
        /\ job' = [NoJob EXCEPT !.step = "run", !.todo = todo]
  BY DEF Scan
<1>2. new \in Seq(Models) BY CatalogGrows
<1>3. tx' = [vec |-> tx.vec, item |-> Put(tx.item, changed, "PENDING"), total |-> tx.total,
             catalog |-> tx.catalog \o new]
  BY <1>1 DEF WorkerTyped, TxTyped
<1>4. /\ job' = [step |-> job'.step, todo |-> job'.todo, key |-> job'.key,
                 loaded |-> job'.loaded, left |-> job'.left]
      /\ job'.step = "run" /\ job'.todo = todo /\ job'.key = <<>>
      /\ job'.left = {} /\ job'.loaded = {}
  BY <1>1 DEF NoJob
<1>5. /\ tx'.vec = tx.vec /\ tx'.item = Put(tx.item, changed, "PENDING")
      /\ tx'.total = tx.total /\ tx'.catalog = tx.catalog \o new
  BY <1>3
<1>6. tx'.catalog \in Seq(Models) BY <1>2, <1>5, ConcatProperties DEF WorkerTyped, TxTyped
<1>7. /\ DOMAIN tx'.item = DOMAIN tx.item \union changed
      /\ \A k \in DOMAIN tx'.item : tx'.item[k] = IF k \in changed THEN "PENDING" ELSE tx.item[k]
      /\ tx'.item \in [DOMAIN tx'.item -> Statuses]
  BY <1>5 DEF Put, WorkerTyped, TxTyped, Statuses
<1>8. \A k \in DOMAIN tx.item : tx.item[k] # "RUNNING"
  BY NoneRunning DEF Scan, WorkerTyped, JobTyped
<1>9. TxTyped'
  BY <1>3, <1>5, <1>6, <1>7, <1>8 DEF WorkerTyped, TxTyped
<1> QED BY <1>4, <1>9 DEF WorkerTyped, JobTyped, RowsTyped, Scan

LEMMA WorkerStaysTyped ==
  ASSUME ReindexAssumption, TypeInv, JobInv, Next PROVE WorkerTyped'
<1> USE DEF TypeInv
<1>1. ASSUME NEW v \in Videos, Uploading(v) PROVE WorkerTyped'
  BY <1>1, UploadingKeeps DEF WorkerTyped, TxTyped, JobTyped, RowsTyped
<1>2. CASE Working
  BY <1>2, StartItemTyped, EmbedBatchTyped, CompleteItemTyped, ScanTyped, LoseTyped
  DEF Working, Crash, WorkerTyped, RowsTyped
<1>3. ASSUME NEW v \in Videos, HardDelete(v) PROVE WorkerTyped'
  <2>1. item' \in [Keys -> Statuses \ {"RUNNING"}]
    BY <1>3 DEF HardDelete, WorkerTyped, RowsTyped, Statuses
  <2>2. total' \in [Keys -> Nat] BY <1>3 DEF HardDelete, WorkerTyped, RowsTyped
  <2> QED BY <1>3, <2>1, <2>2 DEF HardDelete, WorkerTyped, TxTyped, JobTyped, RowsTyped
<1>4. CASE EndRun
  <2>1. CASE RunOnce
    <3>1. tx' = NoTx /\ job' = NoJob BY <1>4, <2>1 DEF EndRun
    <3>2. TxTyped' /\ JobTyped' BY <3>1, LoseTyped DEF Lose
    <3>3. catalog' \in Seq(Models)
      <4>1. catalog' = catalog \o tx.catalog BY <1>4, <2>1 DEF EndRun, OwnCatalog
      <4>2. catalog \in Seq(Models) /\ tx.catalog \in Seq(Models)
        BY DEF WorkerTyped, TxTyped, RowsTyped
      <4> QED BY <4>1, <4>2, ConcatProperties
    <3>4. \A k \in DOMAIN tx.item : tx.item[k] # "RUNNING"
      BY <1>4, NoneRunning DEF EndRun, WorkerTyped
    <3>5. \A k \in Keys : OwnItem(k) \in Statuses \ {"RUNNING"} /\ OwnTotal(k) \in Nat
      BY <3>4 DEF OwnItem, OwnTotal, WorkerTyped, TxTyped, RowsTyped
    <3>6. item' = [k \in Keys |-> OwnItem(k)] /\ total' = [k \in Keys |-> OwnTotal(k)]
      BY <1>4, <2>1 DEF EndRun
    <3>7. item' \in [Keys -> Statuses \ {"RUNNING"}] /\ total' \in [Keys -> Nat]
      BY <3>5, <3>6
    <3> QED BY <3>2, <3>3, <3>7 DEF WorkerTyped, RowsTyped
  <2>2. CASE ~RunOnce
    <3>1. UNCHANGED <<catalog, item, total, tx>> /\ job' = NoJob BY <1>4, <2>2 DEF EndRun
    <3>2. \A k \in DOMAIN tx.item : tx.item[k] # "RUNNING"
      BY <1>4, NoneRunning DEF EndRun, WorkerTyped
    <3>3. TxTyped' BY <3>1, <3>2 DEF WorkerTyped, TxTyped
    <3>4. /\ job' = [step |-> job'.step, todo |-> job'.todo, key |-> job'.key,
                     loaded |-> job'.loaded, left |-> job'.left]
          /\ job'.step = "idle" /\ job'.todo = {} /\ job'.key = <<>>
          /\ job'.left = {} /\ job'.loaded = {}
      BY <3>1 DEF NoJob
    <3> QED BY <3>1, <3>3, <3>4 DEF WorkerTyped, JobTyped, RowsTyped
  <2> QED BY <2>1, <2>2
<1>5. CASE GateBlocks
  <2>1. \A s \in Statuses \ {"RUNNING"} : Enqueued(s) \in Statuses \ {"RUNNING"}
    BY DEF Enqueued, Statuses
  <2>2. item' \in [Keys -> Statuses \ {"RUNNING"}]
    BY <1>5, <2>1 DEF GateBlocks, WorkerTyped, RowsTyped
  <2> QED BY <1>5, <2>2 DEF GateBlocks, WorkerTyped, TxTyped, JobTyped, RowsTyped
<1>6. CASE Releasing
  BY <1>6, ReleasingKeeps DEF WorkerTyped, TxTyped, JobTyped, RowsTyped
<1>7. CASE RecoveryScan \/ RecoveryCommit \/ Reembedding
  BY <1>7 DEF RecoveryScan, RecoveryCommit, Reembedding, Reembed, worker,
              WorkerTyped, TxTyped, JobTyped, RowsTyped
<1> QED BY <1>1, <1>2, <1>3, <1>4, <1>5, <1>6, <1>7, NextByActor

-----------------------------------------------------------------------------
(* The items and their vectors.                                            *)

\* What an item has moved stays in its two indexes: a claim is true of the vectors its session
\* sees, and after the commit of all vectors.
Claim(k, n, vectors) == n \in 1..Cardinality(Moved(k, vectors))

ClaimInv ==
  /\ JobInv
  /\ job.key # <<>> =>
       /\ job.key \in DOMAIN tx.item
       /\ \A c \in job.loaded :
            /\ <<c, job.key[2]>> \in OwnVectors
            /\ c \in job.left \/ <<c, job.key[3]>> \in OwnVectors
  /\ \A k \in DOMAIN tx.item :
       tx.item[k] = "SUCCEEDED" => k \in DOMAIN tx.total /\ Claim(k, tx.total[k], OwnVectors)
  /\ \A k \in Keys : item[k] = "SUCCEEDED" => Claim(k, total[k], vec)

\* A claim stays true as long as no vector of its video goes.
LEMMA ClaimsLast ==
  ASSUME ReindexAssumption, NEW k \in Keys, NEW V, NEW W, NEW n, Claim(k, n, V),
         \A c \in ChunksOf(k[1]) : \A m \in Models : <<c, m>> \in V => <<c, m>> \in W
  PROVE  Claim(k, n, W)
<1>1. k[1] \in Videos /\ k[2] \in Models /\ k[3] \in Models BY DEF Keys
<1>2. Moved(k, W) \in SUBSET ChunksOf(k[1]) BY DEF Moved
<1>3. IsFiniteSet(Moved(k, W)) BY <1>1, <1>2, FiniteChunks, FS_Subset
<1>4. Moved(k, V) \in SUBSET Moved(k, W) BY <1>1 DEF Moved
<1>5. Cardinality(Moved(k, V)) <= Cardinality(Moved(k, W)) BY <1>3, <1>4, FS_Subset
<1>6. IsFiniteSet(Moved(k, V)) BY <1>3, <1>4, FS_Subset
<1>7. Cardinality(Moved(k, V)) \in Nat /\ Cardinality(Moved(k, W)) \in Nat
  BY <1>3, <1>6, FS_CardinalityType
<1> QED BY <1>5, <1>7 DEF Claim

LEMMA ClaimsStayWithTheirVectors ==
  ASSUME ReindexAssumption, TypeInv, ClaimInv, vec \subseteq vec',
         UNCHANGED <<item, total, tx, job>>
  PROVE  ClaimInv'
<1>1. OwnVectors \subseteq OwnVectors' BY DEF OwnVectors
<1>2. DOMAIN tx.item \subseteq Keys BY DEF TypeInv, WorkerTyped, TxTyped
<1>3. \A k \in Keys : item'[k] = "SUCCEEDED" => Claim(k, total'[k], vec')
  BY ClaimsLast DEF ClaimInv
<1>4. \A k \in DOMAIN tx.item :
        tx.item[k] = "SUCCEEDED" => k \in DOMAIN tx.total /\ Claim(k, tx.total[k], OwnVectors')
  BY <1>1, <1>2, ClaimsLast DEF ClaimInv
<1>5. job.key # <<>> => \A c \in job.loaded :
        /\ <<c, job.key[2]>> \in OwnVectors'
        /\ c \in job.left \/ <<c, job.key[3]>> \in OwnVectors'
  BY <1>1 DEF ClaimInv
<1>6. JobInv' BY DEF ClaimInv, JobInv
<1>7. /\ job'.key = job.key /\ job'.loaded = job.loaded /\ job'.left = job.left
      /\ tx'.item = tx.item /\ tx'.total = tx.total
  OBVIOUS
<1> QED BY <1>3, <1>4, <1>5, <1>6, <1>7 DEF ClaimInv

\* The rows that the worker has marked are locked until it commits.
LEMMA HardDeleteKeepsClaims ==
  ASSUME ReindexAssumption, TypeInv, ClaimInv, NEW v \in Videos, HardDelete(v) PROVE ClaimInv'
<1>1. UNCHANGED <<tx, job>> /\ ~Locked(v) BY DEF HardDelete
<1>2. \A k \in Keys : \A c \in ChunksOf(k[1]) : c[1] = k[1] BY DEF ChunksOf
<1>3. ASSUME NEW k \in Keys, k[1] # v, NEW c \in ChunksOf(k[1]), NEW m \in Models
      PROVE  /\ <<c, m>> \in vec => <<c, m>> \in vec'
             /\ <<c, m>> \in OwnVectors => <<c, m>> \in OwnVectors'
  BY <1>1, <1>2, <1>3 DEF HardDelete, OwnVectors
<1>4. \A k \in DOMAIN tx.item : k \in Keys /\ k[1] # v
  BY <1>1 DEF Locked, TypeInv, WorkerTyped, TxTyped
<1>5. ASSUME NEW k \in Keys, item'[k] = "SUCCEEDED" PROVE Claim(k, total'[k], vec')
  <2>1. k[1] # v /\ item[k] = "SUCCEEDED" /\ total'[k] = total[k] BY <1>5 DEF HardDelete
  <2>2. Claim(k, total[k], vec) BY <2>1 DEF ClaimInv
  <2> QED BY <2>1, <2>2, <1>3, ClaimsLast
<1>6. ASSUME NEW k \in DOMAIN tx.item, tx.item[k] = "SUCCEEDED"
      PROVE  k \in DOMAIN tx.total /\ Claim(k, tx.total[k], OwnVectors')
  <2>1. k \in DOMAIN tx.total /\ Claim(k, tx.total[k], OwnVectors) BY <1>6 DEF ClaimInv
  <2> QED BY <2>1, <1>3, <1>4, ClaimsLast
<1>7. ASSUME job.key # <<>>, NEW c \in job.loaded
      PROVE  /\ <<c, job.key[2]>> \in OwnVectors'
             /\ c \in job.left \/ <<c, job.key[3]>> \in OwnVectors'
  <2>1. job.key \in Keys /\ job.key[1] # v BY <1>4, <1>7 DEF ClaimInv
  <2>2. c \in ChunksOf(job.key[1]) /\ job.key[2] \in Models /\ job.key[3] \in Models
    BY <1>7, <2>1 DEF ClaimInv, JobInv, Keys
  <2> QED BY <1>3, <1>7, <2>1, <2>2 DEF ClaimInv
<1>8. JobInv' BY <1>1 DEF ClaimInv, JobInv
<1>9. /\ job'.key = job.key /\ job'.loaded = job.loaded /\ job'.left = job.left
      /\ tx'.item = tx.item /\ tx'.total = tx.total
  BY <1>1
<1>10. job.key # <<>> => job.key \in DOMAIN tx.item BY DEF ClaimInv
<1> QED BY <1>5, <1>6, <1>7, <1>8, <1>9, <1>10 DEF ClaimInv

\* The claims of the session after a mark that is no claim.
LEMMA MarksKeepClaims ==
  ASSUME ReindexAssumption, WorkerTyped, ClaimInv, UNCHANGED <<vec, item, total>>,
         NEW keys, NEW s, s # "SUCCEEDED",
         tx'.vec = tx.vec, tx'.total = tx.total, tx'.item = Put(tx.item, keys, s),
         job'.key = <<>>
  PROVE  ClaimInv'
<1>1. OwnVectors' = OwnVectors BY DEF OwnVectors
<1>2. \A k \in DOMAIN tx'.item :
        tx'.item[k] = "SUCCEEDED" => k \in DOMAIN tx.item /\ tx.item[k] = "SUCCEEDED"
  BY DEF Put
<1>3. \A k \in DOMAIN tx'.item :
        tx'.item[k] = "SUCCEEDED" => k \in DOMAIN tx'.total /\ Claim(k, tx'.total[k], OwnVectors')
  BY <1>1, <1>2 DEF ClaimInv
<1>4. \A k \in Keys : item'[k] = "SUCCEEDED" => Claim(k, total'[k], vec') BY DEF ClaimInv
<1> QED BY <1>3, <1>4 DEF ClaimInv, JobInv

LEMMA StartItemKeepsClaims ==
  ASSUME ReindexAssumption, WorkerTyped, ClaimInv, NEW k \in job.todo, StartItem(k),
         UNCHANGED <<vec, item, total>>
  PROVE  ClaimInv'
<1> DEFINE chunks == {c \in ChunksOf(k[1]) : <<c, k[2]>> \in OwnVectors}
<1>1. CASE Lose
  <2>1. DOMAIN tx'.item = {} /\ job'.key = <<>> BY <1>1 DEF Lose, NoTx, NoJob
  <2>2. \A j \in Keys : item'[j] = "SUCCEEDED" => Claim(j, total'[j], vec') BY DEF ClaimInv
  <2> QED BY <2>1, <2>2 DEF ClaimInv, JobInv
<1>2. ASSUME NEW s \in {"SKIPPED", "FAILED"}, tx' = Mark(k, s), job' = NextItem(k) PROVE ClaimInv'
  <2>1. /\ tx'.vec = tx.vec /\ tx'.total = tx.total /\ tx'.item = Put(tx.item, {k}, s)
        /\ job'.key = <<>> /\ s # "SUCCEEDED"
    BY <1>2 DEF Mark, NextItem, NoJob, WorkerTyped, TxTyped
  <2> QED BY <2>1, MarksKeepClaims
<1>3. ASSUME tx' = Mark(k, "RUNNING"), chunks # {},
             job' = [NextItem(k) EXCEPT !.key = k, !.loaded = chunks, !.left = chunks]
      PROVE  ClaimInv'
  <2>1. /\ tx'.vec = tx.vec /\ tx'.total = tx.total /\ tx'.item = Put(tx.item, {k}, "RUNNING")
        /\ job'.key = k /\ job'.loaded = chunks /\ job'.left = chunks
    BY <1>3 DEF Mark, NextItem, NoJob, WorkerTyped, TxTyped
  <2>2. OwnVectors' = OwnVectors BY <2>1 DEF OwnVectors
  <2>3. /\ k \in DOMAIN tx'.item
        /\ \A j \in DOMAIN tx'.item :
             tx'.item[j] = "SUCCEEDED" => j \in DOMAIN tx.item /\ tx.item[j] = "SUCCEEDED"
    BY <2>1 DEF Put
  <2>4. \A j \in DOMAIN tx'.item :
          tx'.item[j] = "SUCCEEDED" => j \in DOMAIN tx'.total /\ Claim(j, tx'.total[j], OwnVectors')
    BY <2>1, <2>2, <2>3 DEF ClaimInv
  <2>5. \A j \in Keys : item'[j] = "SUCCEEDED" => Claim(j, total'[j], vec') BY DEF ClaimInv
  <2>6. \A c \in job'.loaded : <<c, job'.key[2]>> \in OwnVectors' /\ c \in job'.left
    BY <2>1, <2>2
  <2>7. JobInv' BY <1>3, <2>1 DEF JobInv
  <2> QED BY <2>1, <2>3, <2>4, <2>5, <2>6, <2>7 DEF ClaimInv
<1> QED BY <1>1, <1>2, <1>3 DEF StartItem

LEMMA EmbedBatchKeepsClaims ==
  ASSUME ReindexAssumption, WorkerTyped, ClaimInv, EmbedBatch, UNCHANGED <<vec, item, total>>
  PROVE  ClaimInv'
<1> DEFINE k == job.key
<1>1. ASSUME NEW c \in job.left, tx' = [tx EXCEPT !.vec = @ \union {<<c, k[3]>>}],
             job' = [job EXCEPT !.left = @ \ {c}]
      PROVE  ClaimInv'
  <2>1. /\ tx'.vec = tx.vec \union {<<c, k[3]>>} /\ tx'.item = tx.item /\ tx'.total = tx.total
        /\ job'.key = k /\ job'.loaded = job.loaded /\ job'.left = job.left \ {c}
    BY <1>1 DEF WorkerTyped, TxTyped, JobTyped
  <2>2. OwnVectors' = OwnVectors \union {<<c, k[3]>>} BY <2>1 DEF OwnVectors
  <2>3. DOMAIN tx.item \subseteq Keys BY DEF WorkerTyped, TxTyped
  <2>4. \A j \in DOMAIN tx.item :
          tx.item[j] = "SUCCEEDED" => j \in DOMAIN tx.total /\ Claim(j, tx.total[j], OwnVectors')
    BY <2>2, <2>3, ClaimsLast DEF ClaimInv
  <2>5. \A j \in Keys : item'[j] = "SUCCEEDED" => Claim(j, total'[j], vec') BY DEF ClaimInv
  <2>6. k # <<>> => \A d \in job.loaded :
          /\ <<d, k[2]>> \in OwnVectors' /\ (d \in job'.left \/ <<d, k[3]>> \in OwnVectors')
    BY <2>1, <2>2 DEF ClaimInv
  <2>7. JobInv' BY <2>1 DEF ClaimInv, JobInv
  <2>8. k # <<>> => k \in DOMAIN tx.item BY DEF ClaimInv
  <2> QED BY <2>1, <2>4, <2>5, <2>6, <2>7, <2>8 DEF ClaimInv
<1>2. CASE tx' = Mark(k, "FAILED") /\ job' = NextItem(k)
  <2>1. /\ tx'.vec = tx.vec /\ tx'.total = tx.total /\ tx'.item = Put(tx.item, {k}, "FAILED")
        /\ job'.key = <<>>
    BY <1>2 DEF Mark, NextItem, NoJob, WorkerTyped, TxTyped
  <2> QED BY <2>1, MarksKeepClaims
<1> QED BY <1>1, <1>2 DEF EmbedBatch

\* An item is done when every chunk it has loaded is in the target.
LEMMA CompletionClaims ==
  ASSUME ReindexAssumption, WorkerTyped, ClaimInv, CompleteItem, UNCHANGED <<vec, item, total>>
  PROVE  ClaimInv'
<1> DEFINE k == job.key
           n == Cardinality(job.loaded)
<1>1. CASE tx' = Mark(k, "FAILED")
  <2>1. /\ tx'.vec = tx.vec /\ tx'.total = tx.total /\ tx'.item = Put(tx.item, {k}, "FAILED")
        /\ job'.key = <<>>
    BY <1>1 DEF CompleteItem, Mark, NextItem, NoJob, WorkerTyped, TxTyped
  <2> QED BY <2>1, MarksKeepClaims
<1>2. CASE tx' = [Mark(k, "SUCCEEDED") EXCEPT !.total = Put(@, {k}, n)]
  <2>1. /\ tx'.vec = tx.vec /\ tx'.total = Put(tx.total, {k}, n)
        /\ tx'.item = Put(tx.item, {k}, "SUCCEEDED") /\ job'.key = <<>>
    BY <1>2 DEF CompleteItem, Mark, NextItem, NoJob, WorkerTyped, TxTyped
  <2>2. OwnVectors' = OwnVectors BY <2>1 DEF OwnVectors
  <2>3. k \in Keys /\ k[1] \in Videos BY DEF CompleteItem, WorkerTyped, JobTyped, Keys
  <2>4. IsFiniteSet(job.loaded) /\ n \in Nat \ {0}
    BY LoadedIsFinite DEF CompleteItem, WorkerTyped, ClaimInv
  <2>5. job.loaded \in SUBSET Moved(k, OwnVectors)
    BY DEF CompleteItem, ClaimInv, JobInv, Moved
  <2>6. Moved(k, OwnVectors) \in SUBSET ChunksOf(k[1]) BY DEF Moved
  <2>7. IsFiniteSet(Moved(k, OwnVectors)) BY <2>3, <2>6, FiniteChunks, FS_Subset
  <2>8. n <= Cardinality(Moved(k, OwnVectors)) /\ Cardinality(Moved(k, OwnVectors)) \in Nat
    BY <2>5, <2>7, FS_Subset, FS_CardinalityType
  <2>9. Claim(k, n, OwnVectors) BY <2>4, <2>8 DEF Claim
  <2>10. ASSUME NEW j \in DOMAIN tx'.item, tx'.item[j] = "SUCCEEDED"
         PROVE  j \in DOMAIN tx'.total /\ Claim(j, tx'.total[j], OwnVectors')
    <3>1. CASE j = k BY <2>1, <2>2, <2>9, <3>1 DEF Put
    <3>2. CASE j # k BY <2>1, <2>2, <2>10, <3>2 DEF Put, ClaimInv
    <3> QED BY <3>1, <3>2
  <2>11. \A j \in Keys : item'[j] = "SUCCEEDED" => Claim(j, total'[j], vec') BY DEF ClaimInv
  <2> QED BY <2>1, <2>10, <2>11 DEF ClaimInv, JobInv
<1> QED BY <1>1, <1>2 DEF CompleteItem

\* A commit takes the items and the vectors together.
LEMMA EndRunKeepsClaims ==
  ASSUME ReindexAssumption, TypeInv, ClaimInv, EndRun PROVE ClaimInv'
<1>1. job'.key = <<>> BY DEF EndRun, NoJob
<1>2. CASE RunOnce
  <2>1. /\ vec' = OwnVectors /\ item' = [k \in Keys |-> OwnItem(k)]
        /\ total' = [k \in Keys |-> OwnTotal(k)] /\ DOMAIN tx'.item = {}
    BY <1>2 DEF EndRun, NoTx
  <2>2. ASSUME NEW k \in Keys, item'[k] = "SUCCEEDED" PROVE Claim(k, total'[k], vec')
    <3>1. item'[k] = OwnItem(k) /\ total'[k] = OwnTotal(k) BY <2>1
    <3>2. CASE k \in DOMAIN tx.item
      <4>1. tx.item[k] = "SUCCEEDED" BY <2>2, <3>1, <3>2 DEF OwnItem
      <4>2. k \in DOMAIN tx.total /\ Claim(k, tx.total[k], OwnVectors) BY <3>2, <4>1 DEF ClaimInv
      <4> QED BY <2>1, <3>1, <4>2 DEF OwnTotal
    <3>3. CASE k \notin DOMAIN tx.item
      <4>1. item[k] = "SUCCEEDED" BY <2>2, <3>1, <3>3 DEF OwnItem
      <4>2. k \notin DOMAIN tx.total BY <3>3 DEF TypeInv, WorkerTyped, TxTyped
      <4>3. Claim(k, total[k], vec) BY <4>1 DEF ClaimInv
      <4>4. Claim(k, total[k], OwnVectors) BY <4>3, ClaimsLast DEF OwnVectors
      <4> QED BY <2>1, <3>1, <4>2, <4>4 DEF OwnTotal
    <3> QED BY <3>2, <3>3
  <2> QED BY <1>1, <2>1, <2>2 DEF ClaimInv, JobInv
<1>3. CASE ~RunOnce
  <2>1. UNCHANGED <<vec, catalog, item, total, tx>> BY <1>3 DEF EndRun
  <2>2. OwnVectors' = OwnVectors BY <2>1 DEF OwnVectors
  <2>3. \A k \in DOMAIN tx'.item :
          tx'.item[k] = "SUCCEEDED" => k \in DOMAIN tx'.total /\ Claim(k, tx'.total[k], OwnVectors')
    BY <2>1, <2>2 DEF ClaimInv
  <2>4. \A k \in Keys : item'[k] = "SUCCEEDED" => Claim(k, total'[k], vec')
    BY <2>1 DEF ClaimInv
  <2> QED BY <1>1, <2>3, <2>4 DEF ClaimInv, JobInv
<1> QED BY <1>2, <1>3

LEMMA ClaimStep ==
  ASSUME ReindexAssumption, TypeInv, ClaimInv, Next PROVE ClaimInv'
<1> USE DEF TypeInv
<1>1. ASSUME NEW v \in Videos, Uploading(v) PROVE ClaimInv'
  <2>1. vec \subseteq vec'
    BY <1>1 DEF Uploading, Create, ReadTarget, Persist, RequestDelete
  <2> QED BY <1>1, <2>1, UploadingKeeps, ClaimsStayWithTheirVectors
<1>2. CASE Working
  <2>1. UNCHANGED <<vec, item, total>> BY <1>2, WorkingKeeps
  <2>2. CASE Scan
    <3>1. PICK new, changed, todo :
            /\ tx' = [tx EXCEPT !.catalog = @ \o new, !.item = Put(tx.item, changed, "PENDING")]
            /\ job' = [NoJob EXCEPT !.step = "run", !.todo = todo]
      BY <2>2 DEF Scan
    <3>2. /\ tx'.vec = tx.vec /\ tx'.total = tx.total
          /\ tx'.item = Put(tx.item, changed, "PENDING") /\ job'.key = <<>>
      BY <3>1 DEF NoJob, WorkerTyped, TxTyped
    <3> QED BY <2>1, <3>2, MarksKeepClaims
  <2>3. CASE Crash
    <3>1. DOMAIN tx'.item = {} /\ job'.key = <<>> BY <2>3 DEF Crash, Lose, NoTx, NoJob
    <3>2. \A j \in Keys : item'[j] = "SUCCEEDED" => Claim(j, total'[j], vec')
      BY <2>1 DEF ClaimInv
    <3> QED BY <3>1, <3>2 DEF ClaimInv, JobInv
  <2> QED BY <1>2, <2>1, <2>2, <2>3, StartItemKeepsClaims, EmbedBatchKeepsClaims, CompletionClaims
          DEF Working
<1>3. ASSUME NEW v \in Videos, HardDelete(v) PROVE ClaimInv' BY <1>3, HardDeleteKeepsClaims
<1>4. CASE EndRun BY <1>4, EndRunKeepsClaims
<1>5. CASE GateBlocks
  <2>1. UNCHANGED <<vec, total, tx, job>> BY <1>5 DEF GateBlocks, stored
  <2>2. OwnVectors' = OwnVectors BY <2>1 DEF OwnVectors
  <2>3. \A k \in Keys : item'[k] = "SUCCEEDED" => item[k] = "SUCCEEDED"
    BY <1>5 DEF GateBlocks, Enqueued
  <2>4. \A k \in Keys : item'[k] = "SUCCEEDED" => Claim(k, total'[k], vec')
    BY <2>1, <2>3 DEF ClaimInv
  <2> QED BY <2>1, <2>2, <2>4 DEF ClaimInv, JobInv
<1>6. CASE Releasing BY <1>6, ReleasingKeeps, ClaimsStayWithTheirVectors
<1>7. CASE RecoveryScan \/ RecoveryCommit
  BY <1>7, ClaimsStayWithTheirVectors DEF RecoveryScan, RecoveryCommit, stored, worker
<1>8. CASE Reembedding
  <2>1. vec \subseteq vec' BY <1>8 DEF Reembedding, Reembed
  <2> QED BY <1>8, <2>1, ClaimsStayWithTheirVectors DEF Reembedding, Reembed, worker
<1> QED BY <1>1, <1>2, <1>3, <1>4, <1>5, <1>6, <1>7, <1>8, NextByActor

LEMMA InitTyped == ASSUME ReindexAssumption, Init PROVE TypeInv /\ ClaimInv
<1>1. ReleaseTyped
  <2>1. <<>> \in Seq(Models) BY EmptySeq
  <2>2. release = [status |-> "STABLE", active |-> Base, previous |-> NoModel, candidate |-> NoModel]
    BY DEF Init
  <2>3. release \in [status : {"STABLE", "CANDIDATE_REINDEXING", "ROLLBACK_PREPARING"},
                    active : Models, previous : OrNone, candidate : OrNone]
    BY <2>2 DEF ReindexAssumption, OrNone
  <2>4. line = <<>> /\ unused \subseteq Models /\ gate = FALSE /\ rollbacks = 0 BY DEF Init
  <2>5. excluded = {} /\ restored = {} BY DEF Init
  <2> QED BY <2>1, <2>2, <2>3, <2>4, <2>5 DEF ReleaseTyped
<1>2. VideosTyped
  <2>1. vec \subseteq Vectors BY DEF Init, Vectors, Chunks, ReindexAssumption
  <2>2. video \in [Videos -> [st : {"none", "PENDING", "PROCESSING", "READY", "DELETING", "gone"},
                             model : OrNone]]
    BY DEF Init, OrNone, ReindexAssumption
  <2>3. \A v \in Videos : video[v].st # "PROCESSING" BY DEF Init
  <2> QED BY <2>1, <2>2, <2>3 DEF Init, VideosTyped
<1>3. TxTyped /\ JobTyped
  <2>1. tx = NoTx /\ job = NoJob BY DEF Init
  <2>2. <<>> \in Seq(Models) BY EmptySeq
  <2> QED BY <2>1, <2>2 DEF TxTyped, JobTyped, NoTx, NoJob
<1>4. RowsTyped
  <2>1. <<Base>> \in Seq(Models) BY DEF ReindexAssumption
  <2> QED BY <2>1 DEF Init, RowsTyped, Statuses
<1>5. ClaimInv
  <2>1. DOMAIN tx.item = {} /\ job.key = <<>> BY DEF Init, NoTx, NoJob
  <2>2. \A k \in Keys : item[k] # "SUCCEEDED" BY DEF Init
  <2> QED BY <2>1, <2>2 DEF ClaimInv, JobInv
<1> QED BY <1>1, <1>2, <1>3, <1>4, <1>5 DEF TypeInv, WorkerTyped

LEMMA TypeStep ==
  ASSUME ReindexAssumption, TypeInv, ClaimInv, [Next]_vars PROVE TypeInv' /\ ClaimInv'
<1>1. CASE Next
  BY <1>1, ReleaseStaysTyped, VideosStayTyped, WorkerStaysTyped, ClaimStep DEF TypeInv, ClaimInv
<1>2. CASE UNCHANGED vars
  <2>1. TypeInv'
    BY <1>2 DEF vars, TypeInv, ReleaseTyped, VideosTyped, WorkerTyped, TxTyped, JobTyped, RowsTyped
  <2>2. vec \subseteq vec' /\ UNCHANGED <<item, total, tx, job>> BY <1>2 DEF vars
  <2> QED BY <2>1, <2>2, ClaimsStayWithTheirVectors
<1> QED BY <1>1, <1>2

LEMMA Typed == Spec => [](TypeInv /\ ClaimInv)
<1> USE ReindexAssumption
<1> QED BY InitTyped, TypeStep, PTL DEF Spec

\* The variables keep to their types: every row, the worker's uncommitted work and the messages
\* in flight.
THEOREM TypeCorrect == Spec => []TypeOK
<1>1. TypeInv => TypeOK
  BY DEF TypeInv, ReleaseTyped, VideosTyped, WorkerTyped, TxTyped, JobTyped, RowsTyped, TypeOK
<1> QED BY <1>1, Typed, PTL

\* Whatever faults, crashes, deletes, re-embeddings and releases come between its transactions, an
\* item that the legacy worker has committed as SUCCEEDED has as many chunks in both indexes as
\* it claims to have moved, and at least one.
THEOREM ItemsStayTruthful == Spec => []ItemsTruthful
<1>1. ClaimInv /\ TypeOK => ItemsTruthful BY DEF ClaimInv, Claim, ItemsTruthful
<1> QED BY <1>1, Typed, TypeCorrect, PTL

-----------------------------------------------------------------------------
(* The release and the videos that search reaches.                         *)

\* The projects that search serves or is about to serve again, and their videos.
Out == excluded \ restored
Kept == {v \in Videos : video[v].st = "READY" /\ v \notin late /\ ProjectOf[v] \notin Out}

\* A model is released once, a rollback goes back to the previous one, and before the first
\* rollback nothing is excluded.
LineInv ==
  /\ release.active \notin unused /\ release.previous \notin unused
  /\ release.candidate \notin unused
  /\ release.previous # release.active /\ release.candidate # release.active
  /\ release.candidate # NoModel => release.candidate # release.previous
  /\ release.previous # NoModel => line # <<>> /\ Last(line) = release.previous
  /\ rollbacks = 0 => excluded = {} /\ (line # <<>> => release.previous # NoModel)
  /\ restored \subseteq excluded
  /\ release.status = "ROLLBACK_PREPARING" => 
       rollbacks # 0 /\ restored = {} /\ release.previous # NoModel

\* What has to be in which index: an open gate has found every video in the active one, so the
\* previous one had every video that the active model has not embedded itself, and that is what a
\* rollback goes back to.
KeptInv ==
  \A v \in Kept :
    /\ \A c \in ChunksOf(v) : \E m \in Searched : <<c, m>> \in vec
    /\ gate => Reflected(v, release.active, vec)
    /\ rollbacks = 0 /\ release.previous # NoModel /\ video[v].model # release.active
         => Reflected(v, release.previous, vec)
    /\ release.status = "ROLLBACK_PREPARING" => Reflected(v, Last(line), vec)

\* A gate that opens has counted the videos of the previous index: a committed run of the worker
\* has put it into the catalog.
SourceIsKnown ==
  gate' /\ ~gate => release.previous \in ToSet(catalog) \union {NoModel}

LEMMA LastOfAppend ==
  ASSUME NEW s \in Seq(Models), NEW m \in Models
  PROVE  Append(s, m) # <<>> /\ Last(Append(s, m)) = m
<1>1. /\ Append(s, m) # <<>> /\ Len(Append(s, m)) = Len(s) + 1
      /\ Append(s, m)[Len(s) + 1] = m
  BY AppendProperties
<1> QED BY <1>1 DEF Last

LEMMA InitKept == ASSUME ReindexAssumption, Init PROVE LineInv /\ KeptInv
<1>1. release = [status |-> "STABLE", active |-> Base, previous |-> NoModel, candidate |-> NoModel]
  BY DEF Init
<1>2. LineInv BY <1>1 DEF Init, LineInv, ReindexAssumption
<1>3. ASSUME NEW v \in Kept PROVE \A c \in ChunksOf(v) : <<c, Base>> \in vec
  <2>1. v \in Stored BY DEF Kept, Init
  <2> QED BY <2>1 DEF Init
<1>4. gate = FALSE BY DEF Init
<1> QED BY <1>1, <1>2, <1>3, <1>4 DEF KeptInv, Searched

LEMMA LineStep ==
  ASSUME ReindexAssumption, MaxRollbacks <= 1, TypeInv, LineInv, Next PROVE LineInv'
<1> USE DEF TypeInv
<1>1. CASE UNCHANGED <<release, line, unused, rollbacks, excluded, restored>>
  BY <1>1 DEF LineInv
<1>2. CASE OpenCandidate
  <2>1. PICK m \in unused :
          /\ release' = [release EXCEPT !.status = "CANDIDATE_REINDEXING", !.candidate = m]
          /\ unused' = unused \ {m}
    BY <1>2 DEF OpenCandidate
  <2>2. /\ release'.status = "CANDIDATE_REINDEXING" /\ release'.candidate = m
        /\ release'.active = release.active /\ release'.previous = release.previous
    BY <2>1 DEF ReleaseTyped
  <2>3. UNCHANGED <<line, rollbacks, excluded, restored>> BY <1>2 DEF OpenCandidate, recovery
  <2> QED BY <2>1, <2>2, <2>3 DEF LineInv
<1>3. CASE Switch
  <2>1. /\ release'.status = "STABLE" /\ release'.active = release.candidate
        /\ release'.previous = release.active /\ release'.candidate = NoModel
    BY <1>3 DEF Switch
  <2>2. release.active \in Models /\ release.candidate \in Models /\ unused \subseteq Models
    BY <1>3 DEF Switch, ReleaseTyped
  <2>3. line' # <<>> /\ Last(line') = release.active
    BY <1>3, <2>2, LastOfAppend DEF Switch, ReleaseTyped
  <2>4. UNCHANGED <<unused, rollbacks, excluded, restored>> BY <1>3 DEF Switch, recovery
  <2> QED BY <2>1, <2>2, <2>3, <2>4 DEF LineInv, ReindexAssumption
<1>4. CASE Rollback
  <2>1. line # <<>> /\ UNCHANGED <<unused, restored>> BY <1>4 DEF Rollback
  <2>2. /\ rollbacks' # 0 /\ restored = {}
        /\ release.previous # NoModel /\ release.previous = Last(line)
    <3>1. CASE release.status = "STABLE" /\ rollbacks < MaxRollbacks /\ rollbacks' = rollbacks + 1
      <4>1. MaxRollbacks \in Nat /\ rollbacks \in Nat BY DEF ReindexAssumption, ReleaseTyped
      <4>2. rollbacks = 0 BY <3>1, <4>1
      <4> QED BY <2>1, <3>1, <4>2 DEF LineInv
    <3>2. CASE release.status = "ROLLBACK_PREPARING" /\ rollbacks' = rollbacks
      BY <3>2 DEF LineInv
    <3> QED BY <1>4, <3>1, <3>2 DEF Rollback
  <2>3. CASE Restore
    <3>1. /\ release'.status = "STABLE" /\ release'.active = Last(line)
          /\ release'.previous = NoModel /\ release'.candidate = NoModel
      BY <2>3 DEF Restore
    <3>2. Last(line) \in Models BY <2>1, LineTyped DEF ReleaseTyped
    <3> QED BY <2>1, <2>2, <3>1, <3>2 DEF LineInv, ReindexAssumption, ReleaseTyped
  <2>4. CASE StayPreparing
    <3>1. /\ release'.status = "ROLLBACK_PREPARING" /\ release'.active = release.active
          /\ release'.previous = release.previous /\ release'.candidate = release.candidate
          /\ line' = line
      BY <2>4 DEF StayPreparing, ReleaseTyped
    <3> QED BY <2>1, <2>2, <3>1 DEF LineInv
  <2> QED BY <1>4, <2>3, <2>4 DEF Rollback
<1>5. CASE RecoveryScan BY <1>5 DEF RecoveryScan, released, LineInv
<1>6. CASE RecoveryCommit BY <1>6 DEF RecoveryCommit, released, LineInv
<1>7. (\E v \in Videos : Uploading(v) \/ HardDelete(v)) \/ Working \/ EndRun \/ GateBlocks
        \/ GatePasses \/ Reembedding
      => UNCHANGED <<release, line, unused, rollbacks, excluded, restored>>
  BY UploadingKeeps, WorkingKeeps
  DEF HardDelete, EndRun, GateBlocks, GatePasses, Reembedding, Reembed, released, recovery
<1> QED BY <1>1, <1>2, <1>3, <1>4, <1>5, <1>6, <1>7, NextByActor DEF Releasing

LEMMA KeptStays ==
  ASSUME KeptInv, UNCHANGED <<release, line, gate, rollbacks>>, Kept' \subseteq Kept,
         \A v \in Kept' : video'[v].model = video[v].model,
         \A v \in Kept' : \A c \in ChunksOf(v) : \A m : <<c, m>> \in vec => <<c, m>> \in vec'
  PROVE  KeptInv'
<1>1. ASSUME NEW v \in Kept', NEW m, Reflected(v, m, vec) PROVE Reflected(v, m, vec')
  BY <1>1 DEF Reflected
<1>2. Searched' = Searched BY DEF Searched
<1>3. ASSUME NEW v \in Kept'
      PROVE  /\ \A c \in ChunksOf(v) : \E m \in Searched : <<c, m>> \in vec'
             /\ gate => Reflected(v, release.active, vec')
             /\ rollbacks = 0 /\ release.previous # NoModel /\ video'[v].model # release.active
                  => Reflected(v, release.previous, vec')
             /\ release.status = "ROLLBACK_PREPARING" => Reflected(v, Last(line), vec')
  <2>1. v \in Kept /\ video'[v].model = video[v].model OBVIOUS
  <2>2. \A c \in ChunksOf(v) : \E m \in Searched : <<c, m>> \in vec' BY <2>1 DEF KeptInv
  <2> QED BY <2>1, <2>2, <1>1 DEF KeptInv
<1> QED BY <1>2, <1>3 DEF KeptInv

\* An ingest that ends with a model that is not the active one any more, or while the cutover
\* is about to switch, makes its video a late one.
LEMMA PersistKeeps ==
  ASSUME TypeInv, KeptInv, NEW v \in Videos, Persist(v) PROVE KeptInv'
<1>1. UNCHANGED <<release, line, gate, rollbacks, excluded, restored>>
  BY DEF Persist, released, recovery
<1>2. vec' = vec \union (ChunksOf(v) \X {video[v].model}) BY DEF Persist
<1>3. \A w \in Videos \ {v} : video'[w] = video[w] BY DEF Persist, TypeInv, VideosTyped
<1>4. \A w \in Kept' : w # v => w \in Kept
  BY <1>1, <1>3 DEF Persist, Kept, Out
<1>5. ASSUME NEW w \in Kept', w # v
      PROVE  /\ \A c \in ChunksOf(w) : \E m \in Searched : <<c, m>> \in vec'
             /\ gate => Reflected(w, release.active, vec')
             /\ rollbacks = 0 /\ release.previous # NoModel /\ video'[w].model # release.active
                  => Reflected(w, release.previous, vec')
             /\ release.status = "ROLLBACK_PREPARING" => Reflected(w, Last(line), vec')
  <2>1. w \in Kept /\ video'[w].model = video[w].model BY <1>3, <1>4, <1>5 DEF Kept
  <2> QED BY <1>2, <2>1 DEF KeptInv, Reflected
<1>6. ASSUME v \in Kept'
      PROVE  /\ \A c \in ChunksOf(v) : \E m \in Searched : <<c, m>> \in vec'
             /\ ~gate /\ release.status # "ROLLBACK_PREPARING"
             /\ video'[v].model = release.active
  <2>1. v \notin late' BY <1>6 DEF Kept
  <2>2. video[v].model = release.active /\ ~gate /\ release.status # "ROLLBACK_PREPARING"
    BY <2>1 DEF Persist
  <2>3. video'[v].model = video[v].model BY DEF Persist, TypeInv, VideosTyped
  <2> QED BY <1>2, <2>2, <2>3 DEF Searched
<1> QED BY <1>1, <1>5, <1>6 DEF KeptInv, Searched

\* A gate that opens with the previous index in the catalog has seen every chunk in the active.
LEMMA GateKeeps ==
  ASSUME TypeInv, LineInv, KeptInv, GatePasses, SourceIsKnown, ReindexAssumption PROVE KeptInv'
<1>1. UNCHANGED <<release, line, rollbacks, excluded, restored, video, vec, late>> /\ gate' /\ ~gate
  BY DEF GatePasses, recovery, stored, TypeInv, ReleaseTyped
<1>2. Kept' = Kept /\ Searched' = Searched BY <1>1 DEF Kept, Out, Searched
<1>3. ASSUME NEW v \in Kept, NEW c \in ChunksOf(v) PROVE <<c, release.active>> \in vec
  <2>1. <<c, release.active>> \in vec \/ <<c, release.previous>> \in vec
    BY DEF KeptInv, Searched
  <2>2. ASSUME <<c, release.previous>> \in vec PROVE <<c, release.active>> \in vec
    <3>1. release.previous # NoModel BY <2>2 DEF TypeInv, VideosTyped, Vectors, ReindexAssumption
    <3>2. release.previous \in ToSet(catalog) BY <1>1, <3>1 DEF SourceIsKnown
    <3>3. release.status = "CANDIDATE_REINDEXING" BY DEF GatePasses
    <3>4. release.candidate \in Models BY <3>3 DEF TypeInv, ReleaseTyped
    <3>5. release.previous \in Sources(release, catalog)
      BY <3>1, <3>2, <3>4 DEF LineInv, Sources, ReindexAssumption
    <3>6. v \in Videos /\ video[v].st = "READY" BY DEF Kept
    <3>7. <<v, release.previous>> \notin Remaining BY DEF GatePasses
    <3>8. v \notin OldOnly(release.previous, release.active, vec)
      BY <3>5, <3>6, <3>7 DEF Remaining
    <3> QED BY <2>2, <3>6, <3>8 DEF OldOnly
  <2> QED BY <2>1, <2>2
<1>4. \A v \in Kept : Reflected(v, release.active, vec) BY <1>3 DEF Reflected
<1> QED BY <1>1, <1>2, <1>4 DEF KeptInv

LEMMA SwitchKeeps ==
  ASSUME TypeInv, KeptInv, Switch PROVE KeptInv'
<1>1. UNCHANGED <<rollbacks, excluded, restored, video, vec, late>>
  BY DEF Switch, recovery, stored
<1>2. /\ release'.status = "STABLE" /\ release'.previous = release.active /\ gate' = FALSE
  BY DEF Switch
<1>3. Kept' = Kept BY <1>1 DEF Kept, Out
<1>4. \A v \in Kept : Reflected(v, release.active, vec) BY DEF KeptInv, Switch
<1>5. release.active \in Searched' BY <1>2 DEF Searched
<1>6. \A v \in Kept : \A c \in ChunksOf(v) : \E m \in Searched' : <<c, m>> \in vec
  BY <1>4, <1>5 DEF Reflected
<1> QED BY <1>1, <1>2, <1>3, <1>4, <1>6 DEF KeptInv

\* The first rollback leaves the previous model's videos and excludes the projects of the others.
LEMMA RollbackKeeps ==
  ASSUME ReindexAssumption, MaxRollbacks <= 1, TypeInv, LineInv, KeptInv, Rollback PROVE KeptInv'
<1>1. UNCHANGED <<video, vec, late, restored, gate>> /\ line # <<>> BY DEF Rollback, stored
<1>2. ~gate BY DEF Rollback, TypeInv, ReleaseTyped
<1>3. Kept' \subseteq Kept /\ \A v \in Kept' : Reflected(v, Last(line), vec)
  <2>1. CASE /\ release.status = "STABLE" /\ rollbacks < MaxRollbacks /\ rollbacks' = rollbacks + 1
             /\ excluded' = excluded \union Affected(release.active)
    <3>1. MaxRollbacks \in Nat /\ rollbacks \in Nat
      BY DEF ReindexAssumption, TypeInv, ReleaseTyped
    <3>2. rollbacks = 0 BY <2>1, <3>1
    <3>3. release.previous # NoModel /\ Last(line) = release.previous /\ restored = {}
      BY <1>1, <3>2 DEF LineInv
    <3>4. Kept' \subseteq Kept BY <1>1, <2>1, <3>3 DEF Kept, Out
    <3>5. ASSUME NEW v \in Kept' PROVE video[v].model # release.active
      <4>1. v \in Videos /\ v \in Kept /\ ProjectOf[v] \notin Affected(release.active)
        BY <1>1, <2>1, <3>3, <3>4 DEF Kept, Out
      <4>2. PICK c \in ChunksOf(v) : TRUE BY <4>1, FiniteChunks
      <4>3. PICK m \in Searched : <<c, m>> \in vec BY <4>1 DEF KeptInv
      <4>4. c[1] = v BY DEF ChunksOf
      <4>5. HasChunks(v) BY <4>3, <4>4 DEF HasChunks
      <4> QED BY <4>1, <4>5 DEF Affected
    <3> QED BY <3>2, <3>3, <3>4, <3>5 DEF KeptInv
  <2>2. CASE release.status = "ROLLBACK_PREPARING" /\ UNCHANGED <<rollbacks, excluded>>
    <3>1. Kept' = Kept BY <1>1, <2>2 DEF Kept, Out
    <3> QED BY <2>2, <3>1 DEF KeptInv
  <2> QED BY <2>1, <2>2 DEF Rollback
<1>4. rollbacks' # 0
  <2>1. rollbacks \in Nat BY DEF TypeInv, ReleaseTyped
  <2> QED BY <2>1 DEF Rollback, LineInv
<1>5. CASE Restore
  <2>1. release'.status = "STABLE" /\ release'.active = Last(line) BY <1>5 DEF Restore
  <2>2. \A v \in Kept' : \A c \in ChunksOf(v) : \E m \in Searched' : <<c, m>> \in vec
    BY <1>3, <2>1 DEF Searched, Reflected
  <2> QED BY <1>1, <1>2, <1>4, <2>1, <2>2 DEF KeptInv
<1>6. CASE StayPreparing
  <2>1. /\ release'.status = "ROLLBACK_PREPARING" /\ release'.active = release.active
        /\ release'.previous = release.previous /\ line' = line
    BY <1>6 DEF StayPreparing, TypeInv, ReleaseTyped
  <2>2. Searched' = Searched BY <2>1 DEF Searched
  <2> QED BY <1>1, <1>2, <1>3, <1>4, <2>1, <2>2 DEF KeptInv
<1> QED BY <1>5, <1>6 DEF Rollback

\* A project is let in again when all its videos are in the active index.
LEMMA RecoveryScanKeeps ==
  ASSUME ReindexAssumption, TypeInv, LineInv, KeptInv, RecoveryScan PROVE KeptInv'
<1>1. UNCHANGED <<release, line, gate, rollbacks, excluded, video, vec, late>>
  BY DEF RecoveryScan, released, stored
<1>2. release.status = "STABLE" /\ ~gate /\ rollbacks # 0
  BY DEF RecoveryScan, TypeInv, ReleaseTyped, LineInv
<1>3. restored' = {p \in excluded : Restored(p)} /\ restored = {} BY DEF RecoveryScan
<1>4. ASSUME NEW v \in Kept', v \notin Kept PROVE Reflected(v, release.active, vec)
  <2>1. v \in Videos /\ video[v].st = "READY" /\ ProjectOf[v] \in restored'
    BY <1>1, <1>3, <1>4 DEF Kept, Out
  <2>2. Restored(ProjectOf[v]) BY <1>3, <2>1
  <2> QED BY <2>1, <2>2 DEF Restored, ToReembed, ReadyOf
<1>5. Searched' = Searched /\ release.active \in Searched BY <1>1 DEF Searched
<1>6. \A v \in Kept' : \A c \in ChunksOf(v) : \E m \in Searched : <<c, m>> \in vec
  BY <1>4, <1>5 DEF KeptInv, Reflected
<1> QED BY <1>1, <1>2, <1>5, <1>6 DEF KeptInv

LEMMA KeptStep ==
  ASSUME ReindexAssumption, MaxRollbacks <= 1, TypeInv, LineInv, KeptInv, Next, SourceIsKnown
  PROVE  KeptInv'
<1> USE DEF TypeInv
<1>1. ASSUME NEW v \in Videos, Create(v) \/ ReadTarget(v) \/ RequestDelete(v) PROVE KeptInv'
  <2>1. UNCHANGED <<release, line, gate, rollbacks, excluded, restored, vec, late>>
    BY <1>1 DEF Create, ReadTarget, RequestDelete, released, recovery
  <2>2. \A w \in Videos : video'[w].st = "READY" => video'[w] = video[w]
    BY <1>1 DEF Create, ReadTarget, RequestDelete, VideosTyped
  <2>3. \A w \in Kept' : w \in Kept /\ video'[w].model = video[w].model
    BY <2>1, <2>2 DEF Kept, Out
  <2> QED BY <2>1, <2>3, KeptStays
<1>2. ASSUME NEW v \in Videos, Persist(v) PROVE KeptInv' BY <1>2, PersistKeeps
<1>3. ASSUME NEW v \in Videos, HardDelete(v) PROVE KeptInv'
  <2>1. UNCHANGED <<release, line, gate, rollbacks, excluded, restored, late>>
    BY <1>3 DEF HardDelete, released, recovery
  <2>2. \A w \in Videos : video'[w].st = "READY" => w # v /\ video'[w] = video[w]
    BY <1>3 DEF HardDelete, VideosTyped
  <2>3. \A w \in Kept' : w # v /\ w \in Kept /\ video'[w].model = video[w].model
    BY <2>1, <2>2 DEF Kept, Out
  <2>4. \A w \in Kept' : \A c \in ChunksOf(w) : \A m : <<c, m>> \in vec => <<c, m>> \in vec'
    BY <1>3, <2>3 DEF HardDelete, ChunksOf
  <2> QED BY <2>1, <2>3, <2>4, KeptStays
<1>4. CASE Working \/ EndRun \/ GateBlocks \/ Reembedding
  <2>1. UNCHANGED <<release, line, gate, rollbacks, excluded, restored, video, late>>
    BY <1>4, WorkingKeeps
    DEF EndRun, GateBlocks, Reembedding, Reembed, released, recovery, stored
  <2>2. vec \subseteq vec'
    BY <1>4, WorkingKeeps DEF EndRun, GateBlocks, Reembedding, Reembed, OwnVectors, stored
  <2>3. Kept' = Kept BY <2>1 DEF Kept, Out
  <2> QED BY <2>1, <2>2, <2>3, KeptStays
<1>5. CASE OpenCandidate
  <2>1. UNCHANGED <<line, gate, rollbacks, excluded, restored, video, vec, late>>
    BY <1>5 DEF OpenCandidate, recovery, stored
  <2>2. /\ release'.status = "CANDIDATE_REINDEXING" /\ release'.active = release.active
        /\ release'.previous = release.previous
    BY <1>5 DEF OpenCandidate, ReleaseTyped
  <2>3. Kept' = Kept /\ Searched' = Searched BY <2>1, <2>2 DEF Kept, Out, Searched
  <2> QED BY <2>1, <2>2, <2>3 DEF KeptInv
<1>6. CASE RecoveryCommit
  <2>1. UNCHANGED <<release, line, gate, rollbacks, video, vec, late>>
    BY <1>6 DEF RecoveryCommit, released, stored
  <2>2. Kept' = Kept BY <1>6, <2>1 DEF RecoveryCommit, Kept, Out
  <2> QED BY <2>1, <2>2, KeptStays
<1> QED BY <1>1, <1>2, <1>3, <1>4, <1>5, <1>6, GateKeeps, SwitchKeeps, RollbackKeeps,
           RecoveryScanKeeps, NextByActor DEF Uploading, Releasing

\* Search looks into the active and the previous index.  With a worker whose committed runs put
\* every index into the catalog before it is needed as a source, and up to the second rollback,
\* no READY video of a project that search serves is missing there.
THEOREM ServedVideosAreFound ==
  ASSUME MaxRollbacks <= 1
  PROVE  Spec /\ [][SourceIsKnown]_vars => []Covered
<1> USE ReindexAssumption
<1> DEFINE Inv == TypeInv /\ LineInv /\ KeptInv
<1>1. Init => LineInv /\ KeptInv BY InitKept
<1>2. TypeInv /\ LineInv /\ KeptInv /\ [Next]_vars /\ [SourceIsKnown]_vars => (LineInv /\ KeptInv)'
  <2>1. ASSUME TypeInv, LineInv, KeptInv, Next, SourceIsKnown PROVE (LineInv /\ KeptInv)'
    BY <2>1, LineStep, KeptStep
  <2>2. ASSUME LineInv, KeptInv, UNCHANGED vars PROVE (LineInv /\ KeptInv)'
    BY <2>2 DEF vars, LineInv, KeptInv, Kept, Out, Searched
  <2> QED BY <2>1, <2>2
<1>3. TypeInv /\ LineInv /\ KeptInv => Covered
  BY DEF KeptInv, Kept, Out, Covered
<1> QED BY <1>1, <1>2, <1>3, Typed, PTL DEF Spec

=============================================================================
