---------------------------- MODULE TrainingRuns ----------------------------
(***************************************************************************)
(* From the clock to a release candidate: the scheduler asks for a dataset *)
(* every day and for a training every week, the dataset worker publishes   *)
(* datasets, and train-release workers train, evaluate and hand over.      *)
(*                                                                         *)
(* A training request is one database transaction from the insertion of    *)
(* its run to the end: the run of a worker at work is in `row` and nobody  *)
(* else sees it; only the unique index on RUNNING makes others wait for    *)
(* it.  `runs` has what is committed.  What the handoff does to the        *)
(* release is in ModelRelease; here it ends, fails or breaks the session.  *)
(* Objects of runs that were rolled back stay in storage and are left out. *)
(***************************************************************************)
EXTENDS Naturals, Sequences, FiniteSets, SequencesExt

CONSTANTS
  Workers,        \* train-release workers
  NoRow,
  DaysPerWeek,
  MaxTime, MaxFaults   \* bounds

\* The steps of a worker, and the rows of ml_pipeline_run.
Steps == {"idle", "request", "train", "evaluate", "handoff", "commit", "ack"}
Statuses == {"RUNNING", "PENDING", "SUPERSEDED", "FAILED", "READY_FOR_RELEASE"}
RunRows == [msg : Nat, dataset : Nat, status : Statuses,
            files : SUBSET {"serving", "artifacts", "evaluation"}]

ASSUME RunsAssumption ==
  /\ IsFiniteSet(Workers) /\ NoRow \notin RunRows
  /\ {DaysPerWeek, MaxTime} \subseteq Nat \ {0} /\ MaxFaults \in Nat

VARIABLES
  time,      \* two points a day: the minute of the dataset and that of the training
  sched,     \* the scheduler: its step, the time it woke at, the last day and week it asked in
  asked,     \* how many datasets it asked for, and the weeks it asked a training for
  queue,     \* the requests that are not archived: datasets and trainings
  maker,     \* the dataset worker: its step and the version it makes
  data,      \* the objects of each dataset version
  at,        \* step of each train-release worker
  task,      \* its message and the dataset it has chosen
  row,       \* its uncommitted run with the objects stored for its candidate, or NoRow
  runs,      \* ml_pipeline_run
  nodata,    \* ghost: the requests answered with NO_ELIGIBLE_DATASET
  faults
scheduler == <<time, sched, asked>>
making == <<maker, data>>
training == <<at, task, row, runs, nodata>>
vars == <<time, sched, asked, queue, maker, data, at, task, row, runs, nodata, faults>>

Day(t) == t \div 2
Week(t) == Day(t) \div DaysPerWeek
Never == MaxTime + 1
NoTask == [msg |-> 0, dataset |-> 0]

Init ==
  /\ time = 0 /\ sched = [step |-> "asleep", now |-> 0, day |-> Never, week |-> Never]
  /\ asked = [data |-> 0, train |-> <<>>] /\ queue = [data |-> {}, train |-> {}]
  /\ maker = [step |-> "idle", msg |-> 0] /\ data = <<>>
  /\ at = [w \in Workers |-> "idle"] /\ task = [w \in Workers |-> NoTask]
  /\ row = [w \in Workers |-> NoRow] /\ runs = {}
  /\ nodata = {} /\ faults = 0

Fault == faults < MaxFaults /\ faults' = faults + 1
NoFault == UNCHANGED faults

(***************************************************************************)
(* The scheduler.  Its memory of what it asked is its own and not stored.  *)
(***************************************************************************)

Pass == time < MaxTime /\ time' = time + 1
        /\ UNCHANGED <<sched, asked, queue, faults>> /\ UNCHANGED <<making, training>>

DatasetDue(now) == now % 2 = 0 /\ sched.day # Day(now)
TrainingDue(now) == now % 2 = 1 /\ Day(now) % DaysPerWeek = 0 /\ sched.week # Week(now)

\* A tick reads the clock once; the dataset comes first.
AskDataset ==
  /\ sched.step = "asleep"
  /\ IF DatasetDue(time)
     THEN /\ asked' = [asked EXCEPT !.data = @ + 1]
          /\ queue' = [queue EXCEPT !.data = @ \union {asked.data + 1}]
          /\ sched' = [sched EXCEPT !.step = "train", !.now = time, !.day = Day(time)]
     ELSE sched' = [sched EXCEPT !.step = "train", !.now = time] /\ UNCHANGED <<asked, queue>>
  /\ UNCHANGED <<time, faults>> /\ UNCHANGED <<making, training>>

SendTraining ==
  /\ asked' = [asked EXCEPT !.train = Append(@, Week(sched.now))]
  /\ queue' = [queue EXCEPT !.train = @ \union {Len(asked.train) + 1}]
Sleep == [sched EXCEPT !.step = "asleep", !.now = 0]

\* The rest of a tick only reports, or is ModelRelease's and LegacyReindex's.
AskTraining ==
  /\ sched.step = "train"
  /\ IF TrainingDue(sched.now)
     THEN SendTraining /\ sched' = [Sleep EXCEPT !.week = Week(sched.now)]
     ELSE sched' = Sleep /\ UNCHANGED <<asked, queue>>
  /\ UNCHANGED <<time, faults>> /\ UNCHANGED <<making, training>>

\* An error in a tick ends the process; it is started again.
Restart ==
  /\ Fault /\ sched' = [step |-> "asleep", now |-> 0, day |-> Never, week |-> Never]
  /\ UNCHANGED <<time, asked, queue>> /\ UNCHANGED <<making, training>>

(***************************************************************************)
(* The dataset worker.  Versions are numbered by their creation time.      *)
(***************************************************************************)

TakeDataset(m) ==
  /\ maker.step = "idle" /\ m \in queue.data /\ maker' = [step |-> "rows", msg |-> m]
  /\ UNCHANGED <<data, queue, faults>> /\ UNCHANGED <<scheduler, training>>

WriteNew(version) ==
  /\ maker.step = "rows" /\ maker' = [maker EXCEPT !.step = "manifest"]
  /\ data' = Append(data, version)
  /\ UNCHANGED <<queue, faults>> /\ UNCHANGED <<scheduler, training>>

\* Mutation: the manifest is uploaded before the rows.
WriteManifestFirst == WriteNew([rows |-> FALSE, manifest |-> "eligible"])

WriteRows == WriteNew([rows |-> TRUE, manifest |-> "none"])

WriteManifest(kind) ==
  /\ maker.step = "manifest" /\ data' = [data EXCEPT ![Len(data)].manifest = kind]
  /\ maker' = [maker EXCEPT !.step = "ack"]
  /\ UNCHANGED queue /\ UNCHANGED faults /\ UNCHANGED <<scheduler, training>>

AckDataset ==
  /\ maker.step = "ack" /\ queue' = [queue EXCEPT !.data = @ \ {maker.msg}]
  /\ maker' = [step |-> "idle", msg |-> 0]
  /\ UNCHANGED <<data, faults>> /\ UNCHANGED <<scheduler, training>>

\* A failed read or upload, or the end of the process.
LoseDataset ==
  /\ maker.step # "idle" /\ Fault /\ maker' = [step |-> "idle", msg |-> 0]
  /\ UNCHANGED <<queue, data>> /\ UNCHANGED <<scheduler, training>>

EligibleSets == {d \in DOMAIN data : data[d].manifest = "eligible"}

(***************************************************************************)
(* The train-release workers.                                              *)
(***************************************************************************)

Latest == {d \in EligibleSets : \A e \in EligibleSets : e <= d}

\* A read hides messages for a second only, so one may be read while it is handled.
Read(w, m) ==
  /\ at[w] = "idle" /\ m \in queue.train
  /\ IF EligibleSets = {}
     THEN /\ at' = [at EXCEPT ![w] = "ack"] /\ task' = [task EXCEPT ![w] = [NoTask EXCEPT !.msg = m]]
          /\ nodata' = nodata \union {m}
     ELSE /\ \E d \in Latest : task' = [task EXCEPT ![w] = [msg |-> m, dataset |-> d]]
          /\ at' = [at EXCEPT ![w] = "request"] /\ UNCHANGED nodata
  /\ UNCHANGED <<queue, row, runs, faults>> /\ UNCHANGED <<scheduler, making>>

Active(r) == r.status \in {"RUNNING", "PENDING"}
NewRun(w, status) ==
  [msg |-> task[w].msg, dataset |-> task[w].dataset, status |-> status, files |-> {}]

\* Mutation: the insertion of a run does not wait for the one of another transaction.
RequestRunAnyway(w) ==
  /\ at[w] = "request"
  /\ row' = [row EXCEPT ![w] = NewRun(w, "RUNNING")]
  /\ at' = [at EXCEPT ![w] = "train"]
  /\ UNCHANGED <<queue, task, runs, nodata, faults>> /\ UNCHANGED <<scheduler, making>>

\* A run for the same dataset that is active is taken over when it is RUNNING; next to
\* the RUNNING run of another dataset there is one PENDING run, the latest.  Both need
\* an active run that is committed.  Without one, the new run is RUNNING; its insertion
\* waits until the transaction that inserted another RUNNING run has ended.
RequestRun(w) ==
  LET same == {r \in runs : Active(r) /\ r.dataset = task[w].dataset}
      status == IF \E r \in runs : r.status = "RUNNING" THEN "PENDING" ELSE "RUNNING"
      kept == IF status = "RUNNING" THEN runs
              ELSE {[r EXCEPT !.status = IF @ = "PENDING" THEN "SUPERSEDED" ELSE @] : r \in runs}
  IN  /\ at[w] = "request"
      /\ status = "RUNNING" /\ same = {} => \A u \in Workers : row[u] = NoRow
      /\ row' = [row EXCEPT ![w] = IF same # {} THEN CHOOSE r \in same : TRUE ELSE NewRun(w, status)]
      /\ runs' = IF same # {} THEN runs ELSE kept
      /\ at' = [at EXCEPT ![w] = IF row'[w].status = "RUNNING" THEN "train" ELSE "commit"]
      /\ UNCHANGED <<queue, task, nodata, faults>> /\ UNCHANGED <<scheduler, making>>

Advance(w, run, next) ==
  /\ row' = [row EXCEPT ![w] = run] /\ at' = [at EXCEPT ![w] = next]
  /\ UNCHANGED <<queue, task, runs, nodata>> /\ UNCHANGED <<scheduler, making>>

\* The serving model is a copy of the baseline's; the artifacts of the training follow.
Train(w) ==
  at[w] = "train" /\ Advance(w, [row[w] EXCEPT !.files = {"serving", "artifacts"}], "evaluate") /\ NoFault

Judged(run, pass) == [run EXCEPT !.status = IF pass THEN "READY_FOR_RELEASE" ELSE "FAILED"]

\* The evaluation is saved with its details, and decides.
Evaluate(w, pass) ==
  /\ at[w] = "evaluate" /\ NoFault
  /\ Advance(w, [Judged(row[w], pass) EXCEPT !.files = @ \union {"evaluation"}],
             IF pass THEN "handoff" ELSE "commit")

\* An error of the training or of the evaluation fails the run.
StageFails(w) ==
  at[w] \in {"train", "evaluate"} /\ Advance(w, [row[w] EXCEPT !.status = "FAILED"], "commit") /\ Fault

\* The run of a transaction appears in the table, or changes there.
Store(w) ==
  /\ runs' = (runs \ {r \in runs : Active(r) /\ r.dataset = row[w].dataset}) \union {row[w]}
  /\ row' = [row EXCEPT ![w] = NoRow] /\ at' = [at EXCEPT ![w] = "ack"]
  /\ UNCHANGED <<queue, task, nodata>> /\ UNCHANGED <<scheduler, making>> /\ NoFault

\* The handoff tries to deploy the candidate: its first write to the release commits the
\* session with the run in it.  It may end without a write; its errors are logged.
HandoffCommits(w) == at[w] = "handoff" /\ Store(w)
HandoffFails(w) == at[w] = "handoff" /\ Advance(w, row[w], "commit") /\ NoFault

\* Mutation: the message is archived before the session is committed.
CommitAfterAck(w) ==
  /\ at[w] = "commit"
  /\ \/ task[w].msg \notin queue.train /\ Store(w)
     \/ /\ queue' = [queue EXCEPT !.train = @ \ {task[w].msg}]
        /\ UNCHANGED <<training, faults>> /\ UNCHANGED <<scheduler, making>>

Commit(w) == at[w] = "commit" /\ Store(w)

Ack(w) ==
  /\ at[w] = "ack" /\ queue' = [queue EXCEPT !.train = @ \ {task[w].msg}]
  /\ at' = [at EXCEPT ![w] = "idle"] /\ task' = [task EXCEPT ![w] = NoTask]
  /\ UNCHANGED <<row, runs, nodata, faults>> /\ UNCHANGED <<scheduler, making>>

\* Mutation: the session of a failed request is left open.
LoseKeepsRow(w) ==
  /\ at[w] # "idle" /\ Fault
  /\ at' = [at EXCEPT ![w] = "idle"] /\ task' = [task EXCEPT ![w] = NoTask]
  /\ UNCHANGED <<queue, row, runs, nodata>> /\ UNCHANGED <<scheduler, making>>

\* An error outside the stages, a session the handoff broke, a commit or an archive that
\* fails, or the end of the process: the transaction is rolled back, objects stay.
Lose(w) ==
  /\ at[w] # "idle" /\ Fault
  /\ at' = [at EXCEPT ![w] = "idle"] /\ task' = [task EXCEPT ![w] = NoTask]
  /\ row' = [row EXCEPT ![w] = NoRow]
  /\ UNCHANGED <<queue, runs, nodata>> /\ UNCHANGED <<scheduler, making>>

MakerStep == WriteRows \/ (\E kind \in {"eligible", "ineligible"} : WriteManifest(kind)) \/ AckDataset
Begin(w) == \E m \in queue.train : Read(w, m)
WorkerStep(w) ==
  \/ RequestRun(w) \/ Train(w) \/ \E pass \in BOOLEAN : Evaluate(w, pass)
  \/ HandoffCommits(w) \/ HandoffFails(w) \/ Commit(w) \/ Ack(w)

Next ==
  \/ Pass \/ AskDataset \/ AskTraining \/ Restart
  \/ \E m \in queue.data : TakeDataset(m)
  \/ MakerStep \/ LoseDataset
  \/ \E w \in Workers : Begin(w) \/ WorkerStep(w) \/ StageFails(w) \/ Lose(w)

Spec == Init /\ [][Next]_vars

\* A worker polls its queue and works on; nothing makes time pass or candidates deploy.
FairSpec ==
  /\ Spec /\ WF_vars(\E m \in queue.data : TakeDataset(m)) /\ WF_vars(MakerStep)
  /\ \A w \in Workers : WF_vars(Begin(w)) /\ WF_vars(WorkerStep(w))

(***************************************************************************)
(* Properties.                                                             *)
(***************************************************************************)

\* Every variable keeps its type.
TypeOK ==
  /\ time \in Nat /\ faults \in Nat /\ nodata \subseteq Nat
  /\ sched \in [step : {"asleep", "train"}, now : Nat, day : Nat, week : Nat]
  /\ asked \in [data : Nat, train : Seq(Nat)]
  /\ queue.data \subseteq 1..asked.data /\ queue.train \subseteq 1..Len(asked.train)
  /\ DOMAIN queue = {"data", "train"}
  /\ maker \in [step : {"idle", "rows", "manifest", "ack"}, msg : Nat]
  /\ data \in Seq([rows : BOOLEAN, manifest : {"none", "eligible", "ineligible"}])
  /\ at \in [Workers -> Steps]
  /\ task \in [Workers -> [msg : Nat, dataset : Nat]]
  /\ row \in [Workers -> RunRows \union {NoRow}] /\ runs \subseteq RunRows

\* No two workers have a run at work, although neither sees the run of the other: the
\* unique index on RUNNING serialises the transactions (db_slots.py:73, models.py:192).
OneTrainer == \A w, u \in Workers : row[w] # NoRow /\ row[u] # NoRow => w = u

\* Whatever crashes, the slot is never left taken: a run that others can see has ended
\* (bootstrap.py:229 commits once, at the end).
CommittedRunsHaveEnded == \A r \in runs : ~Active(r)

\* Trainings exclude one another and nobody is kept out for ever by one that is gone.
TrainingsExclude == TypeOK /\ OneTrainer /\ CommittedRunsHaveEnded

\* A candidate that can be released has its serving model, its artifacts and its
\* evaluation, and its dataset the rows (flow.py:155, artifacts.py:53).
ReadyIsComplete ==
  \A r \in runs : r.status = "READY_FOR_RELEASE" =>
    /\ r.files = {"serving", "artifacts", "evaluation"}
    /\ data[r.dataset].rows /\ data[r.dataset].manifest = "eligible"

\* A training request leaves the queue only when a run for it is on record, or when
\* there was no dataset to train with (consumer.py:34).
ArchivedWasAnswered ==
  \A m \in DOMAIN asked.train :
    m \notin queue.train => m \in nodata \/ \E r \in runs : r.msg = m

\* A week has one training request, and at most one more for every restart that makes
\* the scheduler forget (scheduler.py:135).
OneRequestAWeek ==
  \A wk \in ToSet(asked.train) :
    Cardinality({i \in DOMAIN asked.train : asked.train[i] = wk}) <= 1 + faults

\* A request is neither lost nor, but for restarts, made twice.
RequestsAreKept == ArchivedWasAnswered /\ OneRequestAWeek

\* Every request is answered in the end, when workers fail only so often.
RequestsAreAnswered ==
  \A m \in 1..(MaxTime + MaxFaults) : m \in queue.train ~> m \notin queue.train
=============================================================================
