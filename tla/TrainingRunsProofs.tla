------------------------- MODULE TrainingRunsProofs -------------------------
(***************************************************************************)
(* Theorems about TrainingRuns, for any number of workers, requests and    *)
(* faults and any length of a week.                                        *)
(***************************************************************************)
EXTENDS TrainingRuns, TLAPS, FiniteSetTheorems, SequenceTheorems

-----------------------------------------------------------------------------
(* The steps by actor, and what each leaves alone.                         *)

Scheduling == Pass \/ AskDataset \/ AskTraining \/ Restart
Making == (\E m \in queue.data : TakeDataset(m)) \/ MakerStep \/ LoseDataset
Training(w) == Begin(w) \/ WorkerStep(w) \/ StageFails(w) \/ Lose(w)

LEMMA NextByActor == Next => Scheduling \/ Making \/ \E w \in Workers : Training(w)
BY DEF Next, Scheduling, Making, Training

LEMMA SchedulingKeeps == Scheduling => UNCHANGED <<maker, data, at, task, row, runs, nodata>>
BY DEF Scheduling, Pass, AskDataset, AskTraining, Restart, making, training

LEMMA MakingKeeps ==
  Making => UNCHANGED <<time, sched, asked, at, task, row, runs, nodata>>
BY DEF Making, MakerStep, TakeDataset, WriteRows, WriteNew, WriteManifest, AckDataset, LoseDataset,
       scheduler, training

LEMMA TrainingKeeps ==
  \A w \in Workers : Training(w) => UNCHANGED <<time, sched, asked, maker, data>>
BY DEF Training, Begin, Read, WorkerStep, RequestRun, Train, Evaluate, Advance, HandoffCommits,
       HandoffFails, Commit, Store, Ack, StageFails, Lose, scheduler, making

-----------------------------------------------------------------------------
(* The datasets.                                                           *)

Versions == [rows : BOOLEAN, manifest : {"none", "eligible", "ineligible"}]

\* Only the last version may be without a manifest and still get one.
MakerInv ==
  /\ maker \in [step : {"idle", "rows", "manifest", "ack"}, msg : Nat]
  /\ data \in Seq(Versions) /\ \A d \in DOMAIN data : data[d].rows
  /\ maker.step = "manifest" => Len(data) > 0 /\ data[Len(data)].manifest = "none"

QueueInv == queue \in [data : SUBSET Nat, train : SUBSET Nat]

LEMMA EligibleTyped == MakerInv => EligibleSets \subseteq Nat /\ EligibleSets \subseteq DOMAIN data
BY DEF MakerInv, EligibleSets

LEMMA MakingMakes ==
  ASSUME MakerInv, QueueInv, Making PROVE MakerInv' /\ EligibleSets \subseteq EligibleSets'
<1> DEFINE Goal == MakerInv' /\ EligibleSets \subseteq EligibleSets'
<1>1. ASSUME NEW m \in queue.data, TakeDataset(m) PROVE Goal
  BY <1>1 DEF TakeDataset, MakerInv, QueueInv, EligibleSets
<1>2. CASE WriteRows
  <2> DEFINE new == [rows |-> TRUE, manifest |-> "none"]
  <2>1. data' = Append(data, new) /\ maker' = [maker EXCEPT !.step = "manifest"]
    BY <1>2 DEF WriteRows, WriteNew
  <2>2. /\ data' \in Seq(Versions) /\ Len(data') = Len(data) + 1 /\ data'[Len(data')] = new
        /\ \A d \in DOMAIN data : data'[d] = data[d]
    BY <2>1 DEF MakerInv, Versions
  <2>3. DOMAIN data' = DOMAIN data \union {Len(data')} /\ Len(data') > 0 BY <2>2 DEF MakerInv
  <2>4. \A d \in DOMAIN data' : data'[d].rows BY <2>2, <2>3 DEF MakerInv
  <2>5. MakerInv' BY <2>1, <2>2, <2>3, <2>4 DEF MakerInv
  <2> QED BY <2>2, <2>3, <2>5 DEF EligibleSets
<1>3. ASSUME NEW kind \in {"eligible", "ineligible"}, WriteManifest(kind) PROVE Goal
  <2>1. /\ data' = [data EXCEPT ![Len(data)] = [@ EXCEPT !.manifest = kind]]
        /\ maker.step = "manifest" /\ maker' = [maker EXCEPT !.step = "ack"]
    BY <1>3 DEF WriteManifest
  <2>2. Len(data) \in DOMAIN data BY <2>1 DEF MakerInv
  <2>3. [data[Len(data)] EXCEPT !.manifest = kind] \in Versions
    <3>1. data[Len(data)] \in Versions BY <2>2 DEF MakerInv
    <3> QED BY <3>1 DEF Versions
  <2>4. data' \in Seq(Versions) /\ DOMAIN data' = DOMAIN data
    BY <2>1, <2>2, <2>3, ExceptSeq DEF MakerInv
  <2>5. \A d \in DOMAIN data : data'[d] = IF d = Len(data) THEN [data[d] EXCEPT !.manifest = kind] ELSE data[d]
    BY <2>1, <2>2 DEF MakerInv
  <2>6. \A d \in DOMAIN data : data'[d].rows
    <3> SUFFICES ASSUME NEW d \in DOMAIN data PROVE data'[d].rows OBVIOUS
    <3>1. data[d] \in Versions /\ data[d].rows BY DEF MakerInv
    <3>2. [data[d] EXCEPT !.manifest = kind].rows = data[d].rows BY <3>1 DEF Versions
    <3> QED BY <2>5, <3>1, <3>2
  <2>7. MakerInv' BY <2>1, <2>4, <2>6 DEF MakerInv
  <2> QED BY <2>1, <2>4, <2>5, <2>7 DEF EligibleSets, MakerInv
<1>4. CASE AckDataset BY <1>4 DEF AckDataset, MakerInv, EligibleSets
<1>5. CASE LoseDataset BY <1>5 DEF LoseDataset, MakerInv, EligibleSets
<1> QED BY <1>1, <1>2, <1>3, <1>4, <1>5 DEF Making, MakerStep

-----------------------------------------------------------------------------
(* The runs.                                                               *)

Working == {"train", "evaluate", "handoff", "commit"}
Whole(r) == r.status = "READY_FOR_RELEASE" => r.files = {"serving", "artifacts", "evaluation"}
Answer(m) == m \in nodata \/ \E r \in runs : r.msg = m

\* The run of a worker at work is that of its message, and has what its step needs;
\* what is committed has ended.
AtWork(w) ==
  at[w] \in Working =>
    /\ row[w].msg = task[w].msg /\ row[w].dataset \in EligibleSets
    /\ at[w] \in {"train", "evaluate"} => row[w].status = "RUNNING"
    /\ at[w] = "evaluate" => row[w].files = {"serving", "artifacts"}
    /\ at[w] \in {"handoff", "commit"} => ~Active(row[w]) /\ Whole(row[w])
WorkerInv ==
  /\ at \in [Workers -> Steps] /\ task \in [Workers -> [msg : Nat, dataset : Nat]]
  /\ row \in [Workers -> RunRows \union {NoRow}] /\ runs \subseteq RunRows /\ nodata \subseteq Nat
  /\ \A w \in Workers : row[w] # NoRow <=> at[w] \in Working
  /\ \A w \in Workers : AtWork(w)
  /\ \A w \in Workers : at[w] = "request" => task[w].dataset \in EligibleSets
  /\ \A w \in Workers : at[w] = "ack" => Answer(task[w].msg)
  /\ \A r \in runs : ~Active(r) /\ Whole(r) /\ r.dataset \in EligibleSets
  /\ OneTrainer

LEMMA InitWorkers == Init => MakerInv /\ QueueInv /\ WorkerInv
<1> SUFFICES ASSUME Init PROVE MakerInv /\ QueueInv /\ WorkerInv OBVIOUS
<1>1. MakerInv /\ QueueInv BY DEF Init, MakerInv, QueueInv
<1>2. WorkerInv
  BY RunsAssumption DEF Init, WorkerInv, AtWork, Working, Steps, NoTask, OneTrainer
<1> QED BY <1>1, <1>2

\* A dataset that can be trained with stays one.
LEMMA DatasetsGrow ==
  ASSUME WorkerInv, EligibleSets \subseteq EligibleSets', UNCHANGED <<at, task, row, runs, nodata>>
  PROVE  WorkerInv'
<1>1. \A w \in Workers : AtWork(w)' BY DEF WorkerInv, AtWork, Active, Whole
<1>2. \A r \in runs' : ~Active(r) /\ Whole(r) /\ r.dataset \in EligibleSets' BY DEF WorkerInv
<1>3. \A m : Answer(m)' <=> Answer(m) BY DEF Answer
<1> QED BY <1>1, <1>2, <1>3 DEF WorkerInv, OneTrainer

\* A worker that changes nothing but its own step, message and row.
LEMMA OneWorker ==
  ASSUME WorkerInv, NEW w \in Workers, UNCHANGED <<data, runs>>, nodata \subseteq nodata',
         nodata' \subseteq Nat,
         NEW step \in Steps, at' = [at EXCEPT ![w] = step],
         NEW t \in [msg : Nat, dataset : Nat], task' = [task EXCEPT ![w] = t],
         NEW run \in RunRows \union {NoRow}, row' = [row EXCEPT ![w] = run],
         run # NoRow <=> step \in Working,
         run # NoRow => row[w] # NoRow \/ \A u \in Workers : row[u] = NoRow,
         step = "request" => t.dataset \in EligibleSets, step = "ack" => Answer(t.msg)',
         step \in Working =>
           /\ run.msg = t.msg /\ run.dataset \in EligibleSets
           /\ step \in {"train", "evaluate"} => run.status = "RUNNING"
           /\ step = "evaluate" => run.files = {"serving", "artifacts"}
           /\ step \in {"handoff", "commit"} => ~Active(run) /\ Whole(run)
  PROVE  WorkerInv'
<1>0. EligibleSets' = EligibleSets BY DEF EligibleSets
<1>1. at'[w] = step /\ task'[w] = t /\ row'[w] = run BY DEF WorkerInv
<1>2. \A u \in Workers : u # w => at'[u] = at[u] /\ task'[u] = task[u] /\ row'[u] = row[u] BY DEF WorkerInv
<1>3. /\ at' \in [Workers -> Steps] /\ task' \in [Workers -> [msg : Nat, dataset : Nat]]
      /\ row' \in [Workers -> RunRows \union {NoRow}] /\ runs' \subseteq RunRows /\ nodata' \subseteq Nat
  BY DEF WorkerInv
<1>4. \A u \in Workers : row'[u] # NoRow <=> at'[u] \in Working BY <1>1, <1>2 DEF WorkerInv
<1>5. \A u \in Workers : AtWork(u)'
  <2>1. AtWork(w)' BY <1>0, <1>1 DEF AtWork, Active, Whole
  <2>2. \A u \in Workers : u # w => AtWork(u)' BY <1>0, <1>2 DEF WorkerInv, AtWork
  <2> QED BY <2>1, <2>2
<1>6. \A u \in Workers : at'[u] = "request" => task'[u].dataset \in EligibleSets'
  BY <1>0, <1>1, <1>2 DEF WorkerInv
<1>7. \A m : Answer(m) => Answer(m)' BY DEF Answer
<1>8. \A u \in Workers : at'[u] = "ack" => Answer(task[u].msg)'
  <2>1. \A u \in Workers : u # w /\ at'[u] = "ack" => Answer(task'[u].msg) BY <1>2 DEF WorkerInv
  <2>2. at'[w] = "ack" => Answer(task[w].msg)' BY <1>1
  <2> QED BY <1>7, <2>1, <2>2
<1>9. \A r \in runs' : ~Active(r) /\ Whole(r) /\ r.dataset \in EligibleSets' BY <1>0 DEF WorkerInv
<1>10. OneTrainer' BY <1>1, <1>2 DEF WorkerInv, OneTrainer
<1> QED BY <1>3, <1>4, <1>5, <1>6, <1>8, <1>9, <1>10 DEF WorkerInv

LEMMA Storing == ASSUME WorkerInv, UNCHANGED data, NEW w \in Workers, at[w] \in {"handoff", "commit"}, Store(w)
                 PROVE  WorkerInv' /\ Answer(task[w].msg)'
<1>0. EligibleSets' = EligibleSets BY DEF EligibleSets
<1>1. /\ row[w] \in RunRows /\ ~Active(row[w]) /\ Whole(row[w]) /\ row[w].dataset \in EligibleSets
      /\ row[w].msg = task[w].msg
  BY DEF WorkerInv, AtWork, Working
<1>2. runs' = runs \union {row[w]}
  <2>1. {r \in runs : Active(r) /\ r.dataset = row[w].dataset} = {} BY DEF WorkerInv
  <2> QED BY <2>1 DEF Store
<1>3. /\ UNCHANGED <<task, nodata>>
      /\ row' = [row EXCEPT ![w] = NoRow] /\ at' = [at EXCEPT ![w] = "ack"]
  BY DEF Store
<1>4. /\ at'[w] = "ack" /\ row'[w] = NoRow
      /\ \A u \in Workers : u # w => at'[u] = at[u] /\ row'[u] = row[u]
  BY <1>3 DEF WorkerInv
<1>5. /\ at' \in [Workers -> Steps] /\ row' \in [Workers -> RunRows \union {NoRow}] /\ runs' \subseteq RunRows
  BY <1>1, <1>2, <1>3 DEF WorkerInv, Steps
<1>6. Answer(task[w].msg)' /\ \A m : Answer(m) => Answer(m)' BY <1>1, <1>2, <1>3 DEF Answer
<1>7. \A u \in Workers : row'[u] # NoRow <=> at'[u] \in Working BY <1>4 DEF WorkerInv, Working
<1>8. \A u \in Workers : AtWork(u)'
  <2>1. AtWork(w)' BY <1>4 DEF AtWork, Working
  <2>2. \A u \in Workers : u # w => AtWork(u)' BY <1>0, <1>3, <1>4 DEF WorkerInv, AtWork
  <2> QED BY <2>1, <2>2
<1>9. \A r \in runs' : ~Active(r) /\ Whole(r) /\ r.dataset \in EligibleSets'
  BY <1>0, <1>1, <1>2 DEF WorkerInv
<1>10. OneTrainer' BY <1>4 DEF WorkerInv, OneTrainer
<1>11. \A u \in Workers : at'[u] = "request" => task'[u].dataset \in EligibleSets'
  BY <1>0, <1>3, <1>4 DEF WorkerInv
<1>12. \A u \in Workers : at'[u] = "ack" => Answer(task[u].msg)'
  <2>1. \A u \in Workers : u # w /\ at'[u] = "ack" => Answer(task'[u].msg) BY <1>3, <1>4 DEF WorkerInv
  <2> QED BY <1>3, <1>6, <2>1
<1> QED BY <1>3, <1>5, <1>6, <1>7, <1>8, <1>9, <1>10, <1>11, <1>12 DEF WorkerInv

LEMMA TrainingTrains ==
  ASSUME MakerInv, QueueInv, WorkerInv, NEW w \in Workers, Training(w) PROVE WorkerInv'
<1> USE DEF Steps, Working
<1>0. UNCHANGED data /\ EligibleSets \subseteq Nat BY TrainingKeeps, EligibleTyped
<1>1. task[w] \in [msg : Nat, dataset : Nat] /\ task = [task EXCEPT ![w] = task[w]] BY DEF WorkerInv
<1>2. ASSUME NEW m \in queue.train, Read(w, m) PROVE WorkerInv'
  <2>1. m \in Nat /\ row[w] = NoRow /\ UNCHANGED <<row, runs>> BY <1>2 DEF Read, QueueInv, WorkerInv
  <2>2. row' = [row EXCEPT ![w] = NoRow] BY <2>1 DEF WorkerInv
  <2>3. CASE EligibleSets = {}
    <3> DEFINE t == [msg |-> m, dataset |-> 0]
    <3>1. /\ at' = [at EXCEPT ![w] = "ack"] /\ task' = [task EXCEPT ![w] = t]
          /\ nodata' = nodata \union {m}
      BY <1>2, <2>3 DEF Read, NoTask
    <3>2. Answer(m)' /\ nodata' \subseteq Nat BY <2>1, <3>1 DEF Answer, WorkerInv
    <3>3. t \in [msg : Nat, dataset : Nat] /\ t.msg = m BY <2>1
    <3> HIDE DEF t
    <3> QED BY <1>0, <2>1, <2>2, <3>1, <3>2, <3>3, OneWorker
  <2>4. CASE EligibleSets # {}
    <3>1. PICK d \in Latest : task' = [task EXCEPT ![w] = [msg |-> m, dataset |-> d]] BY <1>2, <2>4 DEF Read
    <3> DEFINE t == [msg |-> m, dataset |-> d]
    <3>2. at' = [at EXCEPT ![w] = "request"] /\ UNCHANGED nodata BY <1>2, <2>4 DEF Read
    <3>3. d \in EligibleSets /\ d \in Nat BY <1>0, <3>1 DEF Latest
    <3>4. nodata' \subseteq Nat BY <3>2 DEF WorkerInv
    <3>5. t \in [msg : Nat, dataset : Nat] /\ t.dataset = d /\ task' = [task EXCEPT ![w] = t]
      BY <2>1, <3>1, <3>3
    <3> HIDE DEF t
    <3> QED BY <1>0, <2>1, <2>2, <3>2, <3>3, <3>4, <3>5, OneWorker
  <2> QED BY <2>3, <2>4
<1>3. ASSUME RequestRun(w) PROVE WorkerInv'
  <2> DEFINE run == NewRun(w, "RUNNING")
  <2>1. /\ \A r \in runs : ~Active(r) /\ r.status # "RUNNING" BY DEF WorkerInv, Active
  <2>2. {r \in runs : Active(r) /\ r.dataset = task[w].dataset} = {} BY <2>1
  <2>3. /\ at[w] = "request" /\ \A u \in Workers : row[u] = NoRow
        /\ row' = [row EXCEPT ![w] = run] /\ UNCHANGED <<task, runs, nodata>>
        /\ at' = [at EXCEPT ![w] = IF row'[w].status = "RUNNING" THEN "train" ELSE "commit"]
    BY <1>3, <2>1, <2>2 DEF RequestRun
  <2>4. run \in RunRows BY <1>1 DEF NewRun, RunRows, Statuses
  <2>5. run.status = "RUNNING" /\ run.msg = task[w].msg /\ run.dataset = task[w].dataset BY DEF NewRun
  <2>6. at' = [at EXCEPT ![w] = "train"] BY <2>3, <2>5 DEF WorkerInv
  <2>7. run # NoRow BY <2>4, RunsAssumption
  <2>8. task' = [task EXCEPT ![w] = task[w]] /\ nodata' \subseteq Nat /\ task[w].dataset \in EligibleSets
    BY <1>1, <2>3 DEF WorkerInv
  <2> HIDE DEF run
  <2> QED BY <1>0, <1>1, <2>3, <2>4, <2>5, <2>6, <2>7, <2>8, OneWorker
\* A step that goes on with the run.
<1>4. ASSUME NEW run, NEW next \in {"train", "evaluate", "handoff", "commit"}, Advance(w, run, next),
             at[w] \in Working, run \in RunRows, run.msg = row[w].msg, run.dataset = row[w].dataset,
             next \in {"train", "evaluate"} => run.status = "RUNNING",
             next = "evaluate" => run.files = {"serving", "artifacts"},
             next \in {"handoff", "commit"} => ~Active(run) /\ Whole(run)
      PROVE  WorkerInv'
  <2>1. /\ row' = [row EXCEPT ![w] = run] /\ at' = [at EXCEPT ![w] = next]
        /\ UNCHANGED <<task, runs, nodata>>
    BY <1>4 DEF Advance
  <2>2. row[w] # NoRow /\ run # NoRow /\ row[w].msg = task[w].msg /\ row[w].dataset \in EligibleSets
    BY <1>4, RunsAssumption DEF WorkerInv, AtWork
  <2>3. task' = [task EXCEPT ![w] = task[w]] /\ nodata' \subseteq Nat BY <1>1, <2>1 DEF WorkerInv
  <2> QED BY <1>0, <1>1, <1>4, <2>1, <2>2, <2>3, OneWorker
<1>5. at[w] \in Working => row[w] \in RunRows BY DEF WorkerInv
<1>6. ASSUME Train(w) PROVE WorkerInv'
  <2> DEFINE run == [row[w] EXCEPT !.files = {"serving", "artifacts"}]
  <2>1. at[w] = "train" /\ Advance(w, run, "evaluate") BY <1>6 DEF Train
  <2>2. row[w].status = "RUNNING" BY <2>1 DEF WorkerInv, AtWork
  <2>3. /\ run \in RunRows /\ run.msg = row[w].msg /\ run.dataset = row[w].dataset
        /\ run.status = "RUNNING" /\ run.files = {"serving", "artifacts"}
    BY <1>5, <2>1, <2>2 DEF RunRows
  <2> HIDE DEF run
  <2> QED BY <1>4, <2>1, <2>3
<1>7. ASSUME NEW pass \in BOOLEAN, Evaluate(w, pass) PROVE WorkerInv'
  <2> DEFINE run == [Judged(row[w], pass) EXCEPT !.files = @ \union {"evaluation"}]
  <2>1. at[w] = "evaluate" /\ Advance(w, run, IF pass THEN "handoff" ELSE "commit")
    BY <1>7 DEF Evaluate
  <2>2. row[w].files = {"serving", "artifacts"} BY <2>1 DEF WorkerInv, AtWork
  <2>3. /\ run \in RunRows /\ run.msg = row[w].msg /\ run.dataset = row[w].dataset
        /\ run.status \in {"READY_FOR_RELEASE", "FAILED"}
        /\ run.files = {"serving", "artifacts", "evaluation"}
    BY <1>5, <2>1, <2>2 DEF RunRows, Judged, Statuses
  <2> HIDE DEF run
  <2>4. ~Active(run) /\ Whole(run) BY <2>3 DEF Active, Whole
  <2> QED BY <1>4, <2>1, <2>3, <2>4
<1>8. ASSUME StageFails(w) PROVE WorkerInv'
  <2> DEFINE run == [row[w] EXCEPT !.status = "FAILED"]
  <2>1. at[w] \in {"train", "evaluate"} /\ Advance(w, run, "commit") BY <1>8 DEF StageFails
  <2>2. run \in RunRows /\ run.msg = row[w].msg /\ run.dataset = row[w].dataset /\ run.status = "FAILED"
    BY <1>5, <2>1 DEF RunRows, Statuses
  <2> HIDE DEF run
  <2>3. ~Active(run) /\ Whole(run) BY <2>2 DEF Active, Whole
  <2> QED BY <1>4, <2>1, <2>2, <2>3
<1>9. ASSUME HandoffFails(w) PROVE WorkerInv'
  <2>1. at[w] = "handoff" /\ Advance(w, row[w], "commit") BY <1>9 DEF HandoffFails
  <2>2. ~Active(row[w]) /\ Whole(row[w]) BY <2>1 DEF WorkerInv, AtWork
  <2> QED BY <1>4, <1>5, <2>1, <2>2
<1>10. ASSUME HandoffCommits(w) \/ Commit(w) PROVE WorkerInv'
  BY <1>0, <1>10, Storing DEF HandoffCommits, Commit
<1>11. ASSUME Ack(w) \/ Lose(w) PROVE WorkerInv'
  <2>1. /\ at' = [at EXCEPT ![w] = "idle"] /\ task' = [task EXCEPT ![w] = [msg |-> 0, dataset |-> 0]]
        /\ UNCHANGED <<runs, nodata>>
    BY <1>11 DEF Ack, Lose, NoTask
  <2>2. row' = [row EXCEPT ![w] = NoRow] BY <1>11 DEF Ack, Lose, WorkerInv
  <2>3. nodata' \subseteq Nat BY <2>1 DEF WorkerInv
  <2> QED BY <1>0, <2>1, <2>2, <2>3, OneWorker
<1> QED BY <1>2, <1>3, <1>6, <1>7, <1>8, <1>9, <1>10, <1>11 DEF Training, Begin, WorkerStep

-----------------------------------------------------------------------------
(* The requests.                                                           *)

LEMMA WeekGrows ==
  ASSUME NEW a \in Nat, NEW b \in Nat, a <= b
  PROVE  Week(a) \in Nat /\ Week(a) <= a /\ Week(a) <= Week(b)
<1>1. Day(a) \in Nat /\ Day(b) \in Nat /\ Day(a) <= Day(b) /\ Day(a) <= a BY DEF Day
<1>2. DaysPerWeek \in Nat /\ DaysPerWeek > 0 BY RunsAssumption
<1>3. Week(a) \in Nat /\ Week(b) \in Nat BY <1>1, <1>2 DEF Week
<1>4. \A x \in Nat : DaysPerWeek * (x \div DaysPerWeek) <= x
                     /\ x < DaysPerWeek * ((x \div DaysPerWeek) + 1)
  BY <1>2
<1>5. \A x, y \in Nat : DaysPerWeek * x < DaysPerWeek * (y + 1) => x <= y
  BY <1>2
<1>6. DaysPerWeek * Week(a) < DaysPerWeek * (Week(b) + 1)
  BY <1>1, <1>2, <1>3, <1>4 DEF Week
<1>7. Week(a) <= Week(b) BY <1>3, <1>5, <1>6
<1>8. Week(a) <= DaysPerWeek * Week(a) BY <1>2, <1>3
<1>9. DaysPerWeek * Week(a) <= Day(a) BY <1>1, <1>4 DEF Week
<1>10. Week(a) <= a BY <1>1, <1>2, <1>3, <1>8, <1>9
<1> QED BY <1>3, <1>7, <1>10

\* The time that the scheduler goes by.
Clock == IF sched.step = "train" THEN sched.now ELSE time
Asked(wk) == {i \in DOMAIN asked.train : asked.train[i] = wk}

\* A week that the scheduler has not asked in since it was started has as many requests
\* as it was restarted, the week it asked in last has one more.
SchedulerInv ==
  /\ time \in 0..MaxTime /\ faults \in Nat
  /\ sched \in [step : {"asleep", "train"}, now : 0..MaxTime, day : Nat, week : Nat]
  /\ asked \in [data : Nat, train : Seq(0..MaxTime)]
  /\ QueueInv /\ queue.data \subseteq 1..asked.data /\ queue.train \subseteq 1..Len(asked.train)
  /\ sched.now <= time /\ (sched.week = Never \/ sched.week <= Week(Clock))
  /\ \A wk \in 0..MaxTime :
       /\ Cardinality(Asked(wk)) <= 1 + faults
       /\ wk >= Week(Clock) /\ wk # sched.week => Cardinality(Asked(wk)) <= faults

LEMMA BoundsTyped == MaxTime \in Nat /\ MaxTime > 0 /\ Never \in Nat /\ \A wk \in 0..MaxTime : wk # Never
BY RunsAssumption DEF Never

LEMMA InitScheduler == Init => SchedulerInv
<1> SUFFICES ASSUME Init PROVE SchedulerInv OBVIOUS
<1>1. \A wk : Asked(wk) = {} BY DEF Init, Asked
<1>2. \A wk : Cardinality(Asked(wk)) = 0 BY <1>1, FS_EmptySet
<1> QED BY <1>2, BoundsTyped DEF Init, SchedulerInv, QueueInv

LEMMA AskedCounts ==
  SchedulerInv => \A wk : IsFiniteSet(Asked(wk)) /\ Cardinality(Asked(wk)) \in Nat
<1> SUFFICES ASSUME SchedulerInv, NEW wk
             PROVE  IsFiniteSet(Asked(wk)) /\ Cardinality(Asked(wk)) \in Nat
  OBVIOUS
<1>1. Len(asked.train) \in Nat /\ DOMAIN asked.train = 1..Len(asked.train) BY DEF SchedulerInv
<1>2. Asked(wk) \subseteq 1..Len(asked.train) BY <1>1 DEF Asked
<1>3. IsFiniteSet(1..Len(asked.train)) BY <1>1, FS_Interval
<1>4. IsFiniteSet(Asked(wk)) BY <1>2, <1>3, FS_Subset
<1> QED BY <1>4, FS_CardinalityType

LEMMA ClockTyped == SchedulerInv => Clock \in 0..MaxTime /\ Clock <= time /\ Week(Clock) \in 0..MaxTime
<1> SUFFICES ASSUME SchedulerInv PROVE Clock \in 0..MaxTime /\ Clock <= time /\ Week(Clock) \in 0..MaxTime
  OBVIOUS
<1>1. Clock \in 0..MaxTime /\ Clock <= time BY BoundsTyped DEF SchedulerInv, Clock
<1>2. Week(Clock) \in Nat /\ Week(Clock) <= Clock BY <1>1, BoundsTyped, WeekGrows
<1> QED BY <1>1, <1>2, BoundsTyped

LEMMA CountStays ==
  \A c, f, g \in Nat : f <= g =>
    /\ c <= 1 + f => c <= 1 + g
    /\ c <= f => c <= g
    /\ g = f + 1 /\ c <= 1 + f => c <= g
OBVIOUS

\* Time and faults may go up while nothing is asked for.
LEMMA NothingAsked ==
  ASSUME SchedulerInv, UNCHANGED asked, faults' \in Nat, faults' >= faults, QueueInv',
         queue'.data \subseteq queue.data, queue'.train \subseteq queue.train,
         time' \in 0..MaxTime, time' >= time,
         sched' \in [step : {"asleep", "train"}, now : 0..MaxTime, day : Nat, week : Nat],
         sched'.now <= time', Clock' >= Clock, Clock' <= time', Clock' \in Nat,
         sched'.week = sched.week \/ (sched'.week = Never /\ faults' = faults + 1)
  PROVE  SchedulerInv'
<1>1. \A wk : Asked(wk)' = Asked(wk) BY DEF Asked
<1>2. \A wk : Cardinality(Asked(wk))' = Cardinality(Asked(wk)) /\ Cardinality(Asked(wk)) \in Nat
  BY <1>1, AskedCounts
<1>3. Clock \in Nat /\ Week(Clock) \in Nat BY ClockTyped
<1>4. Week(Clock)' \in Nat /\ Week(Clock) <= Week(Clock)'
  <2>1. Week(Clock)' = Week(Clock') BY DEF Week, Day
  <2>2. Week(Clock) <= Week(Clock') /\ Week(Clock') \in Nat BY <1>3, WeekGrows
  <2> QED BY <2>1, <2>2
<1>5. ASSUME NEW wk \in 0..MaxTime
      PROVE  /\ Cardinality(Asked(wk))' <= 1 + faults'
             /\ wk >= Week(Clock)' /\ wk # sched'.week => Cardinality(Asked(wk))' <= faults'
  <2> DEFINE c == Cardinality(Asked(wk))
  <2>1. Cardinality(Asked(wk))' = c /\ c \in Nat BY <1>2
  <2>2. c <= 1 + faults /\ (wk >= Week(Clock) /\ wk # sched.week => c <= faults) BY DEF SchedulerInv
  <2>3. faults \in Nat BY DEF SchedulerInv
  <2>4. wk >= Week(Clock)' => wk >= Week(Clock) BY <1>3, <1>4, BoundsTyped
  <2> HIDE DEF c
  <2>5. faults' \in Nat /\ faults <= faults'
    BY <2>3
  <2>6. /\ c <= 1 + faults => c <= 1 + faults'
        /\ c <= faults => c <= faults'
        /\ faults' = faults + 1 /\ c <= 1 + faults => c <= faults'
    BY <2>1, <2>3, <2>5, CountStays, Zenon
  <2> QED BY <2>1, <2>2, <2>4, <2>6, Zenon
<1>6. sched'.week = Never \/ sched'.week <= Week(Clock)'
  BY <1>3, <1>4, BoundsTyped DEF SchedulerInv
<1>7. queue'.data \subseteq 1..asked'.data /\ queue'.train \subseteq 1..Len(asked'.train) BY DEF SchedulerInv
<1> QED BY <1>5, <1>6, <1>7, BoundsTyped DEF SchedulerInv

LEMMA AskingOnce ==
  ASSUME SchedulerInv, sched.step = "train", NEW wk0 \in 0..MaxTime, wk0 = Week(sched.now),
         sched.week # wk0, NEW new \in Nat, new = Len(asked.train) + 1,
         asked' = [asked EXCEPT !.train = Append(@, wk0)],
         queue' = [queue EXCEPT !.train = @ \union {new}],
         sched' = [sched EXCEPT !.step = "asleep", !.now = 0, !.week = wk0],
         UNCHANGED <<time, faults>>
  PROVE  SchedulerInv'
<1>0. /\ sched \in [step : {"asleep", "train"}, now : 0..MaxTime, day : Nat, week : Nat]
      /\ asked \in [data : Nat, train : Seq(0..MaxTime)] /\ MaxTime \in Nat
  BY BoundsTyped DEF SchedulerInv
<1>1. Clock = sched.now /\ wk0 \in Nat /\ wk0 = Week(Clock) BY BoundsTyped DEF Clock
<1>3. /\ sched' \in [step : {"asleep", "train"}, now : 0..MaxTime, day : Nat, week : Nat]
      /\ sched'.step = "asleep" /\ sched'.week = wk0 /\ sched'.now = 0
  <2>1. sched' = [step |-> "asleep", now |-> 0, day |-> sched.day, week |-> wk0] BY <1>0
  <2>2. 0 \in 0..MaxTime /\ sched.day \in Nat BY <1>0
  <2> QED BY <1>1, <2>1, <2>2
<1>4. Clock' = time /\ sched'.now <= time' BY <1>3 DEF Clock, SchedulerInv
<1>5. Week(Clock)' \in Nat /\ wk0 <= Week(Clock)'
  <2>1. Week(Clock)' = Week(time) BY <1>4 DEF Week, Day
  <2>2. sched.now \in Nat /\ time \in Nat /\ sched.now <= time BY BoundsTyped DEF SchedulerInv
  <2> QED BY <2>1, <2>2, WeekGrows
<1>6. /\ asked' \in [data : Nat, train : Seq(0..MaxTime)] /\ asked'.data = asked.data
      /\ asked'.train = Append(asked.train, wk0) /\ new \in Nat
  <2>1. asked' = [data |-> asked.data, train |-> Append(asked.train, wk0)] BY <1>0
  <2>2. asked.data \in Nat /\ asked.train \in Seq(0..MaxTime) BY <1>0
  <2>3. Append(asked.train, wk0) \in Seq(0..MaxTime) BY <2>2, AppendProperties
  <2> QED BY <2>1, <2>2, <2>3
<1>7. /\ Len(asked'.train) = new /\ asked'.train[new] = wk0
      /\ \A i \in DOMAIN asked.train : asked'.train[i] = asked.train[i] /\ i \in 1..Len(asked.train)
      /\ DOMAIN asked'.train = DOMAIN asked.train \union {new}
  BY <1>1, <1>6 DEF SchedulerInv
<1>8. QueueInv' /\ queue'.data \subseteq 1..asked'.data /\ queue'.train \subseteq 1..Len(asked'.train)
  <2>1. Len(asked.train) \in Nat /\ queue.train \subseteq 1..Len(asked.train) BY DEF SchedulerInv
  <2>2. queue'.data = queue.data /\ queue'.train = queue.train \union {new} BY DEF SchedulerInv, QueueInv
  <2>3. QueueInv' BY <1>6 DEF SchedulerInv, QueueInv
  <2> QED BY <1>6, <1>7, <2>1, <2>2, <2>3 DEF SchedulerInv
<1>9. \A wk : wk # wk0 => Asked(wk)' = Asked(wk) BY <1>7 DEF Asked
<1>10. Asked(wk0)' = Asked(wk0) \union {new} /\ new \notin Asked(wk0)
  <2>1. new \notin DOMAIN asked.train BY <1>0, <1>7
  <2>2. {i \in DOMAIN asked.train \union {new} : asked'.train[i] = wk0} = Asked(wk0) \union {new}
    BY <1>7, <2>1 DEF Asked
  <2> QED BY <1>7, <2>1, <2>2 DEF Asked
<1>11. Cardinality(Asked(wk0))' = Cardinality(Asked(wk0)) + 1
  <2>1. IsFiniteSet(Asked(wk0)) BY AskedCounts
  <2>2. Cardinality(Asked(wk0) \union {new}) = Cardinality(Asked(wk0)) + 1 BY <1>10, <2>1, FS_AddElement
  <2> QED BY <1>10, <2>2
<1>12. Cardinality(Asked(wk0)) <= faults
  BY <1>1 DEF SchedulerInv
<1>13. ASSUME NEW wk \in 0..MaxTime
       PROVE  /\ Cardinality(Asked(wk))' <= 1 + faults'
              /\ wk >= Week(Clock)' /\ wk # sched'.week => Cardinality(Asked(wk))' <= faults'
  <2>0. faults \in Nat /\ Cardinality(Asked(wk)) \in Nat /\ UNCHANGED faults BY AskedCounts DEF SchedulerInv
  <2>1. CASE wk = wk0
    <3>1. Cardinality(Asked(wk))' = Cardinality(Asked(wk)) + 1 /\ Cardinality(Asked(wk)) <= faults
      BY <1>11, <1>12, <2>1
    <3> QED BY <1>3, <2>0, <2>1, <3>1
  <2>2. CASE wk # wk0
    <3>1. Cardinality(Asked(wk))' = Cardinality(Asked(wk)) BY <1>9, <2>2
    <3>2. Cardinality(Asked(wk)) <= 1 + faults BY DEF SchedulerInv
    <3>3. ASSUME wk >= Week(Clock)' PROVE Cardinality(Asked(wk)) <= faults
      <4>1. wk >= Week(Clock) /\ wk > wk0 BY <1>1, <1>5, <2>2, <3>3, BoundsTyped
      <4>2. wk # sched.week BY <1>1, <4>1, BoundsTyped DEF SchedulerInv
      <4> QED BY <4>1, <4>2 DEF SchedulerInv
    <3> QED BY <2>0, <3>1, <3>2, <3>3
  <2> QED BY <2>1, <2>2
<1> QED BY <1>1, <1>3, <1>4, <1>5, <1>6, <1>8, <1>13 DEF SchedulerInv

LEMMA SchedulingAsks == SchedulerInv /\ Scheduling => SchedulerInv'
<1> SUFFICES ASSUME SchedulerInv, Scheduling PROVE SchedulerInv' OBVIOUS
<1>0. /\ sched \in [step : {"asleep", "train"}, now : 0..MaxTime, day : Nat, week : Nat]
      /\ asked \in [data : Nat, train : Seq(0..MaxTime)] /\ QueueInv /\ sched.now <= time
      /\ time \in 0..MaxTime /\ faults \in Nat /\ MaxTime \in Nat
  BY BoundsTyped DEF SchedulerInv
<1>1. Clock \in Nat /\ Clock <= time /\ (sched.step = "asleep" => Clock = time)
  BY <1>0, ClockTyped DEF Clock
<1>2. CASE Pass
  <2>1. /\ time' = time + 1 /\ time < MaxTime /\ UNCHANGED <<sched, asked, queue, faults>>
    BY <1>2 DEF Pass
  <2>2. Clock' \in {Clock, Clock + 1} /\ Clock' <= time'
    BY <1>0, <1>1, <2>1 DEF Clock
  <2>3. QueueInv' BY <1>0, <2>1 DEF QueueInv
  <2> QED BY <1>0, <1>1, <2>1, <2>2, <2>3, NothingAsked
<1>3. CASE AskDataset
  <2>1. /\ sched.step = "asleep" /\ UNCHANGED <<time, faults>>
        /\ sched'.step = "train" /\ sched'.now = time /\ sched'.week = sched.week
        /\ sched' \in [step : {"asleep", "train"}, now : 0..MaxTime, day : Nat, week : Nat]
    <3>1. Day(time) \in Nat BY <1>0 DEF Day
    <3>2. CASE DatasetDue(time)
      <4>1. sched' = [step |-> "train", now |-> time, day |-> Day(time), week |-> sched.week]
        BY <1>0, <1>3, <3>2 DEF AskDataset
      <4> QED BY <1>0, <1>3, <3>1, <4>1 DEF AskDataset
    <3>3. CASE ~DatasetDue(time)
      <4>1. sched' = [step |-> "train", now |-> time, day |-> sched.day, week |-> sched.week]
        BY <1>0, <1>3, <3>3 DEF AskDataset
      <4> QED BY <1>0, <1>3, <4>1 DEF AskDataset
    <3> QED BY <3>2, <3>3
  <2>2. Clock' = Clock BY <1>1, <2>1 DEF Clock
  <2>3. /\ asked' \in [data : Nat, train : Seq(0..MaxTime)] /\ asked'.train = asked.train /\ QueueInv'
        /\ queue'.data \subseteq 1..asked'.data /\ queue'.train = queue.train
    <3>1. CASE UNCHANGED <<asked, queue>> BY <1>0, <3>1 DEF SchedulerInv, QueueInv
    <3>2. CASE /\ asked' = [asked EXCEPT !.data = @ + 1]
               /\ queue' = [queue EXCEPT !.data = @ \union {asked.data + 1}]
      <4>1. /\ asked' = [data |-> asked.data + 1, train |-> asked.train]
            /\ queue' = [data |-> queue.data \union {asked.data + 1}, train |-> queue.train]
        BY <1>0, <3>2 DEF QueueInv
      <4>2. asked.data \in Nat /\ asked.train \in Seq(0..MaxTime) /\ queue.data \subseteq 1..asked.data
            /\ queue.train \subseteq Nat
        BY <1>0 DEF SchedulerInv, QueueInv
      <4>3. queue.data \union {asked.data + 1} \subseteq 1..(asked.data + 1) BY <4>2
      <4> QED BY <4>1, <4>2, <4>3 DEF QueueInv
    <3> QED BY <1>3, <3>1, <3>2 DEF AskDataset
  <2>4. \A wk : Asked(wk)' = Asked(wk) BY <2>3 DEF Asked
  <2>5. Week(Clock)' = Week(Clock) BY <2>2 DEF Week, Day
  <2>6. queue.train \subseteq 1..Len(asked.train) /\ (sched.week = Never \/ sched.week <= Week(Clock))
    BY DEF SchedulerInv
  <2>7. \A wk \in 0..MaxTime :
          /\ Cardinality(Asked(wk))' <= 1 + faults'
          /\ wk >= Week(Clock)' /\ wk # sched'.week => Cardinality(Asked(wk))' <= faults'
    <3>1. UNCHANGED faults /\ sched'.week = sched.week BY <2>1
    <3> QED BY <2>4, <2>5, <3>1 DEF SchedulerInv
  <2> QED BY <1>0, <2>1, <2>3, <2>5, <2>6, <2>7 DEF SchedulerInv
<1>4. CASE AskTraining
  <2>1. sched.step = "train" /\ UNCHANGED <<time, faults>> /\ Clock = sched.now
    BY <1>4 DEF AskTraining, Clock
  <2>2. CASE TrainingDue(sched.now)
    <3>1. PICK wk0 \in 0..MaxTime : wk0 = Week(sched.now) BY <2>1, ClockTyped
    <3>2. PICK new \in Nat : new = Len(asked.train) + 1 BY <1>0
    <3>3. sched.week # wk0 BY <2>2, <3>1 DEF TrainingDue
    <3>4. /\ asked' = [asked EXCEPT !.train = Append(@, wk0)]
          /\ queue' = [queue EXCEPT !.train = @ \union {new}]
          /\ sched' = [sched EXCEPT !.step = "asleep", !.now = 0, !.week = wk0]
      BY <1>0, <1>4, <2>2, <3>1, <3>2 DEF AskTraining, SendTraining, Sleep
    <3> QED BY <2>1, <3>1, <3>2, <3>3, <3>4, AskingOnce
  <2>3. CASE ~TrainingDue(sched.now)
    <3>1. sched' = [step |-> "asleep", now |-> 0, day |-> sched.day, week |-> sched.week]
          /\ UNCHANGED <<asked, queue>>
      BY <1>0, <1>4, <2>3 DEF AskTraining, Sleep
    <3>2. sched' \in [step : {"asleep", "train"}, now : 0..MaxTime, day : Nat, week : Nat]
          /\ sched'.now <= time' /\ sched'.week = sched.week
      BY <1>0, <2>1, <3>1
    <3>3. Clock' = time BY <2>1, <3>1 DEF Clock
    <3>4. QueueInv' BY <1>0, <3>1 DEF QueueInv
    <3> QED BY <1>0, <1>1, <2>1, <3>1, <3>2, <3>3, <3>4, NothingAsked
  <2> QED BY <2>2, <2>3
<1>5. CASE Restart
  <2>1. /\ sched' = [step |-> "asleep", now |-> 0, day |-> Never, week |-> Never]
        /\ faults' = faults + 1 /\ UNCHANGED <<time, asked, queue>>
    BY <1>5 DEF Restart, Fault
  <2>2. sched' \in [step : {"asleep", "train"}, now : 0..MaxTime, day : Nat, week : Nat]
        /\ sched'.now <= time' /\ sched'.week = Never
    BY <1>0, <2>1, BoundsTyped
  <2>3. Clock' = time BY <2>1 DEF Clock
  <2>4. QueueInv' BY <1>0, <2>1 DEF QueueInv
  <2> QED BY <1>0, <1>1, <2>1, <2>2, <2>3, <2>4, NothingAsked
<1> QED BY <1>2, <1>3, <1>4, <1>5 DEF Scheduling

LEMMA MakingQueue == QueueInv /\ Making =>
  /\ QueueInv' /\ queue'.data \subseteq queue.data /\ queue'.train = queue.train
  /\ faults' \in {faults, faults + 1}
BY DEF QueueInv, Making, MakerStep, TakeDataset, WriteRows, WriteNew, WriteManifest, AckDataset,
       LoseDataset, Fault

LEMMA TrainingQueue ==
  ASSUME QueueInv, WorkerInv, NEW w \in Workers, Training(w)
  PROVE  /\ QueueInv' /\ queue'.data = queue.data /\ queue'.train \subseteq queue.train
         /\ faults' \in {faults, faults + 1}
         /\ runs \subseteq runs' /\ nodata \subseteq nodata'
         /\ \A m \in queue.train \ queue'.train : Answer(m)
<1>1. runs \subseteq runs'
  <2>1. \A r \in runs : ~Active(r) /\ r.status # "RUNNING" BY DEF WorkerInv, Active
  <2>2. {r \in runs : Active(r) /\ r.dataset = task[w].dataset} = {} BY <2>1
  <2>3. RequestRun(w) => runs' = runs BY <2>1, <2>2 DEF RequestRun
  <2>4. Store(w) => runs \subseteq runs' BY <2>1 DEF Store
  <2> QED BY <2>3, <2>4 DEF Training, Begin, Read, WorkerStep, Train, Evaluate, Advance, HandoffCommits,
                            HandoffFails, Commit, Ack, StageFails, Lose
<1>2. nodata \subseteq nodata' /\ faults' \in {faults, faults + 1}
  BY DEF Training, Begin, Read, WorkerStep, RequestRun, Train, Evaluate, Advance, HandoffCommits,
         HandoffFails, Commit, Store, Ack, StageFails, Lose, NoFault, Fault
<1>3. CASE UNCHANGED queue BY <1>1, <1>2, <1>3 DEF QueueInv
<1>4. CASE Ack(w)
  <2>1. queue' = [queue EXCEPT !.train = @ \ {task[w].msg}] /\ at[w] = "ack" BY <1>4 DEF Ack
  <2>2. Answer(task[w].msg) BY <2>1 DEF WorkerInv
  <2> QED BY <1>1, <1>2, <2>1, <2>2 DEF QueueInv
<1>5. UNCHANGED queue \/ Ack(w)
  BY DEF Training, Begin, Read, WorkerStep, RequestRun, Train, Evaluate, Advance, HandoffCommits,
         HandoffFails, Commit, Store, StageFails, Lose
<1> QED BY <1>3, <1>4, <1>5

LEMMA QuietScheduler ==
  ASSUME SchedulerInv, UNCHANGED <<time, sched, asked>>, QueueInv', faults' \in {faults, faults + 1},
         queue'.data \subseteq queue.data, queue'.train \subseteq queue.train
  PROVE  SchedulerInv'
<1>1. Clock \in Nat /\ Clock <= time /\ Clock' = Clock /\ time \in Nat
  BY ClockTyped, BoundsTyped DEF Clock, SchedulerInv
<1>2. /\ faults \in Nat /\ time \in 0..MaxTime /\ sched.now <= time
      /\ sched \in [step : {"asleep", "train"}, now : 0..MaxTime, day : Nat, week : Nat]
  BY DEF SchedulerInv
<1> QED BY <1>1, <1>2, NothingAsked

-----------------------------------------------------------------------------
(* The theorems.                                                           *)

RunsInv == MakerInv /\ WorkerInv /\ SchedulerInv /\ ArchivedWasAnswered

LEMMA InitRuns == Init => RunsInv
<1>1. Init => ArchivedWasAnswered BY DEF Init, ArchivedWasAnswered
<1> QED BY <1>1, InitWorkers, InitScheduler DEF RunsInv

LEMMA NextRuns == RunsInv /\ [Next]_vars => RunsInv'
<1> SUFFICES ASSUME RunsInv, [Next]_vars PROVE RunsInv' OBVIOUS
<1> USE DEF RunsInv
<1>0. QueueInv /\ faults \in Nat /\ time \in 0..MaxTime BY DEF SchedulerInv
<1>1. CASE Scheduling
  <2>1. UNCHANGED <<maker, data, at, task, row, runs, nodata>> BY <1>1, SchedulingKeeps
  <2>2. MakerInv' /\ EligibleSets' = EligibleSets BY <2>1 DEF MakerInv, EligibleSets
  <2>3. WorkerInv' BY <2>1, <2>2, DatasetsGrow
  <2>4. SchedulerInv' BY <1>1, SchedulingAsks
  <2>5. ArchivedWasAnswered'
    <3>1. UNCHANGED <<asked, queue>> \/ (UNCHANGED asked.train /\ UNCHANGED queue.train)
          \/ SendTraining
      BY <1>0, <1>1 DEF Scheduling, Pass, AskDataset, AskTraining, Restart, QueueInv, SchedulerInv
    <3>2. CASE UNCHANGED asked.train /\ UNCHANGED queue.train BY <2>1, <3>2 DEF ArchivedWasAnswered
    <3>3. CASE SendTraining
      <4>1. /\ asked'.train = Append(asked.train, Week(sched.now))
            /\ queue'.train = queue.train \union {Len(asked.train) + 1}
        BY <1>0, <3>3 DEF SendTraining, SchedulerInv, QueueInv
      <4>2. asked.train \in Seq(0..MaxTime) BY DEF SchedulerInv
      <4>3. DOMAIN asked'.train = DOMAIN asked.train \union {Len(asked.train) + 1} BY <4>1, <4>2
      <4> QED BY <2>1, <4>1, <4>3 DEF ArchivedWasAnswered
    <3> QED BY <2>1, <3>1, <3>2, <3>3 DEF ArchivedWasAnswered
  <2> QED BY <2>2, <2>3, <2>4, <2>5
<1>2. CASE Making
  <2>1. UNCHANGED <<time, sched, asked, at, task, row, runs, nodata>> BY <1>2, MakingKeeps
  <2>2. MakerInv' /\ EligibleSets \subseteq EligibleSets' BY <1>0, <1>2, MakingMakes
  <2>3. WorkerInv' BY <2>1, <2>2, DatasetsGrow
  <2>4. /\ QueueInv' /\ queue'.data \subseteq queue.data /\ queue'.train = queue.train
        /\ faults' \in {faults, faults + 1}
    BY <1>0, <1>2, MakingQueue
  <2>5. SchedulerInv' BY <1>0, <2>1, <2>4, QuietScheduler
  <2>6. ArchivedWasAnswered' BY <2>1, <2>4 DEF ArchivedWasAnswered
  <2> QED BY <2>2, <2>3, <2>5, <2>6
<1>3. ASSUME NEW w \in Workers, Training(w) PROVE RunsInv'
  <2>1. UNCHANGED <<time, sched, asked, maker, data>> BY <1>3, TrainingKeeps
  <2>2. MakerInv' BY <2>1 DEF MakerInv
  <2>3. WorkerInv' BY <1>0, <1>3, TrainingTrains
  <2>4. /\ QueueInv' /\ queue'.data = queue.data /\ queue'.train \subseteq queue.train
        /\ faults' \in {faults, faults + 1}
        /\ runs \subseteq runs' /\ nodata \subseteq nodata'
        /\ \A m \in queue.train \ queue'.train : Answer(m)
    BY <1>0, <1>3, TrainingQueue
  <2>5. SchedulerInv' BY <1>0, <2>1, <2>4, QuietScheduler
  <2>6. ArchivedWasAnswered' BY <2>1, <2>4 DEF ArchivedWasAnswered, Answer
  <2> QED BY <2>2, <2>3, <2>5, <2>6
<1>4. CASE UNCHANGED vars
  <2>1. UNCHANGED <<time, sched, asked, queue, maker, data, at, task, row, runs, nodata, faults>>
    BY <1>4 DEF vars
  <2>2. MakerInv' /\ EligibleSets' = EligibleSets BY <2>1 DEF MakerInv, EligibleSets
  <2>3. WorkerInv' BY <2>1, <2>2, DatasetsGrow
  <2>4. QueueInv' BY <1>0, <2>1 DEF QueueInv
  <2>5. SchedulerInv' BY <1>0, <2>1, <2>4, QuietScheduler
  <2>6. ArchivedWasAnswered' BY <2>1 DEF ArchivedWasAnswered
  <2> QED BY <2>2, <2>3, <2>5, <2>6
<1> QED BY <1>1, <1>2, <1>3, <1>4, NextByActor

LEMMA SpecRuns == Spec => []RunsInv
BY InitRuns, NextRuns, PTL DEF Spec

\* Two trainings never run at once, and whatever fails or crashes no committed run is
\* left active to keep later ones out (db_slots.py:73, bootstrap.py:229).
THEOREM TrainingsAlwaysExclude == Spec => []TrainingsExclude
<1>1. RunsInv => TrainingsExclude
  <2> SUFFICES ASSUME RunsInv PROVE TrainingsExclude OBVIOUS
  <2> USE DEF RunsInv
  <2>1. TypeOK
    <3>1. /\ sched \in [step : {"asleep", "train"}, now : 0..MaxTime, day : Nat, week : Nat]
          /\ asked \in [data : Nat, train : Seq(0..MaxTime)] /\ time \in 0..MaxTime /\ faults \in Nat
          /\ MaxTime \in Nat
      BY BoundsTyped DEF SchedulerInv
    <3>2. time \in Nat /\ sched \in [step : {"asleep", "train"}, now : Nat, day : Nat, week : Nat] BY <3>1
    <3>3. asked \in [data : Nat, train : Seq(Nat)]
      <4>1. asked.train \in Seq(Nat) BY <3>1
      <4> QED BY <3>1, <4>1
    <3>4. DOMAIN queue = {"data", "train"} BY DEF SchedulerInv, QueueInv
    <3>5. /\ queue.data \subseteq 1..asked.data /\ queue.train \subseteq 1..Len(asked.train)
      BY DEF SchedulerInv
    <3>6. /\ maker \in [step : {"idle", "rows", "manifest", "ack"}, msg : Nat] /\ data \in Seq(Versions)
      BY DEF MakerInv
    <3>7. /\ at \in [Workers -> Steps] /\ task \in [Workers -> [msg : Nat, dataset : Nat]]
          /\ row \in [Workers -> RunRows \union {NoRow}] /\ runs \subseteq RunRows /\ nodata \subseteq Nat
      BY DEF WorkerInv
    <3> QED BY <3>1, <3>2, <3>3, <3>4, <3>5, <3>6, <3>7 DEF TypeOK, Versions
  <2>2. OneTrainer /\ CommittedRunsHaveEnded BY DEF WorkerInv, CommittedRunsHaveEnded
  <2> QED BY <2>1, <2>2 DEF TrainingsExclude
<1> QED BY <1>1, SpecRuns, PTL

\* A candidate that can be released is complete, and so is the dataset it was trained
\* with (flow.py:155, artifacts.py:53).
THEOREM ReadyIsAlwaysComplete == Spec => []ReadyIsComplete
<1>1. RunsInv => ReadyIsComplete
  BY DEF RunsInv, ReadyIsComplete, WorkerInv, Whole, MakerInv, EligibleSets
<1> QED BY <1>1, SpecRuns, PTL

\* A training request is never lost, and asked for twice only by a scheduler that was
\* started again (consumer.py:34, scheduler.py:135).
THEOREM RequestsAreAlwaysKept == Spec => []RequestsAreKept
<1>1. RunsInv => RequestsAreKept
  <2> SUFFICES ASSUME RunsInv PROVE RequestsAreKept OBVIOUS
  <2>1. OneRequestAWeek
    <3> SUFFICES ASSUME NEW wk \in ToSet(asked.train) PROVE Cardinality(Asked(wk)) <= 1 + faults
      BY DEF OneRequestAWeek, Asked
    <3>1. wk \in 0..MaxTime
      <4>1. asked.train \in Seq(0..MaxTime) BY DEF RunsInv, SchedulerInv
      <4>2. PICK i \in DOMAIN asked.train : wk = asked.train[i] BY DEF ToSet
      <4>3. i \in 1..Len(asked.train) BY <4>1, <4>2
      <4>4. asked.train[i] \in 0..MaxTime BY <4>1, <4>3, ElementOfSeq
      <4> QED BY <4>2, <4>4
    <3> QED BY <3>1 DEF RunsInv, SchedulerInv
  <2> QED BY <2>1 DEF RunsInv, RequestsAreKept
<1> QED BY <1>1, SpecRuns, PTL
=============================================================================
