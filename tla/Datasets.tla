------------------------------ MODULE Datasets ------------------------------
(***************************************************************************)
(* The feedback loop's training data and its judgement of a model: how a   *)
(* log of feedback becomes groups of chunks to train on, while videos are  *)
(* still deleted and projects hidden, and how two models' rankings of an   *)
(* evaluation set become a decision.                                       *)
(*                                                                         *)
(* A chunk is a model value and its text is not kept.  The hash that       *)
(* picks random negatives may pick any; metrics are integers, SCALE times  *)
(* what they are.                                                          *)
(***************************************************************************)
EXTENDS Integers, Sequences, FiniteSets, SequencesExt, FiniteSetsExt

CONSTANTS
  Logs,          \* what may be logged: sequences of feedback, in the order it is read
  ProjectOf,     \* the project of each chunk
  PoolLimit,     \* random negatives offered for a project
  Evaluations,   \* sequences of queries: their relevant chunks and the two models' rankings
  TopK

ASSUME LogsAssumption ==
  \A l \in Logs : DOMAIN l \subseteq Nat /\ \A i \in DOMAIN l : l[i].at \in Int

\* A corpus has a chunk once, so a ranking of it has it once at most.
ASSUME EvaluationsAssumption ==
  /\ TopK \in 1..5
  /\ \A e \in Evaluations :
       /\ e \in Seq([relevant : SUBSET DOMAIN ProjectOf,
                     baseline : Seq(DOMAIN ProjectOf), candidate : Seq(DOMAIN ProjectOf)])
       /\ \A i \in DOMAIN e :
            /\ IsFiniteSet(e[i].relevant)
            /\ IsInjective(e[i].baseline) /\ IsInjective(e[i].candidate)

VARIABLES
  step,      \* "start", "read", "text", "pooled" or "done" of a dataset; "judge" or "judged"
  log,
  stored,    \* chunks that have a row
  shown,     \* those among them whose video is READY and whose project is SERVABLE
  texts,     \* chunks whose text was read
  pool,      \* chunks offered as random negatives, in their project
  groups,
  queries, decision
dvars == <<step, log, stored, shown, texts, pool, groups, queries, decision>>
database == <<stored, shown>>
Chunks == DOMAIN ProjectOf

DatasetsInit ==
  /\ stored = Chunks /\ shown = Chunks
  /\ texts = {} /\ pool = {} /\ groups = {} /\ decision = "none"
  /\ \/ step = "start" /\ log \in Logs /\ queries = <<>>
     \/ step = "judge" /\ log = <<>> /\ queries \in Evaluations

(***************************************************************************)
(* Datasets.                                                               *)
(***************************************************************************)

\* One video of one chunk is removed, or its project hidden, between two queries.
Delete(c) ==
  /\ step \in {"read", "text"} /\ stored = Chunks /\ stored' = stored \ {c} /\ shown' = shown \ {c}
  /\ UNCHANGED <<step, log, texts, pool, groups, queries, decision>>

Hide(project) ==
  /\ step \in {"read", "text"} /\ shown' = {c \in shown : ProjectOf[c] # project} /\ shown' # shown
  /\ UNCHANGED <<step, log, stored, texts, pool, groups, queries, decision>>

ReadLog == step = "start" /\ step' = "read"
           /\ UNCHANGED <<log, texts, pool, groups, queries, decision>> /\ UNCHANGED database

Shown(e) == e.topk \union e.used
Referenced(events) == UNION {Shown(e) : e \in events}

ReadTexts ==
  /\ step = "read" /\ step' = "text" /\ texts' = Referenced(ToSet(log)) \intersect stored
  /\ UNCHANGED <<log, pool, groups, queries, decision>> /\ UNCHANGED database

Excluded(events) == Referenced(events)

\* Random among those that are left, in each project that has an event.
Offers(project) ==
  LET left == {c \in shown \ Excluded(ToSet(log)) : ProjectOf[c] = project}
  IN  IF \E i \in DOMAIN log : log[i].project = project
      THEN kSubset(IF Cardinality(left) < PoolLimit THEN Cardinality(left) ELSE PoolLimit, left)
      ELSE {{}}

ReadPool ==
  /\ step = "text" /\ step' = "pooled"
  /\ \E offer \in [{ProjectOf[c] : c \in Chunks} -> SUBSET shown] :
       /\ \A project \in DOMAIN offer : offer[project] \in Offers(project)
       /\ pool' = UNION {offer[project] : project \in DOMAIN offer}
  /\ UNCHANGED <<log, texts, groups, queries, decision>> /\ UNCHANGED database

\* An event is a rating of a response: rating it again, or delivering it again, copies it.
Id(e) == <<e.req, e.like>>

\* Mutation: what comes last in the log is the latest.
LatestRead(i) == \A j \in DOMAIN log : Id(log[j]) = Id(log[i]) => j <= i

\* The last copy of an event by its time, and in the log when two have the same.
Latest(i) ==
  \A j \in DOMAIN log : Id(log[j]) = Id(log[i]) =>
    log[j].at < log[i].at \/ (log[j].at = log[i].at /\ j <= i)

Positives(e) == e.used \intersect texts

Unused(e) == (e.topk \ e.used) \intersect texts

\* Half as many as were shown and not used, one at least and three at most.
Target(e) ==
  LET half == (Cardinality(Unused(e)) + 1) \div 2
  IN  IF half < 1 THEN 1 ELSE IF half > 3 THEN 3 ELSE half

RandomNegatives(e) ==
  LET left == {c \in pool : ProjectOf[c] = e.project} \ Shown(e)
  IN  kSubset(IF Cardinality(left) < Target(e) THEN Cardinality(left) ELSE Target(e), left)

Group(e, random) ==
  [event |-> e, positives |-> Positives(e), negatives |-> Unused(e) \union random, random |-> random]

Materialize ==
  LET kept == {log[i] : i \in {j \in DOMAIN log : Latest(j)}}
  IN  /\ step = "pooled" /\ step' = "done"
      /\ \E random \in [kept -> SUBSET pool] :
           /\ \A e \in kept : random[e] \in RandomNegatives(e)
           /\ groups' = {g \in {Group(e, random[e]) : e \in {f \in kept : f.like}} :
                           g.positives # {} /\ g.negatives # {}}
      /\ UNCHANGED <<log, texts, pool, queries, decision>> /\ UNCHANGED database

(***************************************************************************)
(* Evaluation.                                                             *)
(***************************************************************************)

SCALE == 6000

\* 1 at the rank of a relevant chunk, 0 at any other.
Hits(ranked, relevant) ==
  [rank \in 1..5 |->
     IF rank <= TopK /\ rank \in DOMAIN ranked /\ ranked[rank] \in relevant THEN 1 ELSE 0]
IdealHits(relevant) ==
  [rank \in 1..5 |-> IF rank <= TopK /\ rank <= Cardinality(relevant) THEN 1 ELSE 0]

Count(hits) == hits[1] + hits[2] + hits[3] + hits[4] + hits[5]

\* Each over log2(rank + 1).
Dcg(hits) == 10000 * hits[1] + 6309 * hits[2] + 5000 * hits[3] + 4307 * hits[4] + 3869 * hits[5]

Metrics(ranked, relevant) ==
  LET hits == Hits(ranked, relevant)
      ranks == {rank \in 1..5 : hits[rank] = 1}
  IN  IF relevant = {} THEN [recall |-> 0, mrr |-> 0, ndcg |-> 0]
      ELSE [recall |-> (Count(hits) * SCALE) \div Cardinality(relevant),
            mrr |-> IF ranks = {} THEN 0 ELSE SCALE \div Min(ranks),
            ndcg |-> (Dcg(hits) * SCALE) \div Dcg(IdealHits(relevant))]

Total(f) ==
  LET sum[n \in 0..Len(f)] == IF n = 0 THEN 0 ELSE sum[n - 1] + f[n]
  IN  sum[Len(f)]

\* The averages of two models are over the same queries: their sums are compared.
SumOver(model, key) ==
  Total([i \in 1..Len(queries) |-> Metrics(queries[i][model], queries[i].relevant)[key]])

\* Mutation: a candidate has to be better.
MeetsBaselineBetter ==
  \A key \in {"recall", "mrr", "ndcg"} : SumOver("candidate", key) > SumOver("baseline", key)

MeetsBaseline ==
  \A key \in {"recall", "mrr", "ndcg"} : SumOver("candidate", key) >= SumOver("baseline", key)

Judge ==
  /\ step = "judge" /\ step' = "judged" /\ decision' = IF MeetsBaseline THEN "PASS" ELSE "FAIL"
  /\ UNCHANGED <<log, texts, pool, groups, queries>> /\ UNCHANGED database

DatasetsNext ==
  \/ \E c \in Chunks : Delete(c) \/ Hide(ProjectOf[c])
  \/ ReadLog
  \/ ReadTexts
  \/ ReadPool
  \/ Materialize
  \/ Judge

DatasetsSpec == DatasetsInit /\ [][DatasetsNext]_dvars

(***************************************************************************)
(* Properties.                                                             *)
(***************************************************************************)

\* However often and in whatever order a like was delivered, it is trained on once, as
\* of its last time.  (A dislike of the same response is another event.)
LatestIsTrained ==
  \A g \in groups :
    /\ \A i \in DOMAIN log : Id(log[i]) = Id(g.event) => log[i].at <= g.event.at
    /\ \A h \in groups : Id(h.event) = Id(g.event) => h = g

\* A chunk is not at once to be found and not to be found for the same query, and every
\* group has both.
GroupsTellApart ==
  \A g \in groups :
    g.positives \intersect g.negatives = {} /\ g.positives # {} /\ g.negatives # {}

\* A random negative belongs to the event's project, and nobody who gave feedback, a
\* dislike included, was shown it.
RandomWasNotShown ==
  \A g \in groups : \A c \in g.random :
    ProjectOf[c] = g.event.project /\ \A i \in DOMAIN log : c \notin Shown(log[i])

\* A group teaches what its user said, once, and its random negatives were shown to nobody
\* who gave feedback.  A later dislike of the same answer takes no group away: it is an
\* event of its own (materializer.py:221).
GroupsTeach == LatestIsTrained /\ GroupsTellApart /\ RandomWasNotShown

Rank(ranked, c) == CHOOSE i \in DOMAIN ranked : ranked[i] = c
Place(ranked, c) ==
  IF c \in ToSet(ranked) /\ Rank(ranked, c) <= TopK THEN Rank(ranked, c) ELSE TopK + 1
NoWorse(one, other) ==
  \A i \in DOMAIN queries : \A c \in queries[i].relevant :
    Place(queries[i][one], c) <= Place(queries[i][other], c)

\* A model that places every relevant chunk of every query as high as the active one
\* passes; one that places them no higher, and some lower, fails.
DecisionFollowsRanks ==
  /\ decision = "FAIL" => ~NoWorse("candidate", "baseline")
  /\ decision = "PASS" /\ NoWorse("baseline", "candidate") => NoWorse("candidate", "baseline")
=============================================================================
