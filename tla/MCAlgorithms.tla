--------------------------- MODULE MCAlgorithms ----------------------------
(***************************************************************************)
(* Three machines that share nothing, checked in one run: a long audio's   *)
(* parts, the text of an answer, and datasets and evaluations.  One of     *)
(* them runs, and the others keep still.                                   *)
(***************************************************************************)
EXTENDS Transcription, TranscriptText, Datasets

CONSTANTS p, q, c1, c2, c3, c4, c5

MCWord(n, start, end, mark) == [n |-> n, start |-> start, end |-> end, mark |-> mark]

\* Three words of any bounds, and seven of which any end a sentence.
MCAnswers ==
  {[n \in 1..3 |-> MCWord(n, b[n], e[n], TRUE)] : b \in [1..3 -> 0..3], e \in [1..3 -> 0..3]}
  \union {[n \in 1..7 |-> MCWord(n, n, n + 1, m[n])] : m \in [1..7 -> BOOLEAN]}
  \union {<<>>, <<MCWord(1, 1, 0, TRUE)>>}

MCProjectOf == [c \in {c1, c2, c3, c4, c5} |-> IF c = c5 THEN q ELSE p]

MCResponses ==
  {[req |-> 1, project |-> p, topk |-> {c1, c2}, used |-> {c1}],
   [req |-> 2, project |-> p, topk |-> {c2, c3}, used |-> {c3}],
   [req |-> 3, project |-> p, topk |-> {c1}, used |-> {c1}]}
MCEvents ==
  {[req |-> r.req, project |-> r.project, topk |-> r.topk, used |-> r.used, like |-> l, at |-> t] :
     r \in MCResponses, l \in BOOLEAN, t \in 1..2}
MCLogs == UNION {[1..n -> MCEvents] : n \in 0..3}

MCQueries(relevant) ==
  [relevant : relevant, baseline : SetToSeqs({c1, c2, c3}), candidate : SetToSeqs({c1, c2, c3})]
MCEvaluations ==
  {<<>>} \union {<<a>> : a \in MCQueries(SUBSET {c1, c2, c3})}
  \union {<<a, b>> : a \in MCQueries({{}, {c1}, {c1, c2}}), b \in MCQueries({{c1}})}

\* A video that is gone is not transcribed.
TranscriptionIdle ==
  /\ run = Idle /\ calls = <<>> /\ objects = {} /\ assets = {}
  /\ video = "gone" /\ transcript = {} /\ errors = 0 /\ faults = 0 /\ loose = {}
TextIdle == stage = "idle" /\ answer = <<>> /\ overlap = 0 /\ words = <<>> /\ segments = <<>> /\ chunks = <<>>
DatasetsIdle ==
  /\ step = "idle" /\ log = <<>> /\ stored = {} /\ shown = {} /\ texts = {} /\ pool = {}
  /\ groups = {} /\ queries = <<>> /\ decision = "none"

MCInit ==
  \/ TranscriptionInit /\ TextIdle /\ DatasetsIdle
  \/ TranscriptionIdle /\ TextInit /\ DatasetsIdle
  \/ TranscriptionIdle /\ TextIdle /\ DatasetsInit

MCNext ==
  \/ TranscriptionNext /\ UNCHANGED <<wvars, dvars>>
  \/ TextNext /\ UNCHANGED <<tvars, dvars>>
  \/ DatasetsNext /\ UNCHANGED <<tvars, wvars>>

MCSpec == MCInit /\ [][MCNext]_<<tvars, wvars, dvars>>
=============================================================================
