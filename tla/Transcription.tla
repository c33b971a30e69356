--------------------------- MODULE Transcription ---------------------------
(***************************************************************************)
(* How a pipeline-worker transcribes an audio that is too long for one     *)
(* request: it cuts it into overlapping parts, stores them, has them       *)
(* recognised in groups, keeps of each part the words it owns, and removes *)
(* the parts.                                                              *)
(*                                                                         *)
(* A part is named by its index and bounds, as its object and its asset    *)
(* are.  The length of a part is a setting and may differ from one attempt *)
(* to the next.  A deletion waits for the attempt until its claim ages.    *)
(* That no second attempt begins before that is VideoLifecycle's matter,   *)
(* and so are the failures of the deletion.                                *)
(***************************************************************************)
EXTENDS Integers, Sequences

CONSTANTS
  Length,             \* of the audio
  PartLengths,        \* settings of the part length
  Overlap,
  Concurrency, Retries,
  MaxErrors,          \* bounds: calls of the recogniser that fail,
  MaxFaults           \* and everything else that fails, crashes included

\* The settings are refused when a part is not longer than the overlap; only a long
\* audio is cut.
ASSUME TranscriptionAssumption ==
  /\ Length \in Nat \ {0} /\ Overlap \in Nat
  /\ PartLengths \subseteq Nat /\ \A d \in PartLengths : Overlap < d
  /\ Concurrency \in Nat \ {0} /\ {Retries, MaxErrors, MaxFaults} \subseteq Nat

VARIABLES
  run,      \* the attempt: its step, parts, the parts it will remove, its progress and outcome
  calls,    \* for each part that is being recognised the tries it has left
  objects,  \* parts in storage
  assets,   \* parts registered in the database
  video,    \* "kept", "deleting", "emptied" of its objects or "gone"
  transcript,
  errors, faults,
  loose     \* history: the parts which an attempt did not know, as its lookup failed,
            \* and those of an attempt that a deletion overtook
storage == <<objects, assets>>
tvars == <<run, calls, objects, assets, video, transcript, errors, faults, loose>>

Least(a, b) == IF a <= b THEN a ELSE b
Most(a, b) == IF a >= b THEN a ELSE b

(***************************************************************************)
(* Parts and words, of an audio of length t with parts of d and overlap o. *)
(***************************************************************************)

Part(i, d, o, t) ==
  [index |-> i, start |-> Most(0, (i - 1) * d - (IF i > 1 THEN o ELSE 0)), end |-> Least(i * d, t)]
IsPart(i, d, t) == i >= 1 /\ (i - 1) * d < t
Plan(d, o, t) == [i \in {j \in 1..t : IsPart(j, d, t)} |-> Part(i, d, o, t)]

\* Twice the bounds of what a part owns: the middle of each overlap.
Lower(parts, i) == IF i = 1 THEN 0 ELSE parts[i].start + parts[i - 1].end
Upper(parts, i) ==
  IF i + 1 \notin DOMAIN parts THEN 2 * parts[i].end ELSE parts[i + 1].start + parts[i].end

\* Mutation: a part owns all that it contains.
OwnsAll(parts, i, word) == parts[i].start <= word.start /\ word.end <= parts[i].end

Owns(parts, i, word) ==
  /\ Lower(parts, i) <= word.start + word.end /\ word.start + word.end < Upper(parts, i)

\* Recognition tells offsets from the start of the part, of a word cut by its bounds
\* those of what is left of it.
Heard(part, word) ==
  [start |-> Most(word.start, part.start) - part.start, end |-> Least(word.end, part.end) - part.start]
Hears(part, word) == word.start < part.end /\ part.start < word.end
Global(part, word) ==
  LET start == Least(Most(word.start + part.start, 0), Length)
  IN  [start |-> start, end |-> Least(Most(word.end + part.start, start), Length)]

\* Every word the audio may have: they do not influence each other.
Audio == {w \in [start : 0..Length, end : 0..Length] :
            w.start < w.end /\ w.end - w.start <= Overlap}

Merged(parts) ==
  {m \in [part : DOMAIN parts, of : Audio, word : [start : 0..Length, end : 0..Length]] :
     /\ Hears(parts[m.part], m.of)
     /\ m.word = Global(parts[m.part], Heard(parts[m.part], m.of))
     /\ Owns(parts, m.part, m.word)}

(***************************************************************************)
(* An attempt.                                                             *)
(***************************************************************************)

Idle == [step |-> "idle", parts |-> <<>>, sweep |-> {}, next |-> 1, failed |-> FALSE, wrong |-> FALSE]

TranscriptionInit ==
  /\ run = Idle /\ calls = <<>> /\ objects = {} /\ assets = {}
  /\ video = "kept" /\ transcript = {} /\ errors = 0 /\ faults = 0 /\ loose = {}

Fault == faults < MaxFaults /\ faults' = faults + 1
Sound == UNCHANGED <<errors, faults>>

At(step) == run.step = step /\ UNCHANGED video
Works(step) == At(step) /\ UNCHANGED loose
Goto(step) == run' = [run EXCEPT !.step = step]
Fail == run' = [run EXCEPT !.step = "final", !.failed = TRUE]
Quiet == UNCHANGED <<calls, transcript>> /\ Sound
PartsOf(parts) == {parts[i] : i \in DOMAIN parts}

Begin(d) ==
  /\ Works("idle") /\ video = "kept" /\ transcript = {}
  /\ run' = [Idle EXCEPT !.step = "lookup", !.parts = Plan(d, Overlap, Length),
                         !.sweep = PartsOf(Plan(d, Overlap, Length))]
  /\ UNCHANGED storage /\ Quiet

Lookup ==
  /\ Works("lookup") /\ run' = [run EXCEPT !.step = "sweep", !.sweep = @ \union assets]
  /\ UNCHANGED storage /\ Quiet

\* Before the work and after it: the objects first, then the rows of all parts.
SweepObjects ==
  /\ run.step \in {"sweep", "final"} /\ Works(run.step)
  /\ Goto(IF run.step = "sweep" THEN "sweepRows" ELSE "finalRows")
  /\ objects' = objects \ run.sweep /\ UNCHANGED assets /\ Quiet

SweepRows ==
  /\ Works("sweepRows") /\ Goto("check") /\ assets' = {} /\ UNCHANGED objects /\ Quiet

\* One that goes wrong in the end fails an attempt that was good until then.
SweepFails ==
  /\ run.step \in {"sweep", "sweepRows", "final", "finalRows"} /\ Works(run.step) /\ Fault
  /\ \E removed \in SUBSET (objects \intersect run.sweep) : objects' = objects \ removed
  /\ IF run.step \in {"sweep", "sweepRows"} THEN Fail ELSE run' = Idle
  /\ UNCHANGED <<assets, calls, transcript, errors>>

\* A lookup, extraction, registration or upload fails; the upload may have been done.
\* Without the lookup the rows of all parts will go, but only the objects of the plan.
StepFails ==
  /\ run.step \in {"lookup", "extract", "upload"} /\ At(run.step) /\ Fault /\ Fail
  /\ loose' = IF run.step = "lookup" THEN loose \union (assets \ run.sweep) ELSE loose
  /\ objects' \in {objects} \union
       (IF run.step = "upload" THEN {objects \union {run.parts[run.next]}} ELSE {})
  /\ UNCHANGED <<assets, calls, transcript, errors>>

\* The video's status is read before the first part and around every upload; a video
\* that is gone has none and is not noticed.
CheckDeleting ==
  /\ run.step \in {"check", "registered", "uploaded"} /\ Works(run.step)
  /\ IF video \in {"deleting", "emptied"} THEN Fail
     ELSE IF run.step = "check" THEN Goto("extract")
     ELSE IF run.step = "registered" THEN Goto("upload")
     ELSE IF run.next \in DOMAIN run.parts /\ run.next + 1 \in DOMAIN run.parts
          THEN run' = [run EXCEPT !.step = "extract", !.next = @ + 1]
          ELSE run' = [run EXCEPT !.step = "group", !.next = 1]
  /\ UNCHANGED storage /\ Quiet

\* Mutation: a part is registered when it has been uploaded.
RegisterLate ==
  \/ Works("extract") /\ Goto("registered") /\ UNCHANGED storage /\ Quiet
  \/ /\ Works("uploaded") /\ run.parts[run.next] \notin assets
     /\ assets' = assets \union {run.parts[run.next]} /\ UNCHANGED <<run, objects>> /\ Quiet

\* The row of a part refers to its video.
Register ==
  /\ Works("extract") /\ UNCHANGED objects /\ Quiet
  /\ IF video = "gone" THEN Fail /\ UNCHANGED assets
     ELSE Goto("registered") /\ assets' = assets \union {run.parts[run.next]}

Upload ==
  /\ Works("upload") /\ Goto("uploaded")
  /\ objects' = objects \union {run.parts[run.next]} /\ UNCHANGED assets /\ Quiet

\* A group of parts is recognised at the same time.
BeginGroup ==
  /\ Works("group")
  /\ IF run.next \notin DOMAIN run.parts THEN Goto("final") /\ UNCHANGED calls
     ELSE /\ Goto("calling")
          /\ calls' = [i \in {j \in DOMAIN run.parts :
                                j \in run.next..(run.next + Concurrency - 1)} |-> Retries]
  /\ UNCHANGED storage /\ UNCHANGED transcript /\ Sound

Without(i) == [j \in DOMAIN calls \ {i} |-> calls[j]]

Recognised(i) ==
  /\ Works("calling") /\ run.parts[i] \in objects /\ calls' = Without(i)
  /\ UNCHANGED <<run, transcript>> /\ UNCHANGED storage /\ Sound

\* Retryable or not, and with tries left or not; always if the part is not there.
CallFails(i) ==
  /\ Works("calling")
  /\ \/ errors < MaxErrors /\ errors' = errors + 1
     \/ run.parts[i] \notin objects /\ UNCHANGED errors
  /\ \/ calls[i] > 0 /\ calls' = [calls EXCEPT ![i] = @ - 1] /\ UNCHANGED run
     \/ calls' = Without(i) /\ run' = [run EXCEPT !.wrong = TRUE]
  /\ UNCHANGED <<transcript, faults>> /\ UNCHANGED storage

EndGroup ==
  /\ Works("calling") /\ DOMAIN calls = {}
  /\ IF run.wrong THEN Fail ELSE run' = [run EXCEPT !.step = "group", !.next = @ + Concurrency]
  /\ UNCHANGED storage /\ Quiet

\* The transcript is the last thing: its segments are stored by the caller.
Finish ==
  /\ Works("finalRows") /\ run' = Idle /\ assets' = {} /\ UNCHANGED objects
  /\ transcript' = IF run.failed THEN {} ELSE Merged(run.parts)
  /\ UNCHANGED calls /\ Sound

Crash ==
  /\ run.step # "idle" /\ Fault
  /\ run' = Idle /\ calls' = <<>>
  /\ UNCHANGED <<video, transcript, errors, loose>> /\ UNCHANGED storage

AskDelete ==
  /\ video = "kept" /\ video' = "deleting"
  /\ UNCHANGED <<run, calls, transcript, errors, faults, loose>> /\ UNCHANGED storage

\* It waits for the attempt, unless the claim has aged meanwhile: only checks of other
\* stages renew it.  It removes what is registered.
DeleteObjects ==
  /\ video = "deleting" /\ video' = "emptied" /\ objects' = objects \ assets
  /\ IF run.step = "idle" THEN UNCHANGED <<faults, loose>>
     ELSE Fault /\ loose' = loose \union PartsOf(run.parts)
  /\ UNCHANGED <<run, calls, assets, transcript, errors>>

\* All rows, the video's last.
DeleteRows ==
  /\ video = "emptied" /\ video' = "gone" /\ assets' = {}
  /\ UNCHANGED <<run, calls, objects, transcript, errors, faults, loose>>

TranscriptionNext ==
  \/ \E d \in PartLengths : Begin(d)
  \/ Lookup
  \/ SweepObjects
  \/ SweepRows
  \/ SweepFails
  \/ StepFails
  \/ CheckDeleting
  \/ Register
  \/ Upload
  \/ BeginGroup
  \/ \E i \in DOMAIN calls : Recognised(i) \/ CallFails(i)
  \/ EndGroup
  \/ Finish
  \/ Crash
  \/ AskDelete
  \/ DeleteObjects
  \/ DeleteRows

TranscriptionSpec == TranscriptionInit /\ [][TranscriptionNext]_tvars

(***************************************************************************)
(* Properties.                                                             *)
(***************************************************************************)

\* Each variable keeps its type, and only parts that may exist are stored.
TranscriptionTypeOK ==
  /\ run.step \in {"idle", "lookup", "sweep", "sweepRows", "check", "extract", "registered",
                   "upload", "uploaded", "group", "calling", "final", "finalRows"}
  /\ objects \union assets \union run.sweep \union loose \subseteq
       UNION {PartsOf(Plan(d, Overlap, Length)) : d \in PartLengths}
  /\ DOMAIN calls \subseteq DOMAIN run.parts /\ video \in {"kept", "deleting", "emptied", "gone"}

\* The object of a part is not stored without its asset, so that the next attempt or
\* the deletion of the video finds what one left that failed or crashed.  Only what an
\* attempt could not look up and then dropped the rows of, and what one stored whose
\* deletion overtook it, may be left behind.
PartsAreTracked == objects \subseteq assets \union loose

\* A part that is being recognised is in storage, although another part failed, unless
\* a deletion overtook the attempt.
PartsOutliveCalls == \A i \in DOMAIN calls : run.parts[i] \in objects \union loose

\* Parts stay for as long as they are needed, and can be found for as long as they stay.
PartsStay == TranscriptionTypeOK /\ PartsAreTracked /\ PartsOutliveCalls

\* A transcript has every word of the audio once and whole, those in the overlap of
\* two parts and those cut by the bounds of one included, and its parts are gone, and
\* those of the attempts before it that could be found.
TranscriptIsTheAudio ==
  transcript # {} =>
    /\ {m.word : m \in transcript} = Audio
    /\ \A m, n \in transcript : m.word = n.word => m = n
    /\ run.step = "idle" /\ assets = {} /\ objects \subseteq loose
=============================================================================
