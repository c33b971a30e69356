------------------------- MODULE EmbeddingEndpoint -------------------------
(***************************************************************************)
(* The managed embedding endpoint as its clients see it: the admission     *)
(* controller that shares the inference slots between two queued lanes and *)
(* a lane without a queue, the reload of the models it holds, and the      *)
(* clients of search-service ("search"), pipeline-worker                   *)
(* ("video_preprocess") and feedback-loop ("legacy") with their timeouts   *)
(* and retries.                                                            *)
(*                                                                         *)
(* The endpoint runs on one event loop and the controller's lock is never  *)
(* held across a suspension, so one action is what runs between two        *)
(* suspensions: waiting for a slot, and waiting for an inference thread.   *)
(* A request is one attempt of a caller; a caller that gave up on an       *)
(* attempt leaves it behind in the endpoint.                               *)
(***************************************************************************)
EXTENDS Naturals, Sequences, FiniteSets

CONSTANTS
  SearchCallers, VideoCallers, LegacyCallers,
  MaxConcurrency,     \* MAX_CONCURRENCY
  RequestLimit,       \* per managed lane, SEARCH_REQUEST_LIMIT and its sibling
  MaxRetries,         \* per managed lane, the clients' max_retries
  Models,
  Bootstrap,          \* the model of MODEL_ARTIFACT_PATH
  NoModel

Callers == SearchCallers \union VideoCallers \union LegacyCallers
Managed == {"search", "video_preprocess"}
Attempts == UNION {1..(1 + MaxRetries[l]) : l \in Managed}
Requests == Callers \X Attempts

ASSUME SlotsAssumption ==
  /\ IsFiniteSet(Callers)
  /\ MaxConcurrency \in Nat \ {0}
  /\ RequestLimit \in [Managed -> Nat \ {0}]
  /\ MaxRetries \in [Managed -> Nat]
ASSUME LanesAssumption ==
  /\ SearchCallers \intersect VideoCallers = {}
  /\ SearchCallers \intersect LegacyCallers = {}
  /\ VideoCallers \intersect LegacyCallers = {}
ASSUME ModelsAssumption == Bootstrap \in Models /\ NoModel \notin Models

Lane(r) ==
  IF r[1] \in SearchCallers THEN "search"
  ELSE IF r[1] \in VideoCallers THEN "video_preprocess" ELSE "legacy"

VARIABLES
  running,    \* slots in use
  admitted,   \* requests admitted, per managed lane
  queue,      \* requests waiting for a slot, per managed lane
  st,         \* where each request is in the handler
  gone,       \* requests whose task was cancelled during inference
  caller,     \* phase, attempt and model of each caller
  up,         \* whether the endpoint accepts requests
  loaded,     \* the models of the runtime registry
  synced,     \* whether a reload has succeeded since the start
  row,        \* the model_release row; its changes are the environment's
  reload      \* the reload in progress: its reason and the row it has read
slots == <<running, admitted, queue, st, gone>>
models == <<up, loaded, synced, row, reload>>
vars == <<running, admitted, queue, st, gone, caller, up, loaded, synced, row, reload>>

\* The first row, or none where the endpoint has no database.
NoRow == [active |-> NoModel, previous |-> NoModel, candidate |-> NoModel]
FirstRow == [NoRow EXCEPT !.active = Bootstrap]

NoCall == [phase |-> "idle", attempt |-> 1, model |-> NoModel]
NoReload == [by |-> "none", row |-> NoRow]

Init ==
  /\ running = 0
  /\ admitted = [l \in Managed |-> 0]
  /\ queue = [l \in Managed |-> <<>>]
  /\ st = [r \in Requests |-> "none"]
  /\ gone = {}
  /\ caller = [c \in Callers |-> NoCall]
  /\ up = FALSE
  /\ loaded = {}
  /\ synced = FALSE
  /\ row \in {NoRow, FirstRow}
  /\ reload = [NoReload EXCEPT !.by = "bootstrap"]

Waiting(l) == {queue[l][i] : i \in DOMAIN queue[l]}
HasWaiters == \E l \in Managed : queue[l] # <<>>
CanGrantImmediately == running < MaxConcurrency /\ ~HasWaiters
Holders == {r \in Requests : st[r] \in {"granted", "starting", "encoding"}}
Admitted(l) ==
  {r \in Requests : Lane(r) = l /\ st[r] \in {"waiting", "granted", "starting", "encoding"}}

(***************************************************************************)
(* Grants.  The loop hands out the free slots: all of the search queue     *)
(* first, then the video queue, each in order of arrival.                  *)
(***************************************************************************)

Least(a, b) == IF a < b THEN a ELSE b

\* Mutation: the video queue is served first.
GrantedVideoFirst(n, q, l) ==
  LET video == Least(MaxConcurrency - n, Len(q["video_preprocess"]))
  IN  IF l = "video_preprocess" THEN video
      ELSE Least(MaxConcurrency - n - video, Len(q["search"]))

\* Mutation: a freed slot is not handed on.
GrantedNever(n, q, l) == 0

\* How many waiters of a lane the loop grants when `n` slots are in use.
Granted(n, q, l) ==
  LET search == Least(MaxConcurrency - n, Len(q["search"]))
  IN  IF l = "search" THEN search
      ELSE Least(MaxConcurrency - n - search, Len(q["video_preprocess"]))

\* The loop, from `n` slots in use, queues `q` and request states `s`.
GrantWaiters(n, q, s) ==
  LET take(l) == Granted(n, q, l)
      chosen == UNION {{q[l][i] : i \in 1..take(l)} : l \in Managed}
  IN  /\ running' = n + take("search") + take("video_preprocess")
      /\ queue' = [l \in Managed |-> SubSeq(q[l], take(l) + 1, Len(q[l]))]
      /\ st' = [r \in Requests |-> IF r \in chosen THEN "granted" ELSE s[r]]

\* The request leaves its slot and its lane.
FreeSlot(r) == GrantWaiters(running - 1, queue, [st EXCEPT ![r] = "none"])
LeaveLane(r) ==
  admitted' = IF Lane(r) \in Managed THEN [admitted EXCEPT ![Lane(r)] = @ - 1] ELSE admitted

(***************************************************************************)
(* Clients.  A 503 or a timeout is worth another attempt only to the       *)
(* managed clients, a timeout only to the search client.                   *)
(***************************************************************************)

SearchRetries == {"503", "timeout"}
VideoRetries == {"503"}
LegacyRetries == {}

Retryable(c, call, answer) ==
  /\ answer \in CASE c \in SearchCallers -> SearchRetries
                  [] c \in VideoCallers -> VideoRetries
                  [] OTHER -> LegacyRetries
  /\ call.attempt <= MaxRetries[Lane(<<c, call.attempt>>)]

\* What a call becomes with an answer: it is tried again, or it is over.
After(c, call, answer) ==
  IF Retryable(c, call, answer) THEN [call EXCEPT !.phase = "backoff"] ELSE NoCall

\* The answer to a request reaches its caller if the caller still waits for it.
Awaited(r) == caller[r[1]].phase = "calling" /\ caller[r[1]].attempt = r[2]
Answer(r, answer) ==
  caller' = IF Awaited(r) THEN [caller EXCEPT ![r[1]] = After(r[1], @, answer)] ELSE caller

Named(release) == {release.active, release.previous, release.candidate} \ {NoModel}
Targets(release) == IF release = NoRow THEN {Bootstrap} ELSE Named(release)
Active(release) == IF release = NoRow THEN Bootstrap ELSE release.active

\* The calls a caller may make next: a first attempt for a model that serves, or the same
\* call again after its backoff.  (Bound: a caller has one request of each attempt in the
\* endpoint, the ones it gave up on included.)
Calls(c) ==
  {call \in [phase : {"calling"}, attempt : Attempts, model : Models] :
     /\ st[<<c, call.attempt>>] = "none"
     /\ \/ /\ caller[c].phase = "idle"
           /\ call.attempt = 1 /\ call.model \in Targets(row) \ {row.candidate}
        \/ /\ caller[c].phase = "backoff"
           /\ call.attempt = caller[c].attempt + 1 /\ call.model = caller[c].model}
CallIs(c, call) == caller' = [caller EXCEPT ![c] = call]

\* A process that is down, or a model that is not loaded, uses no slot.
Refuse(c) ==
  /\ \E call \in Calls(c) :
       \/ ~up /\ CallIs(c, After(c, call, "connection error"))
       \/ up /\ call.model \notin loaded /\ CallIs(c, After(c, call, "503"))
  /\ UNCHANGED <<slots, models>>

SendLegacy(c) ==
  /\ c \in LegacyCallers /\ up
  /\ \E call \in Calls(c) :
       /\ call.model \in loaded
       /\ IF CanGrantImmediately
          THEN /\ running' = running + 1
               /\ st' = [st EXCEPT ![<<c, call.attempt>>] = "starting"]
               /\ CallIs(c, call)
          ELSE CallIs(c, After(c, call, "503")) /\ UNCHANGED <<running, st>>
  /\ UNCHANGED <<admitted, queue, gone, models>>

\* A slot now, or a place in the queue.
AcquireSlot(r) ==
  IF CanGrantImmediately
  THEN running' = running + 1 /\ st' = [st EXCEPT ![r] = "starting"] /\ UNCHANGED queue
  ELSE GrantWaiters(running, [queue EXCEPT ![Lane(r)] = Append(@, r)],
                    [st EXCEPT ![r] = "waiting"])

SendManaged(c) ==
  /\ c \notin LegacyCallers /\ up
  /\ \E call \in Calls(c) :
       LET r == <<c, call.attempt>>  l == Lane(r)
       IN  /\ call.model \in loaded
           /\ IF admitted[l] >= RequestLimit[l]
              THEN CallIs(c, After(c, call, "503")) /\ UNCHANGED <<running, admitted, queue, st>>
              ELSE /\ admitted' = [admitted EXCEPT ![l] = @ + 1]
                   /\ AcquireSlot(r)
                   /\ CallIs(c, call)
  /\ UNCHANGED <<gone, models>>

\* The client stops waiting; the endpoint does not notice.
ClientTimeout(c) ==
  /\ caller[c].phase = "calling"
  /\ CallIs(c, After(c, caller[c], "timeout"))
  /\ UNCHANGED <<slots, models>>

(***************************************************************************)
(* A request in the endpoint.                                              *)
(***************************************************************************)

Resume(r) ==
  /\ st[r] = "granted"
  /\ st' = [st EXCEPT ![r] = "starting"]
  /\ UNCHANGED <<running, admitted, queue, gone, caller, models>>

WithoutRequest(q, r) ==
  LET k == CHOOSE k \in DOMAIN q : q[k] = r
  IN  SubSeq(q, 1, k - 1) \o SubSeq(q, k + 1, Len(q))

\* Mutation: a timeout that lost the race against a grant forgets the slot.
WithdrawForgets(r) ==
  /\ st[r] \in {"waiting", "granted"}
  /\ queue' = [queue EXCEPT ![Lane(r)] = IF st[r] = "waiting" THEN WithoutRequest(@, r) ELSE @]
  /\ st' = [st EXCEPT ![r] = "none"]
  /\ LeaveLane(r)
  /\ \E answer \in {"503", "connection error"} : Answer(r, answer)
  /\ UNCHANGED <<running, gone, models>>

\* The wait times out (503) or the task is cancelled: an entry still in the queue is taken out,
\* a slot granted behind the task's back is given back.
Withdraw(r) ==
  /\ st[r] \in {"waiting", "granted"}
  /\ IF st[r] = "waiting"
     THEN /\ queue' = [queue EXCEPT ![Lane(r)] = WithoutRequest(@, r)]
          /\ st' = [st EXCEPT ![r] = "none"]
          /\ UNCHANGED running
     ELSE FreeSlot(r)
  /\ LeaveLane(r)
  /\ \E answer \in {"503", "connection error"} : Answer(r, answer)
  /\ UNCHANGED <<gone, models>>

\* Cancelled during inference: the task waits for its thread before it gives back the slot.
CancelInference(r) ==
  /\ st[r] \in {"starting", "encoding"} /\ r \notin gone
  /\ gone' = gone \union {r}
  /\ UNCHANGED <<running, admitted, queue, st, caller, models>>

Finish(r, answer) ==
  /\ FreeSlot(r)
  /\ LeaveLane(r)
  /\ Answer(r, IF r \in gone THEN "connection error" ELSE answer)
  /\ gone' = gone \ {r}
  /\ UNCHANGED models

\* The thread looks the model up again: a reload may have dropped it.  (Which model a request
\* names that nobody waits for any more is left open.)
LookUp(r) ==
  /\ st[r] = "starting"
  /\ \/ /\ Awaited(r) => caller[r[1]].model \in loaded
        /\ st' = [st EXCEPT ![r] = "encoding"]
        /\ UNCHANGED <<running, admitted, queue, gone, caller, models>>
     \/ /\ Awaited(r) => caller[r[1]].model \notin loaded
        /\ Finish(r, "503")

\* The runtime answers, or raises.
Encode(r) ==
  /\ st[r] = "encoding"
  /\ \E answer \in {"200", "503"} : Finish(r, answer)

(***************************************************************************)
(* Models.  A reload reads the row, then replaces the registry in one go:  *)
(* it keeps what is loaded, and only the active model must load.           *)
(***************************************************************************)

Boot ==
  /\ reload.by = "bootstrap"
  /\ loaded' \in {{}, {Bootstrap}}
  /\ reload' = [reload EXCEPT !.by = "startup"]
  /\ UNCHANGED <<slots, caller, up, synced, row>>

ReloadRead ==
  /\ \/ reload.by = "startup" /\ reload' = [by |-> "startup read", row |-> row]
     \/ reload.by = "none" /\ up /\ reload' = [by |-> "request read", row |-> row]
  /\ UNCHANGED <<slots, caller, up, loaded, synced, row>>

ReloadEnds == reload' = NoReload /\ up' = TRUE

\* Mutation: an active model that fails to load is skipped like the others.
CanReplaceAny(new) == TRUE

CanReplace(new) ==
  /\ Active(reload.row) \in new
  /\ loaded \intersect Targets(reload.row) \subseteq new

ReloadReplace ==
  /\ reload.by \in {"startup read", "request read"}
  /\ \E new \in SUBSET Targets(reload.row) : CanReplace(new) /\ loaded' = new
  /\ ReloadEnds
  /\ synced' = TRUE
  /\ UNCHANGED <<slots, caller, row>>

\* The row cannot be read, or the active model cannot be loaded: nothing changes, and the
\* start goes on with the model of the settings.
ReloadFails ==
  /\ reload.by \in {"startup read", "request read"}
  /\ ReloadEnds
  /\ UNCHANGED <<slots, caller, loaded, synced, row>>

Restart ==
  /\ up
  /\ running' = 0
  /\ admitted' = [l \in Managed |-> 0]
  /\ queue' = [l \in Managed |-> <<>>]
  /\ st' = [r \in Requests |-> "none"]
  /\ gone' = {}
  /\ caller' = [c \in Callers |-> IF caller[c].phase = "calling" THEN NoCall ELSE caller[c]]
  /\ up' = FALSE
  /\ loaded' = {}
  /\ synced' = FALSE
  /\ reload' = [NoReload EXCEPT !.by = "bootstrap"]
  /\ UNCHANGED row

\* The environment: a candidate opens and cuts over once it is ready, or the release before
\* it is restored once it is.  A deployment waits for the answer to its reload.
ReleaseMoves ==
  /\ row # NoRow /\ up
  /\ \/ /\ row.candidate = NoModel
        /\ \E m \in Models \ Named(row) : row' = [row EXCEPT !.candidate = m]
     \/ /\ row.candidate \in loaded /\ reload = NoReload
        /\ row' = [active |-> row.candidate, previous |-> row.active, candidate |-> NoModel]
     \/ /\ row.candidate = NoModel /\ row.previous \in loaded
        /\ row' = [NoRow EXCEPT !.active = row.previous]
  /\ UNCHANGED <<slots, caller, up, loaded, synced, reload>>

Next ==
  \/ \E c \in Callers :
       Refuse(c) \/ SendLegacy(c) \/ SendManaged(c) \/ ClientTimeout(c)
  \/ \E r \in Requests : Resume(r) \/ Withdraw(r) \/ CancelInference(r) \/ LookUp(r) \/ Encode(r)
  \/ Boot \/ ReloadRead \/ ReloadReplace \/ ReloadFails \/ Restart \/ ReleaseMoves

Spec == Init /\ [][Next]_vars

\* Ready tasks and threads run, clients come back from their backoff, and a start ends.
\* No timeout is needed for any of this.
FairSpec ==
  /\ Spec
  /\ \A c \in Callers :
       WF_vars(caller[c].phase = "backoff" /\ (Refuse(c) \/ SendLegacy(c) \/ SendManaged(c)))
  /\ \A r \in Requests : WF_vars(Resume(r) \/ LookUp(r) \/ Encode(r))
  /\ WF_vars(Boot \/ ReloadRead \/ ReloadReplace \/ ReloadFails)

(***************************************************************************)
(* Properties.                                                             *)
(***************************************************************************)

Phases == {"idle", "calling", "backoff"}
Rows == [active : Models \union {NoModel}, previous : Models \union {NoModel},
         candidate : Models \union {NoModel}]

TypeOK ==
  /\ running \in Nat
  /\ admitted \in [Managed -> Nat]
  /\ queue \in [Managed -> Seq(Requests)]
  /\ st \in [Requests -> {"none", "waiting", "granted", "starting", "encoding"}]
  /\ gone \subseteq Requests
  /\ caller \in [Callers -> [phase : Phases, attempt : Attempts, model : Models \union {NoModel}]]
  /\ up \in BOOLEAN
  /\ loaded \subseteq Models
  /\ synced \in BOOLEAN
  /\ row \in Rows
  /\ reload \in [by : {"none", "bootstrap", "startup", "startup read", "request read"}, row : Rows]

\* The controller's counters are the truth: every slot in use belongs to exactly one request
\* that is about to run or runs a thread, and every admitted request is still in its lane.
\* A slot lost or given back twice, in a race of a timeout with a grant, would break it.
SlotsAccounted ==
  /\ running = Cardinality(Holders)
  /\ running <= MaxConcurrency
LanesAccounted ==
  \A l \in Managed : admitted[l] = Cardinality(Admitted(l)) /\ admitted[l] <= RequestLimit[l]

\* The queues hold exactly the waiting requests, each once, in its own lane.
QueuesAreWaiting ==
  \A l \in Managed :
    /\ \A i, j \in DOMAIN queue[l] : queue[l][i] = queue[l][j] => i = j
    /\ Waiting(l) = {r \in Requests : Lane(r) = l /\ st[r] = "waiting"}

\* No request waits while a slot is free.
NoIdleSlot == HasWaiters => running = MaxConcurrency

\* Admission as a whole: in no race of grants, timeouts, cancellations and restarts does
\* the controller lose or double a slot, a place in a lane or a waiter.
SlotsConserved ==
  TypeOK /\ SlotsAccounted /\ LanesAccounted /\ QueuesAreWaiting /\ NoIdleSlot

\* Who is served: never a video or legacy request past a waiting search request, never a
\* legacy request past any waiter, and within a lane nobody past an earlier one.
ServesInOrder ==
  [][\A r \in Requests :
       r \notin Holders /\ r \in Holders' =>
         /\ Lane(r) # "search" => queue'["search"] = <<>>
         /\ Lane(r) = "legacy" => ~HasWaiters
         /\ \A l \in Managed : \A i \in DOMAIN queue[l] :
              r = queue[l][i] => \A j \in 1..(i - 1) : queue[l][j] \in Holders']_vars

\* While deployments wait for their reloads, the endpoint serves the active model whatever
\* moves the row between the read of a reload and its end.  A start whose reload failed is
\* the exception: it serves the model of the settings until the next reload.
ActiveIsServed == up /\ synced => Active(row) \in loaded

\* A search call ends without the help of a timeout: no slot and no wakeup gets lost, and
\* nothing overtakes it for ever.
SearchCallsEnd == \A c \in SearchCallers : caller[c].phase = "calling" ~> caller[c].phase # "calling"
=============================================================================
