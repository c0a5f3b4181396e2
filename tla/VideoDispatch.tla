--------------------------- MODULE VideoDispatch ---------------------------
(***************************************************************************)
(* One paid video per round: the admission manifest of each lane           *)
(* (runtime_video_admission.py), the submission of a job, its dispatch     *)
(* outbox, and the polling of its task (runtime_video_dispatch.py,         *)
(* runtime_video_dispatch_outbox.py, runtime_video_routes.py).             *)
(*                                                                         *)
(* A lane is a manifest file with a lock of its own; each round of a lane  *)
(* has a manifest, and earlier rounds are archived.  A job is one run of   *)
(* the submission route.  Its handler writes four files: the manifest      *)
(* (under the lane's lock), the outbox, the task state and the safe        *)
(* manifest of the job (with no lock between them).  Graph appends are     *)
(* atomic; a command that made one still has its manifest to write.        *)
(***************************************************************************)
EXTENDS Naturals, FiniteSets

CONSTANTS Lanes,      \* manifest files
          Default,    \* the lane that can move on to another shot
          Jobs,       \* submissions
          Limit,      \* lanes that may be active together
          None,       \* no manifest, no job
          MaxRounds,  \* bound: rounds of a lane
          Sources,    \* what a lane's shot may look like in the graph
          MayCrash    \* whether handlers may end between two writes

ASSUME VideoConstants ==
  /\ Default \in Lanes /\ None \notin Jobs
  /\ Limit \in Nat /\ MaxRounds \in Nat \ {0}
  /\ MayCrash \in BOOLEAN

VARIABLES
  manifest,  \* the lane's manifest.json
  history,   \* its archived manifests
  source,    \* the shot, its references and its keyframe, as they are now
  graph,     \* nodes of the production graph made from this lane's rounds
  command,   \* the command that holds the lane's lock between two writes
  job,       \* the handler of each submission
  outbox,    \* video_dispatch_outbox.json
  safe,      \* video_generation_safe_manifest.json
  task,      \* the jobs with a video_task_state.json
  media,     \* the jobs whose video is on disk
  provider   \* what the provider knows of the job

lane == <<manifest, history, source, graph, command>>
files == <<outbox, safe, task, media>>
vars == <<lane, job, files, provider>>
-----------------------------------------------------------------------------
Rounds == 1 .. MaxRounds

ItemStates == {"planned", "reserved", "dispatch_prepared", "reconcile_required",
               "processing", "candidate", "approved", "rejected", "failed"}

Manifest == [round : Rounds, source : Sources,
             state : ItemStates,
             job : Jobs \cup {None}, sent : BOOLEAN, known : BOOLEAN,
             candidate : Jobs \cup {None}]

ASSUME NoneIsNoManifest == None \notin Manifest

Node == [kind : {"candidate", "approved"}, round : Rounds, job : Jobs]

HandlerPhases == {"free", "asked", "prepared", "claimed", "marked", "sending", "waiting",
                  "answered", "recorded", "noted", "failing", "failed", "done"}

Outbox == [state : {"none", "prepared", "dispatching", "submitted", "reconcile_required"},
           task : BOOLEAN]

(* The blocks of a safe manifest that ask for reconciliation: an HTTP 400   *)
(* that names an invalid parameter, or any other error.                     *)
Errors == {"rejected", "unready"}

Safe == {"none", "blocked", "submitted", "over"} \cup Errors

Init ==
  /\ manifest = [l \in Lanes |-> None]
  /\ history = [l \in Lanes |-> {}]
  /\ source \in [Lanes -> Sources]
  /\ graph = [l \in Lanes |-> {}]
  /\ command = [l \in Lanes |-> "none"]
  /\ job = [j \in Jobs |-> [phase |-> "free", lane |-> Default, round |-> 1, error |-> "unready"]]
  /\ outbox = [j \in Jobs |-> [state |-> "none", task |-> FALSE]]
  /\ safe = [j \in Jobs |-> "none"]
  /\ task = {}
  /\ media = {}
  /\ provider = [j \in Jobs |-> "nothing"]
-----------------------------------------------------------------------------
(* The manifest of a lane.                                                  *)
Is(l, states) == manifest[l] # None /\ manifest[l].state \in states

Moves(l, state) == manifest' = [manifest EXCEPT ![l].state = state]

Free(l) == command[l] = "none"

Current(l) == manifest[l] # None /\ manifest[l].source = source[l]

GraphFree == \A l \in Lanes : command[l] # "switching"

NewRound(l, r) ==
  [round |-> r, source |-> source[l], state |-> "planned",
   job |-> None, sent |-> FALSE, known |-> FALSE, candidate |-> None]

(* A submission that may have reached the provider is taken to have made no *)
(* task: _assert_recoverable_new_round_source.                              *)
Recoverable(l) ==
  /\ Is(l, {"reconcile_required"})
  /\ manifest[l].sent /\ ~manifest[l].known
  /\ LET j == manifest[l].job
     IN  \/ safe[j] = "rejected"
         \/ safe[j] = "unready" /\ outbox[j] = [state |-> "reconcile_required", task |-> FALSE]

(* _video_manifest_consumes_lane                                            *)
Consumes(l) ==
  /\ Is(l, {"reserved", "dispatch_prepared", "reconcile_required", "processing"})
  /\ ~(Current(l) /\ Recoverable(l))

Others(l) == {k \in Lanes \ {l} : Consumes(k)}
-----------------------------------------------------------------------------
(* Commands.  Each one is previewed again and then confirmed, under the     *)
(* lock of its lane; what it reads of other lanes, of the graph and of the  *)
(* jobs may change before it writes.                                        *)
Compile(l) ==
  /\ Free(l) /\ manifest[l] = None
  /\ manifest' = [manifest EXCEPT ![l] = NewRound(l, 1)]
  /\ UNCHANGED <<history, source, graph, command, job, files, provider>>

CheckReserve(l) ==
  /\ Free(l) /\ Is(l, {"planned"}) /\ Current(l)
  /\ Cardinality(Others(l)) < Limit
  /\ command' = [command EXCEPT ![l] = "reserving"]
  /\ UNCHANGED <<manifest, history, source, graph, job, files, provider>>

WriteReserve(l) ==
  /\ command[l] = "reserving"
  /\ Moves(l, "reserved")
  /\ command' = [command EXCEPT ![l] = "none"]
  /\ UNCHANGED <<history, source, graph, job, files, provider>>

(* record_failure: of a task that is known, or of what was never started.   *)
RecordFailure(l) ==
  /\ Free(l) /\ Current(l)
  /\ \/ Is(l, {"processing"})
     \/ Is(l, {"reserved"}) /\ manifest[l].job = None /\ ~manifest[l].sent
  /\ Moves(l, "failed")
  /\ UNCHANGED <<history, source, graph, command, job, files, provider>>

(* record_candidate: its media is on disk and is projected into the graph   *)
(* before the manifest says so.  A faulty one could take any job's media.   *)
CandidateNode(l, j) == [kind |-> "candidate", round |-> manifest[l].round, job |-> j]

Projects(l, j) ==
  /\ Free(l) /\ Is(l, {"processing"}) /\ Current(l) /\ GraphFree
  /\ j \in media
  /\ graph' = [graph EXCEPT ![l] = @ \cup {CandidateNode(l, j)}]
  /\ command' = [command EXCEPT ![l] = "recording"]
  /\ UNCHANGED <<manifest, history, source, job, files, provider>>

ProjectsAnyJob(l, j) == Projects(l, j)

ProjectCandidate(l, j) == manifest[l] # None /\ manifest[l].job = j /\ Projects(l, j)

WriteCandidate(l) ==
  /\ command[l] = "recording"
  /\ \E j \in Jobs :
       /\ CandidateNode(l, j) \in graph[l]
       /\ manifest' = [manifest EXCEPT ![l].state = "candidate", ![l].candidate = j]
  /\ command' = [command EXCEPT ![l] = "none"]
  /\ UNCHANGED <<history, source, graph, job, files, provider>>

ApprovedNode(l) ==
  [kind |-> "approved", round |-> manifest[l].round, job |-> manifest[l].candidate]

(* _approve_to_graph, then the manifest.                                    *)
Promote(l) ==
  /\ Free(l) /\ Is(l, {"candidate"}) /\ Current(l) /\ GraphFree
  /\ ApprovedNode(l) \notin graph[l]
  /\ graph' = [graph EXCEPT ![l] = @ \cup {ApprovedNode(l)}]
  /\ command' = [command EXCEPT ![l] = "approving"]
  /\ UNCHANGED <<manifest, history, source, job, files, provider>>

WriteApproval(l) ==
  /\ command[l] = "approving"
  /\ Moves(l, "approved")
  /\ command' = [command EXCEPT ![l] = "none"]
  /\ UNCHANGED <<history, source, graph, job, files, provider>>

(* _reconcile_existing_approval: the graph is ahead of the manifest.        *)
ReconcileApproval(l) ==
  /\ Free(l) /\ Is(l, {"candidate"})
  /\ ApprovedNode(l) \in graph[l]
  /\ Moves(l, "approved")
  /\ UNCHANGED <<history, source, graph, command, job, files, provider>>

Reject(l) ==
  /\ Free(l) /\ Is(l, {"candidate"}) /\ Current(l)
  /\ Moves(l, "rejected")
  /\ UNCHANGED <<history, source, graph, command, job, files, provider>>

(* The commands that begin another round: recompile_current,                *)
(* create_new_round, create_comparison_round and create_next_shot.  The     *)
(* first needs a graph that has any other version than the manifest names:  *)
(* anyone may have appended to it, so that this is no condition here.       *)
MayRecompile(l) ==
  \/ Is(l, {"planned", "reserved"}) /\ manifest[l].job = None /\ ~manifest[l].sent
  \/ Recoverable(l)

MayRetry(l) == Current(l) /\ Recoverable(l)

MayCompare(l) ==
  Current(l) /\ Is(l, {"approved"}) /\ manifest[l].sent /\ ApprovedNode(l) \in graph[l]

MayGoOn(l) ==
  l = Default /\ (MayCompare(l) \/ (Current(l) /\ Is(l, {"failed", "rejected"})))

(* A faulty switch could archive nothing.                                   *)
ArchivesNothing(l) ==
  /\ Free(l) /\ GraphFree
  /\ MayRecompile(l) \/ MayRetry(l) \/ MayCompare(l) \/ MayGoOn(l)
  /\ manifest[l].round < MaxRounds
  /\ command' = [command EXCEPT ![l] = "switching"]
  /\ UNCHANGED <<manifest, history, source, graph, job, files, provider>>

(* _archive_manifest_once, under the lock of the graph.                     *)
Archive(l) ==
  /\ Free(l) /\ GraphFree
  /\ MayRecompile(l) \/ MayRetry(l) \/ MayCompare(l) \/ MayGoOn(l)
  /\ manifest[l].round < MaxRounds
  /\ \A m \in history[l] : m.round = manifest[l].round => m = manifest[l]
  /\ history' = [history EXCEPT ![l] = @ \cup {manifest[l]}]
  /\ command' = [command EXCEPT ![l] = "switching"]
  /\ UNCHANGED <<manifest, source, graph, job, files, provider>>

(* A faulty one could keep the job of the round.                            *)
KeepsJob(l) ==
  /\ command[l] = "switching"
  /\ manifest' = [manifest EXCEPT ![l].round = @ + 1, ![l].state = "planned"]
  /\ command' = [command EXCEPT ![l] = "none"]
  /\ UNCHANGED <<history, source, graph, job, files, provider>>

WriteRound(l) ==
  /\ command[l] = "switching"
  /\ manifest' = [manifest EXCEPT ![l] = NewRound(l, manifest[l].round + 1)]
  /\ command' = [command EXCEPT ![l] = "none"]
  /\ UNCHANGED <<history, source, graph, job, files, provider>>

(* The shot, an approved reference or the keyframe changes, or changes back.*)
ChangeSource(l) ==
  /\ GraphFree
  /\ \E s \in Sources \ {source[l]} : source' = [source EXCEPT ![l] = s]
  /\ UNCHANGED <<manifest, history, graph, command, job, files, provider>>

CrashCommand(l) ==
  /\ MayCrash /\ ~Free(l)
  /\ command' = [command EXCEPT ![l] = "none"]
  /\ UNCHANGED <<manifest, history, source, graph, job, files, provider>>
-----------------------------------------------------------------------------
(* The submission of a job.                                                 *)
At(j, phase) == job[j].phase = phase
Goes(j, phase) == job' = [job EXCEPT ![j].phase = phase]
Fails(j, e) == job' = [job EXCEPT ![j].phase = "failing", ![j].error = e]

LaneOf(j) == job[j].lane

(* The manifest of the job's lane is still the one it was sent for.         *)
Enforced(l, r) ==
  /\ Is(l, {"reserved", "dispatch_prepared", "reconcile_required", "processing"})
  /\ manifest[l].round = r /\ Current(l)

Ask(j, l) ==
  /\ At(j, "free")
  /\ manifest[l] # None /\ Enforced(l, manifest[l].round)
  /\ job' = [job EXCEPT ![j].phase = "asked", ![j].lane = l, ![j].round = manifest[l].round]
  /\ UNCHANGED <<lane, files, provider>>

(* The gate is closed, or the provider is not configured.                   *)
Block(j) ==
  /\ At(j, "asked")
  /\ safe' = [safe EXCEPT ![j] = "blocked"]
  /\ Goes(j, "done")
  /\ UNCHANGED <<lane, outbox, task, media, provider>>

Prepare(j) ==
  /\ At(j, "asked")
  /\ outbox' = [outbox EXCEPT ![j].state = "prepared"]
  /\ Goes(j, "prepared")
  /\ UNCHANGED <<lane, safe, task, media, provider>>

(* claim_video_admission_dispatch; a faulty one takes a claimed round too.  *)
Claims(j) ==
  manifest' = [manifest EXCEPT ![LaneOf(j)].state = "dispatch_prepared", ![LaneOf(j)].job = j]

ClaimsClaimed(j) ==
  /\ At(j, "prepared") /\ Free(LaneOf(j))
  /\ Enforced(LaneOf(j), job[j].round)
  /\ Is(LaneOf(j), {"reserved", "dispatch_prepared", "reconcile_required"})
  /\ Claims(j)
  /\ Goes(j, "claimed")
  /\ UNCHANGED <<history, source, graph, command, files, provider>>

Claim(j) ==
  /\ At(j, "prepared") /\ Free(LaneOf(j))
  /\ Enforced(LaneOf(j), job[j].round)
  /\ Is(LaneOf(j), {"reserved"})
  /\ Claims(j)
  /\ Goes(j, "claimed")
  /\ UNCHANGED <<history, source, graph, command, files, provider>>

ClaimRefused(j) ==
  /\ At(j, "prepared") /\ Free(LaneOf(j))
  /\ ~(Enforced(LaneOf(j), job[j].round) /\ Is(LaneOf(j), {"reserved"}))
  /\ Goes(j, "done")
  /\ UNCHANGED <<lane, files, provider>>

(* mark_video_admission_network_started                                     *)
MarkStarted(j) ==
  /\ At(j, "claimed") /\ Free(LaneOf(j))
  /\ Is(LaneOf(j), {"dispatch_prepared"}) /\ manifest[LaneOf(j)].job = j
  /\ manifest' = [manifest EXCEPT ![LaneOf(j)].state = "reconcile_required",
                                  ![LaneOf(j)].sent = TRUE]
  /\ Goes(j, "marked")
  /\ UNCHANGED <<history, source, graph, command, files, provider>>

MarksNothing(j) ==
  /\ At(j, "marked")
  /\ Goes(j, "sending")
  /\ UNCHANGED <<lane, files, provider>>

(* mark_network_may_have_started; a faulty one comes after the call.        *)
MarkNetwork(j) ==
  /\ At(j, "marked")
  /\ outbox' = [outbox EXCEPT ![j].state = "dispatching"]
  /\ Goes(j, "sending")
  /\ UNCHANGED <<lane, safe, task, media, provider>>

(* registry.submit: the call, what the provider does, and what comes back.  *)
Send(j) ==
  /\ At(j, "sending")
  /\ provider' = [provider EXCEPT ![j] = "sent"]
  /\ Goes(j, "waiting")
  /\ UNCHANGED <<lane, files>>

ProviderAccepts(j) ==
  /\ At(j, "waiting") /\ provider[j] = "sent"
  /\ provider' = [provider EXCEPT ![j] = "accepted"]
  /\ UNCHANGED <<lane, job, files>>

ProviderFinishes(j, result) ==
  /\ provider[j] = "accepted"
  /\ provider' = [provider EXCEPT ![j] = result]
  /\ UNCHANGED <<lane, job, files>>

Answer(j) ==
  /\ At(j, "waiting") /\ provider[j] # "sent"
  /\ Goes(j, "answered")
  /\ UNCHANGED <<lane, files, provider>>

(* No account, no credential, no connection, no answer in time, or an error.*)
CallFails(j, e) ==
  /\ \/ At(j, "sending") /\ e = "unready"
     \/ At(j, "waiting") /\ (e = "rejected" => provider[j] = "sent")
  /\ Fails(j, e)
  /\ UNCHANGED <<lane, files, provider>>

RecordTask(j) ==
  /\ At(j, "answered")
  /\ outbox' = [outbox EXCEPT ![j] = [state |-> "submitted", task |-> TRUE]]
  /\ Goes(j, "recorded")
  /\ UNCHANGED <<lane, safe, task, media, provider>>

(* mark_video_admission_task_recorded, or its error when another round has  *)
(* taken the manifest's place.                                              *)
NoteTask(j) ==
  /\ At(j, "recorded") /\ Free(LaneOf(j))
  /\ Is(LaneOf(j), {"reconcile_required"}) /\ manifest[LaneOf(j)].job = j
  /\ manifest' = [manifest EXCEPT ![LaneOf(j)].state = "processing", ![LaneOf(j)].known = TRUE]
  /\ Goes(j, "noted")
  /\ UNCHANGED <<history, source, graph, command, files, provider>>

NoteRefused(j) ==
  /\ At(j, "recorded") /\ Free(LaneOf(j))
  /\ manifest[LaneOf(j)].job # j
  /\ Fails(j, "unready")
  /\ UNCHANGED <<lane, files, provider>>

(* The task state and the safe manifest.                                    *)
Finish(j) ==
  /\ At(j, "noted")
  /\ task' = task \cup {j}
  /\ safe' = [safe EXCEPT ![j] = "submitted"]
  /\ Goes(j, "done")
  /\ UNCHANGED <<lane, outbox, media, provider>>

(* mark_reconcile_required, then the safe manifest of a failed submission.  *)
FailOutbox(j) ==
  /\ At(j, "failing")
  /\ outbox' = [outbox EXCEPT ![j].state = "reconcile_required"]
  /\ Goes(j, "failed")
  /\ UNCHANGED <<lane, safe, task, media, provider>>

FailSafe(j) ==
  /\ At(j, "failed")
  /\ safe' = [safe EXCEPT ![j] = job[j].error]
  /\ job' = [job EXCEPT ![j].phase = "done", ![j].error = "unready"]
  /\ UNCHANGED <<lane, outbox, task, media, provider>>

CrashSubmit(j) ==
  /\ MayCrash
  /\ job[j].phase \notin {"free", "done"}
  /\ Goes(j, "done")
  /\ UNCHANGED <<lane, files, provider>>
-----------------------------------------------------------------------------
(* Polling, in one step: its files are those of the job alone.  Without a   *)
(* task state the task is taken from the outbox, while it says submitted.   *)
Poll(j, news) ==
  /\ j \in task \/ outbox[j].state = "submitted"
  /\ task' = task \cup {j}
  /\ safe' = [safe EXCEPT ![j] = news]
  /\ UNCHANGED <<lane, job, outbox, provider>>

PollFails(j, e) == Poll(j, e) /\ UNCHANGED media

PollRunning(j) == provider[j] = "accepted" /\ Poll(j, "submitted") /\ UNCHANGED media

PollEnds(j) ==
  /\ provider[j] \in {"good", "empty"}
  /\ media' = IF provider[j] = "good" THEN media \cup {j} ELSE media
  /\ Poll(j, "over")
-----------------------------------------------------------------------------
Commands(l) ==
  \/ Compile(l) \/ CheckReserve(l) \/ WriteReserve(l) \/ RecordFailure(l)
  \/ \E j \in Jobs : ProjectCandidate(l, j)
  \/ WriteCandidate(l)
  \/ Promote(l) \/ WriteApproval(l) \/ ReconcileApproval(l) \/ Reject(l)
  \/ Archive(l) \/ WriteRound(l) \/ CrashCommand(l)

Submission(j) ==
  \/ \E l \in Lanes : Ask(j, l)
  \/ Block(j) \/ Prepare(j) \/ Claim(j) \/ ClaimRefused(j)
  \/ MarkStarted(j) \/ MarkNetwork(j) \/ Send(j) \/ Answer(j)
  \/ \E e \in Errors : CallFails(j, e)
  \/ RecordTask(j) \/ NoteTask(j) \/ NoteRefused(j) \/ Finish(j)
  \/ FailOutbox(j) \/ FailSafe(j) \/ CrashSubmit(j)

Polling(j) == PollRunning(j) \/ PollEnds(j) \/ \E e \in Errors : PollFails(j, e)

Next ==
  \/ \E l \in Lanes : Commands(l) \/ ChangeSource(l)
  \/ \E j \in Jobs : \/ Submission(j) \/ Polling(j) \/ ProviderAccepts(j)
                      \/ \E r \in {"good", "empty"} : ProviderFinishes(j, r)

Spec == Init /\ [][Next]_vars
-----------------------------------------------------------------------------
(* Every file has its type, a manifest says of its job only what its state  *)
(* allows, each submission is in a step of its handler, and a lane with an  *)
(* unfinished command has a manifest.                                       *)
WellFormed(m) ==
  /\ m.known => m.sent
  /\ m.sent => m.job # None
  /\ m.state \in {"planned", "reserved"} => m.job = None
  /\ m.candidate # None <=> m.state \in {"candidate", "approved", "rejected"}

TypeOK ==
  /\ \A l \in Lanes : \A m \in history[l] \cup ({manifest[l]} \ {None}) : WellFormed(m)
  /\ manifest \in [Lanes -> Manifest \cup {None}]
  /\ history \in [Lanes -> SUBSET Manifest]
  /\ graph \in [Lanes -> SUBSET Node]
  /\ \A l \in Lanes : command[l] # "none" => manifest[l] # None
  /\ source \in [Lanes -> Sources]
  /\ command \in [Lanes -> {"none", "reserving", "recording", "approving", "switching"}]
  /\ job \in [Jobs -> [phase : HandlerPhases, lane : Lanes, round : Rounds, error : Errors]]
  /\ outbox \in [Jobs -> Outbox]
  /\ safe \in [Jobs -> Safe]
  /\ task \subseteq Jobs /\ media \subseteq Jobs
  /\ provider \in [Jobs -> {"nothing", "sent", "accepted", "good", "empty"}]

Called(j) == provider[j] # "nothing"

Round(l, r) == {m \in history[l] \cup ({manifest[l]} \ {None}) : m.round = r}

(* max_dispatches is 1: however submissions, commands and deaths fall       *)
(* together, one round of one lane is sent to the provider once.            *)
OneDispatchPerRound ==
  \A i, j \in Jobs :
    Called(i) /\ Called(j) /\ LaneOf(i) = LaneOf(j) /\ job[i].round = job[j].round => i = j

(* What may have been sent can be seen, in the outbox of the job and in the *)
(* ledger of its round, after a crash at any point and after the round was  *)
(* archived.                                                                *)
CallsAreOnRecord ==
  \A j \in Jobs : Called(j) =>
    /\ outbox[j].state \notin {"none", "prepared"}
    /\ \E m \in Round(LaneOf(j), job[j].round) : m.job = j /\ m.sent

(* The graph and the ledger: what the ledger calls approved is in the       *)
(* graph, what it shows as a candidate was projected, and the graph shows   *)
(* only media that the job of that very round produced.                     *)
GraphAgrees ==
  \A l \in Lanes :
    /\ \A m \in history[l] \cup ({manifest[l]} \ {None}) :
         /\ m.state \in {"candidate", "approved", "rejected"} =>
              [kind |-> "candidate", round |-> m.round, job |-> m.candidate] \in graph[l]
         /\ m.state = "approved" =>
              [kind |-> "approved", round |-> m.round, job |-> m.candidate] \in graph[l]
    /\ \A n \in graph[l] :
         n.job \in media /\ LaneOf(n.job) = l /\ job[n.job].round = n.round

(* Rounds that were replaced are all archived, once each.                   *)
RoundsKept ==
  \A l \in Lanes : manifest[l] # None =>
    \A r \in 1 .. manifest[l].round - 1 : Cardinality({m \in history[l] : m.round = r}) = 1

(* A round is replaced by an independent one only when no task of it exists *)
(* at the provider: the test test_provider_not_ready_new_round_rejects_     *)
(* uncertain_network_identity.                                              *)
ReplacedRoundHasNoTask ==
  \A l \in Lanes : \A m \in history[l] :
    m.state = "reconcile_required" => provider[m.job] \in {"nothing", "sent"}
=============================================================================
