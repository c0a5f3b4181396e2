-------------------------- MODULE ProductionControl --------------------------
(***************************************************************************)
(* The production-control ledger of one project (ProductionControlHarness) *)
(* and the routes that drive it (runtime_production_control.py): mission,  *)
(* plan, approval, and the actions on a run.                               *)
(*                                                                         *)
(* A route holds the control lock from loading the ledger to its answer,   *)
(* so there is at most one job at a time.  Yet an action is several        *)
(* commands, each its own durable commit, and a writeback also saves twice *)
(* into the episode aggregate, another file with other writers.  A job may *)
(* stop between any two of these, because a command is refused or because  *)
(* the process dies, and the client may send the request again.            *)
(***************************************************************************)
EXTENDS Naturals, Sequences

CONSTANTS Keys,        \* idempotency keys of the clients
          Runs,        \* the runs, one per task of the plan
          Requests,    \* the requests the clients send
          NoKey,       \* no open human request
          MaxVersion   \* bound: no request is sent once the ledger has this version

VARIABLES
  version,     \* version of the ledger: the number of committed commands
  receipts,    \* receipts of the committed commands
  plan,        \* mission and plan
  runs,        \* execution and control state of every run
  candidates,  \* asset candidates in the episode aggregate, per run and key
  shotsFresh,  \* the shots a writeback refers to are still the latest ones
  job,         \* the request that holds the control lock
  done         \* requests that were answered with success

ledger == <<version, receipts, plan, runs>>
vars == <<version, receipts, plan, runs, candidates, shotsFresh, job, done>>
-----------------------------------------------------------------------------
PlanActions == {"mission", "plan", "approve"}
RunActions  == {"progress", "pause", "resume", "retry", "waiting_human", "decide_human",
                "block", "clear_blocker", "provider_gate", "writeback", "complete", "cancel"}

ASSUME ControlConstants ==
  /\ Requests \subseteq [key : Keys, run : Runs, action : PlanActions \cup RunActions]
  /\ NoKey \notin Keys
  /\ MaxVersion \in Nat

ExecutionStates == {"queued", "running", "waiting-human", "retrying", "blocked",
                    "completed", "cancelled"}
ControlStates   == {"active", "pause-requested", "paused", "resume-requested",
                    "cancel-requested"}
Terminal        == {"completed", "cancelled"}

ExecutionNext == [s \in ExecutionStates |->
  CASE s = "queued"        -> {"running", "blocked", "cancelled"}
    [] s = "running"       -> {"waiting-human", "retrying", "blocked", "completed", "cancelled"}
    [] s = "waiting-human" -> {"running", "blocked", "cancelled"}
    [] s = "retrying"      -> {"running", "blocked", "cancelled"}
    [] s = "blocked"       -> {"queued", "running", "cancelled"}
    [] OTHER               -> {}]

ControlNext == [s \in ControlStates |->
  CASE s = "active"           -> {"pause-requested", "cancel-requested"}
    [] s = "pause-requested"  -> {"paused", "cancel-requested"}
    [] s = "paused"           -> {"resume-requested", "cancel-requested"}
    [] s = "resume-requested" -> {"active", "cancel-requested"}
    [] OTHER                  -> {}]

(* A run before its plan is approved, and the run the approval starts.      *)
NotStarted == [execution |-> "none", control |-> "active", attempts |-> 0,
               open |-> NoKey, blocked |-> FALSE]
Started    == [NotStarted EXCEPT !.execution = "running", !.attempts = 1]

(* The combinations of the two axes that are ruled out.                     *)
Consistent(r) ==
  /\ r.execution = "completed" => r.control = "active"
  /\ r.execution = "cancelled" => r.control \in {"active", "cancel-requested"}
  /\ r.control = "resume-requested" => r.execution \notin {"blocked", "completed", "cancelled"}
-----------------------------------------------------------------------------
(* A request turns into a sequence of steps.  draft and finalize save into  *)
(* the episode aggregate, every other step is a command of the ledger.      *)
To(target)      == [kind |-> "transition", target |-> target]
Control(target) == [kind |-> "control", target |-> target]
Record(kind)    == [kind |-> kind, target |-> "none"]

(* A faulty route could put the candidate up for review too early.          *)
FinalizesFirst == <<Record("draft"), Record("register"), Record("writeback"),
                    Record("finalize"), Record("revision"), Record("impact")>>

WritebackSteps == <<Record("draft"), Record("register"), Record("writeback"),
                    Record("revision"), Record("impact"), Record("finalize")>>

Steps(action) ==
  CASE action = "mission"       -> <<Record("mission")>>
    [] action = "plan"          -> <<Record("plan")>>
    [] action = "approve"       -> <<Record("approve")>>
    [] action = "progress"      -> <<To("running")>>
    [] action = "complete"      -> <<To("completed")>>
    [] action = "pause"         -> <<Control("pause-requested"), Control("paused")>>
    [] action = "resume"        -> <<Control("resume-requested"), Control("active")>>
    [] action = "cancel"        -> <<Control("cancel-requested"), To("cancelled")>>
    [] action = "retry"         -> <<To("retrying"), To("running")>>
    [] action = "waiting_human" -> <<To("waiting-human")>>
    [] action = "decide_human"  -> <<Record("decision"), To("running")>>
    [] action = "block"         -> <<To("blocked")>>
    [] action = "clear_blocker" -> <<To("running")>>
    [] action = "provider_gate" -> <<Record("gate")>>
    [] action = "writeback"     -> WritebackSteps

(* The idempotency key of a command: the key of the request and a suffix    *)
(* of its own, except that mission, plan and approval use the bare key.     *)
Slot(action, step) == IF action \in PlanActions THEN <<"bare", 1>> ELSE <<action, step>>

(* A faulty gateway could lose its receipts.                                *)
FindsNothing(key, slot) == {}

Found(key, slot) == {c \in receipts : c.key = key /\ c.slot = slot}

(* The run has an artifact writeback in the ledger (artifact_exists).       *)
WrittenBack(r) == \E c \in receipts : c.digest.run = r /\ c.slot = Slot("writeback", 3)
-----------------------------------------------------------------------------
(* _run_allowed_actions.                                                    *)
Allowed(r, action) ==
  LET run      == runs[r]
      terminal == run.execution \in Terminal
      blocked  == run.blocked \/ run.execution = "blocked"
  IN
  CASE action \in {"progress", "retry", "complete"} -> run.execution = "running" /\ ~blocked
    [] action = "pause"         -> ~terminal /\ ~blocked /\ run.control = "active"
    [] action = "resume"        -> ~terminal /\ ~blocked /\ run.control = "paused"
    [] action = "waiting_human" -> run.execution = "running" /\ run.open = NoKey /\ ~blocked
    [] action = "decide_human"  -> run.execution = "waiting-human" /\ run.open # NoKey
    [] action \in {"block", "provider_gate"} -> ~terminal /\ ~blocked
    [] action = "clear_blocker" -> blocked
    [] action = "writeback"     -> /\ run.execution = "running" /\ ~blocked
                                   /\ ~WrittenBack(r)
    [] action = "cancel"        -> ~terminal

(* A faulty route could let through what was only registered.               *)
ReplaysRegistered(q) ==
  /\ q.action = "writeback"
  /\ Found(q.key, Slot("writeback", 2)) # {}

(* A writeback whose key already wrote back is let through in any state,    *)
(* even of a run that has ended since.                                      *)
WritebackReplay(q) ==
  /\ q.action = "writeback"
  /\ WrittenBack(q.run)
  /\ Found(q.key, Slot("writeback", 3)) # {}

(* What a route checks before its first command.                            *)
Accepts(q, expected) ==
  CASE q.action = "mission" -> TRUE
    [] q.action = "plan"    -> /\ plan.mission
                               /\ plan.revision > 0 /\ expected # 1 => plan.status = "proposed"
    [] q.action = "approve" -> plan.revision > 0
    [] OTHER                -> /\ runs[q.run].execution # "none"
                               /\ Allowed(q.run, q.action) \/ WritebackReplay(q)

(* What a command contains besides its target, fixed before the first one:  *)
(* plan revision, attempt number, or an identity made from the version.     *)
Datum(q, expected) ==
  CASE q.action = "plan"  -> IF plan.revision = 0 \/ expected = 1 THEN 1 ELSE plan.revision + 1
    [] q.action = "approve" -> plan.revision
    [] q.action = "retry" -> runs[q.run].attempts + 1
    [] q.action = "writeback" -> runs[q.run].attempts
    [] q.action \in {"block", "decide_human"} -> version + 1
    [] OTHER              -> 0

Idle == [step |-> 0]

Begin(q, expected) ==
  /\ job = Idle
  /\ version < MaxVersion
  /\ Accepts(q, expected)
  /\ job' = [request |-> q, expected |-> expected,
             datum |-> Datum(q, expected), step |-> 1]
  /\ UNCHANGED <<ledger, candidates, shotsFresh, done>>
-----------------------------------------------------------------------------
(* The command the job has come to.                                         *)
Plays(job_) == job_ # Idle /\ job_.step <= Len(Steps(job_.request.action))
Current     == Steps(job.request.action)[job.step]
IsCommand   == Plays(job) /\ Current.kind \notin {"draft", "finalize"}

CurrentSlot   == Slot(job.request.action, job.step)
CurrentDigest == [run |-> job.request.run, kind |-> Current.kind, target |-> Current.target,
                  datum |-> job.datum]
Prior         == Found(job.request.key, CurrentSlot)

(* Step on: every command executed moves the expected version by one.       *)
Advance == job' = [job EXCEPT !.step = @ + 1, !.expected = @ + 1]

Fail == /\ job' = Idle
        /\ UNCHANGED <<ledger, candidates, shotsFresh, done>>

(* A faulty gateway could take any receipt of the key for the answer.       *)
ReplaysAnyPayload ==
  /\ IsCommand
  /\ Prior # {}
  /\ Advance
  /\ UNCHANGED <<ledger, candidates, shotsFresh, done>>

(* The receipt is looked up before the version is compared: a command that  *)
(* was committed before is answered again, whatever the version is now.     *)
Replay ==
  /\ IsCommand
  /\ \E c \in Prior : c.digest = CurrentDigest
  /\ Advance
  /\ UNCHANGED <<ledger, candidates, shotsFresh, done>>

(* A faulty projection could forget the open request.                       *)
DropsRequestWithBlocker(r, target, key) ==
  [r EXCEPT !.execution = target,
            !.attempts = IF target = "retrying" THEN @ + 1 ELSE @,
            !.open = IF target = "waiting-human" THEN key
                     ELSE IF r.execution = "blocked" THEN NoKey ELSE @,
            !.blocked = target = "blocked"]

(* Transition of run r to target, as apply_event applies it.                *)
Moved(r, target, key) ==
  [r EXCEPT !.execution = target,
            !.attempts = IF target = "retrying" THEN @ + 1 ELSE @,
            !.open = IF target = "waiting-human" THEN key ELSE @,
            !.blocked = IF target = "blocked" THEN TRUE
                        ELSE IF r.execution = "blocked" /\ target \in {"queued", "running"}
                             THEN FALSE ELSE @]

(* What apply_event asks of a transition.                                   *)
CanMove(r, target) ==
  /\ r.execution \notin Terminal
  /\ target \in ExecutionNext[r.execution] \/ (r.execution = "running" /\ target = "running")
  /\ ~(r.execution = "waiting-human" /\ target = "running" /\ r.open # NoKey)
  /\ target = "retrying" => job.datum = r.attempts + 1
  /\ Consistent([r EXCEPT !.execution = target])

CanSteer(r, target) ==
  /\ r.execution \notin Terminal
  /\ target \in ControlNext[r.control]
  /\ Consistent([r EXCEPT !.control = target])

(* What the projection asks of the current command.                         *)
Legal ==
  LET run == runs[job.request.run]
  IN  CASE Current.kind = "mission"    -> ~plan.mission
        [] Current.kind = "plan"       -> plan.status # "approved" /\ job.datum = plan.revision + 1
        [] Current.kind = "approve"    -> plan.status = "proposed" /\ job.datum = plan.revision
        [] Current.kind = "transition" -> CanMove(run, Current.target)
        [] Current.kind = "control"    -> CanSteer(run, Current.target)
        [] Current.kind = "decision"   -> run.open # NoKey
        [] OTHER                       -> TRUE

PlanAfter ==
  CASE Current.kind = "mission" -> [plan EXCEPT !.mission = TRUE]
    [] Current.kind = "plan"    -> [plan EXCEPT !.status = "proposed", !.revision = job.datum]
    [] Current.kind = "approve" -> [plan EXCEPT !.status = "approved"]
    [] OTHER                    -> plan

RunsAfter ==
  LET r == job.request.run
  IN  CASE Current.kind = "approve"    -> [x \in Runs |-> Started]
        [] Current.kind = "transition" -> [runs EXCEPT ![r] = Moved(@, Current.target, job.request.key)]
        [] Current.kind = "control"    -> [runs EXCEPT ![r].control = Current.target]
        [] Current.kind = "decision"   -> [runs EXCEPT ![r].open = NoKey]
        [] OTHER                       -> runs

(* One command, one durable commit: events, receipt and outbox together.    *)
Commit ==
  /\ IsCommand
  /\ Prior = {}
  /\ job.expected = version
  /\ Legal
  /\ version' = version + 1
  /\ receipts' = receipts \cup {[key |-> job.request.key, slot |-> CurrentSlot,
                                 digest |-> CurrentDigest, version |-> version + 1]}
  /\ plan' = PlanAfter
  /\ runs' = RunsAfter
  /\ Advance
  /\ UNCHANGED <<candidates, shotsFresh, done>>

(* The key was used for another payload, the version moved on, or the       *)
(* command is illegal now; the commands before it stay committed.           *)
Refuse ==
  /\ IsCommand
  /\ \/ \E c \in Prior : c.digest # CurrentDigest
     \/ Prior = {} /\ (job.expected # version \/ ~Legal)
  /\ Fail
-----------------------------------------------------------------------------
(* The two saves into the episode aggregate.                                *)
Candidate == <<job.request.run, job.request.key>>

(* A faulty writeback could skip a step.                                    *)
StepsTooFar == job' = [job EXCEPT !.step = @ + 2]

StepOn == job' = [job EXCEPT !.step = @ + 1]

(* _ensure_episode_asset_candidate_draft                                    *)
Draft ==
  /\ Plays(job) /\ Current.kind = "draft"
  /\ \/ /\ candidates[Candidate] # "none"
        /\ UNCHANGED candidates
     \/ /\ candidates[Candidate] = "none"
        /\ shotsFresh
        /\ candidates' = [candidates EXCEPT ![Candidate] = "draft"]
  /\ StepOn
  /\ UNCHANGED <<ledger, shotsFresh, done>>

(* _apply_episode_asset_candidate_writeback                                 *)
Finalize ==
  /\ Plays(job) /\ Current.kind = "finalize"
  /\ \/ /\ candidates[Candidate] = "final"
        /\ UNCHANGED candidates
     \/ /\ candidates[Candidate] = "draft"
        /\ shotsFresh
        /\ candidates' = [candidates EXCEPT ![Candidate] = "final"]
  /\ StepOn
  /\ UNCHANGED <<ledger, shotsFresh, done>>

(* A shot the writeback names was revised, the draft is missing, or another *)
(* writer of the aggregate won the compare and swap.                        *)
SaveFails ==
  /\ Plays(job)
  /\ \/ Current.kind = "draft" /\ candidates[Candidate] = "none"
     \/ Current.kind = "finalize" /\ candidates[Candidate] # "final"
  /\ Fail

(* Another writer of the episode revises a shot; a writeback always names   *)
(* the first version of it.                                                 *)
ReviseShot ==
  /\ shotsFresh
  /\ shotsFresh' = FALSE
  /\ UNCHANGED <<ledger, candidates, job, done>>

Respond ==
  /\ job # Idle /\ ~Plays(job)
  /\ job' = Idle
  /\ done' = done \cup {job.request}
  /\ UNCHANGED <<ledger, candidates, shotsFresh>>

(* The process dies between two durable steps, or before it answers.        *)
Crash ==
  /\ job # Idle
  /\ job' = Idle
  /\ UNCHANGED <<ledger, candidates, shotsFresh, done>>
-----------------------------------------------------------------------------
Init ==
  /\ version = 0
  /\ receipts = {}
  /\ plan = [mission |-> FALSE, status |-> "none", revision |-> 0]
  /\ runs = [r \in Runs |-> NotStarted]
  /\ candidates = [c \in Runs \X Keys |-> "none"]
  /\ shotsFresh = TRUE
  /\ job = Idle
  /\ done = {}

Next ==
  \/ \E q \in Requests, v \in 0 .. version : Begin(q, v)
  \/ Replay \/ Commit \/ Refuse
  \/ Draft \/ Finalize \/ SaveFails \/ ReviseShot
  \/ Respond \/ Crash

Spec == Init /\ [][Next]_vars
-----------------------------------------------------------------------------
(* The type of the state.                                                   *)
Slots   == {<<"bare", 1>>} \cup (RunActions \X (1 .. 6))

TypeOK ==
  /\ version \in Nat
  /\ \A c \in receipts : /\ c.key \in Keys
                         /\ c.slot \in Slots
                         /\ c.digest.run \in Runs
                         /\ c.digest.datum \in Nat
                         /\ c.version \in 1 .. version
  /\ plan \in [mission : BOOLEAN, status : {"none", "proposed", "approved"}, revision : Nat]
  /\ runs \in [Runs -> [execution : ExecutionStates \cup {"none"}, control : ControlStates,
                        attempts : Nat, open : Keys \cup {NoKey}, blocked : BOOLEAN]]
  /\ candidates \in [Runs \X Keys -> {"none", "draft", "final"}]
  /\ shotsFresh \in BOOLEAN
  /\ job # Idle => /\ job.request \in Requests
                   /\ {job.expected, job.datum} \subseteq Nat
                   /\ job.step \in 1 .. Len(Steps(job.request.action)) + 1
  /\ done \subseteq Requests

(* However often a request is sent, and wherever a job of it stopped, each  *)
(* of its commands is in the ledger at most once, and every version of the  *)
(* ledger is the work of one command.                                       *)
CommandsCommitOnce ==
  /\ {c.version : c \in receipts} = 1 .. version
  /\ \A c, d \in receipts : c.version = d.version \/ (c.key = d.key /\ c.slot = d.slot) => c = d

(* A success is only answered when the ledger has every command of the      *)
(* request, for its own run, in the order of the request: no answer rests   *)
(* on the receipts of another request with the same key.                    *)
CommandIn(q, i) ==
  LET step == Steps(q.action)[i]
  IN  {c \in Found(q.key, Slot(q.action, i)) :
         c.digest.run = q.run /\ c.digest.kind = step.kind /\ c.digest.target = step.target}

CommandSteps(action) ==
  {i \in DOMAIN Steps(action) : Steps(action)[i].kind \notin {"draft", "finalize"}}

AnsweredInFull ==
  \A q \in done :
    /\ \A i \in CommandSteps(q.action) : CommandIn(q, i) # {}
    /\ \A i, j \in CommandSteps(q.action) :
          i < j => \A c \in CommandIn(q, i), d \in CommandIn(q, j) :
                     c.version < d.version

(* The open human request of a run is the latest one, and it is open until  *)
(* a decision on it is in the ledger: no transition drops a request nobody  *)
(* decided, and no decision is taken twice.                                 *)
OpenUntilDecided ==
  \A r \in Runs :
    LET asked   == {c \in receipts : c.digest.run = r /\ c.digest.target = "waiting-human"}
        decided == {c \in receipts : c.digest.run = r /\ c.digest.kind = "decision"}
        Pending(c) == \A d \in asked \cup decided : d.version <= c.version
    IN  runs[r].open = (IF \E c \in asked : Pending(c)
                        THEN (CHOOSE c \in asked : Pending(c)).key
                        ELSE NoKey)

(* A candidate is put up for review only when the ledger has its whole      *)
(* provenance: registration, writeback, revision request and impact.        *)
FinalHasProvenance ==
  \A r \in Runs, k \in Keys :
    candidates[<<r, k>>] = "final" =>
      \A i \in 2 .. 5 : \E c \in Found(k, Slot("writeback", i)) : c.digest.run = r

(* Contract: "Cancelled runs are terminal and do not produce later Control  *)
(* or candidate facts".  Whatever half-done action is sent again, a run     *)
(* that has ended keeps its state, and the ledger gains nothing about it    *)
(* but the end of the provenance of an artifact that was written back.      *)
EndedRunsRest ==
  [][\A r \in Runs : runs[r].execution \in Terminal =>
       /\ runs'[r] = runs[r]
       /\ \A c \in receipts' \ receipts : c.digest.run = r =>
            /\ c.digest.kind \in {"revision", "impact"}
            /\ \E d \in Found(c.key, Slot("writeback", 3)) : d.digest.run = r]_vars
=============================================================================
