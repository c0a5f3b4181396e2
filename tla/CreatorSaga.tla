----------------------------- MODULE CreatorSaga -----------------------------
(***************************************************************************)
(* The creator's production requests (runtime_creator_production_saga.py   *)
(* and runtime_creator_production_integration.py).  A request is carried   *)
(* through three files that no transaction spans: its envelope in the saga *)
(* file, its run and writeback in the production-control ledger, and its   *)
(* candidate in the episode aggregate.                                     *)
(*                                                                         *)
(* A job, the sending of one request or the reconciliation of all, holds   *)
(* the saga lock from reading the saga file to its end.  Sending persists  *)
(* every phase before it goes on; reconciliation persists once, at the     *)
(* end.  Between two steps of a job, an effect and the persisting of its   *)
(* phase among them, the process may die, the creator may act on the run   *)
(* (except while the job holds the control lock), and shots are revised.   *)
(***************************************************************************)
EXTENDS Naturals

CONSTANTS Keys,        \* idempotency keys of the requests
          Tokens,      \* what the control ledger calls them
          TokenMaps,   \* what _command_token may make of the keys; it cuts them off
          None,        \* no key
          MaxShot,     \* bound: versions of the shots
          MaxCrashes   \* bound: deaths of the process

ASSUME SagaConstants ==
  /\ TokenMaps \subseteq [Keys -> Tokens]
  /\ None \notin Keys
  /\ MaxShot \in Nat \ {0} /\ MaxCrashes \in Nat

VARIABLES
  stored,      \* the saga file: an envelope per request
  job,         \* the job that holds the saga lock, with its copy of the file
  planned,     \* how many of mission, plan and approval are in the ledger
  runs,        \* what the ledger tells of the run of each token
  candidates,  \* the requests whose candidate is in the episode aggregate
  shot,        \* version of the shots requests and writebacks refer to
  crashes,     \* deaths so far
  tokenOf      \* the token of each key, as the clients happened to choose the keys

vars == <<stored, job, planned, runs, candidates, shot, crashes, tokenOf>>
-----------------------------------------------------------------------------
Phases   == {"prepared", "artifact_prepared", "control_applied", "episode_applied",
             "confirmed", "failed"}
Terminal == {"confirmed", "failed"}

(* shot: the version the request was made for; episode: the candidate its   *)
(* episode receipt names; completed: it has the receipt of the completion.  *)
Envelope   == [phase : Phases, shot : Nat, episode : Keys \cup {None}, completed : BOOLEAN]
NoEnvelope == [phase |-> "none"]
Prepared   == [phase |-> "prepared", shot |-> shot, episode |-> None, completed |-> FALSE]

(* The execution and control axes of a run, as far as completing it is      *)
(* concerned: a stalled run is paused, blocked, retrying or waiting.        *)
RunStates == {"none", "running", "stalled", "completed", "cancelled"}
NoRun == [state |-> "none", registered |-> None, written |-> None,
          revised |-> FALSE, assessed |-> FALSE, completedBy |-> None]

(* A job sends one request or reconciles the rest of todo; key is the       *)
(* request in hand, locked the control lock, seen the shot it loaded.       *)
Idle == [mode |-> "idle"]
NewJob(mode, key, todo, envelopes) ==
  [mode |-> mode, key |-> key, todo |-> todo, envelopes |-> envelopes,
   locked |-> FALSE, seen |-> 0]

Busy    == job # Idle /\ job.key # None
Current == job.envelopes[job.key]
Saved   == job.mode = "send" => stored = job.envelopes
At(phase) == Busy /\ Saved /\ Current.phase = phase
Run     == runs[tokenOf[job.key]]
-----------------------------------------------------------------------------
Init ==
  /\ stored = [k \in Keys |-> NoEnvelope]
  /\ job = Idle
  /\ planned = 0
  /\ runs = [t \in Tokens |-> NoRun]
  /\ candidates = {}
  /\ shot = 1
  /\ crashes = 0
  /\ tokenOf \in TokenMaps

(* A faulty saga could take requests nobody sent for pending.               *)
PendingOrUnsent(envelopes) == {k \in Keys : envelopes[k].phase \notin Terminal}

Pending(envelopes) == {k \in Keys : envelopes[k] # NoEnvelope /\ envelopes[k].phase \notin Terminal}

(* A request is sent, for the shots as they are, or sent again.  One that   *)
(* has ended is answered from the file.                                     *)
Send(k) ==
  /\ job = Idle
  /\ stored[k] = NoEnvelope \/ k \in Pending(stored)
  /\ stored' = IF stored[k] = NoEnvelope THEN [stored EXCEPT ![k] = Prepared] ELSE stored
  /\ job' = NewJob("send", k, {}, stored')
  /\ UNCHANGED <<planned, runs, candidates, shot, crashes, tokenOf>>

(* Every reading of the workspace reconciles first.                         *)
Reconcile ==
  /\ job = Idle
  /\ Pending(stored) # {}
  /\ job' = NewJob("reconcile", None, Pending(stored), stored)
  /\ UNCHANGED <<stored, planned, runs, candidates, shot, crashes, tokenOf>>

Pick(k) ==
  /\ job # Idle /\ job.key = None /\ k \in job.todo
  /\ job' = [job EXCEPT !.key = k, !.todo = @ \ {k}]
  /\ UNCHANGED <<stored, planned, runs, candidates, shot, crashes, tokenOf>>

(* The end of a job: the file is written, and a sender gets his answer.     *)
Finish ==
  /\ job # Idle /\ job.key = None /\ job.todo = {}
  /\ stored' = job.envelopes
  /\ job' = Idle
  /\ UNCHANGED <<planned, runs, candidates, shot, crashes, tokenOf>>

Crash ==
  /\ job # Idle
  /\ crashes < MaxCrashes
  /\ crashes' = crashes + 1
  /\ job' = Idle
  /\ UNCHANGED <<stored, planned, runs, candidates, shot, tokenOf>>
-----------------------------------------------------------------------------
(* The envelope in hand becomes e in the copy of the job.                   *)
Becomes(e) ==
  /\ job' = [job EXCEPT !.envelopes = [@ EXCEPT ![job.key] = e], !.locked = FALSE, !.seen = 0,
                        !.key = IF e.phase \in Terminal THEN None ELSE @]
  /\ UNCHANGED stored

(* A sender persists a phase before it goes on to the next.                 *)
Persist ==
  /\ Busy /\ ~Saved
  /\ stored' = job.envelopes
  /\ UNCHANGED <<job, planned, runs, candidates, shot, crashes, tokenOf>>

(* A faulty reconciliation could pass over a request that cannot go on.     *)
PassesOver ==
  /\ job' = IF job.mode = "send" THEN Idle
            ELSE [job EXCEPT !.key = None, !.locked = FALSE, !.seen = 0]
  /\ UNCHANGED stored

(* An error ends the sending and leaves the envelope as persisted, but a    *)
(* reconciliation marks the request failed and goes on.                     *)
Fails ==
  IF job.mode = "send"
  THEN job' = Idle /\ stored' = stored
  ELSE Becomes([Current EXCEPT !.phase = "failed"])

Manifest ==
  /\ At("prepared")
  /\ Becomes([Current EXCEPT !.phase = "artifact_prepared"])
  /\ UNCHANGED <<planned, runs, candidates, shot, crashes, tokenOf>>

(* record_creator_preview_control_writeback: under the control lock, each   *)
(* fact the ledger does not have yet is a command and a commit of its own.  *)
(* Facts are found by identities made from the token.                       *)
Record(run) == runs' = [runs EXCEPT ![tokenOf[job.key]] = run]

RecordFact ==
  /\ At("artifact_prepared")
  /\ \/ /\ planned < 3
        /\ planned' = planned + 1
        /\ UNCHANGED runs
     \/ /\ planned = 3
        /\ \/ Run.state = "none" /\ Record([Run EXCEPT !.state = "running"])
           \/ Run.state # "none" /\ Run.registered = None
              /\ Record([Run EXCEPT !.registered = job.key])
           \/ Run.registered = job.key /\ Run.written = None
              /\ Record([Run EXCEPT !.written = job.key])
           \/ Run.written # None /\ ~Run.revised /\ Record([Run EXCEPT !.revised = TRUE])
           \/ Run.revised /\ ~Run.assessed /\ Record([Run EXCEPT !.assessed = TRUE])
        /\ UNCHANGED planned
  /\ job' = [job EXCEPT !.locked = TRUE]
  /\ UNCHANGED <<stored, candidates, shot, crashes, tokenOf>>

ControlApplied ==
  /\ At("artifact_prepared")
  /\ planned = 3 /\ Run.assessed
  /\ Becomes([Current EXCEPT !.phase = "control_applied"])
  /\ UNCHANGED <<planned, runs, candidates, shot, crashes, tokenOf>>

(* The registration found is of another artifact than the one written back. *)
ControlRefuses ==
  /\ At("artifact_prepared")
  /\ Run.registered \notin {None, job.key} /\ Run.written = None
  /\ Fails
  /\ UNCHANGED <<planned, runs, candidates, shot, crashes, tokenOf>>
-----------------------------------------------------------------------------
(* apply_creator_preview_episode_candidate.  The writeback in the ledger    *)
(* says which candidate to save, and for which shots.                       *)
Successor == Run.written
Applied   == [Current EXCEPT !.phase = "episode_applied", !.episode = Successor]
ShotsLatest == job.envelopes[Successor].shot = shot

(* A faulty apply could take the writeback in the ledger for the candidate  *)
(* in the episode.                                                          *)
TrustsTheWriteback ==
  /\ At("control_applied") /\ job.seen = 0
  /\ ShotsLatest
  /\ Becomes(Applied)
  /\ UNCHANGED <<planned, runs, candidates, shot, crashes, tokenOf>>

EpisodeLoad ==
  /\ At("control_applied") /\ job.seen = 0
  /\ ShotsLatest /\ Successor \notin candidates
  /\ job' = [job EXCEPT !.seen = shot]
  /\ UNCHANGED <<stored, planned, runs, candidates, shot, crashes, tokenOf>>

(* A faulty reconciliation could fail the request for that.                 *)
FailsForItsCandidate ==
  /\ At("control_applied") /\ job.seen = 0
  /\ ShotsLatest /\ Successor \in candidates
  /\ Fails
  /\ UNCHANGED <<planned, runs, candidates, shot, crashes, tokenOf>>

(* The candidate is in the episode already: the reference it holds to its   *)
(* writeback, an object, is compared with a dictionary, which is never      *)
(* equal.  Nobody catches the StateConflictError: it ends sendings and      *)
(* reconciliations alike, and nothing is written for any request.           *)
EpisodeRaises ==
  /\ At("control_applied") /\ job.seen = 0
  /\ ShotsLatest /\ Successor \in candidates
  /\ job' = Idle
  /\ UNCHANGED <<stored, planned, runs, candidates, shot, crashes, tokenOf>>

(* A faulty save could leave out the comparison with what was loaded.       *)
SavesUnseen ==
  /\ At("control_applied") /\ job.seen # 0
  /\ candidates' = candidates \cup {Successor}
  /\ Becomes(Applied)
  /\ UNCHANGED <<planned, runs, shot, crashes, tokenOf>>

EpisodeSave ==
  /\ At("control_applied") /\ job.seen = shot
  /\ candidates' = candidates \cup {Successor}
  /\ Becomes(Applied)
  /\ UNCHANGED <<planned, runs, shot, crashes, tokenOf>>

(* A shot was revised, or another save of the aggregate came in between.    *)
EpisodeRefuses ==
  /\ At("control_applied")
  /\ job.seen # 0 \/ ~ShotsLatest
  /\ Fails
  /\ UNCHANGED <<planned, runs, candidates, shot, crashes, tokenOf>>

(* confirm_creator_preview_control_run                                      *)
Confirm ==
  /\ At("episode_applied")
  /\ Run.state \in {"running", "completed"}
  /\ LET by == IF Run.state = "running" THEN job.key ELSE Run.completedBy
     IN  /\ Record([Run EXCEPT !.state = "completed", !.completedBy = by])
         /\ Becomes([Current EXCEPT !.phase = "confirmed", !.completed = (by = job.key)])
  /\ UNCHANGED <<planned, candidates, shot, crashes, tokenOf>>

ConfirmRefuses ==
  /\ At("episode_applied")
  /\ Run.state \in {"stalled", "cancelled"}
  /\ Fails
  /\ UNCHANGED <<planned, runs, candidates, shot, crashes, tokenOf>>
-----------------------------------------------------------------------------
(* What the creator may do to the run of a request through the routes of    *)
(* the production control.                                                  *)
ActOnRun(t) ==
  /\ job # Idle => ~job.locked
  /\ \E next \in {"running", "stalled", "completed", "cancelled"} :
        /\ \/ runs[t].state = "running" /\ next # "running"
           \/ runs[t].state = "stalled" /\ next \in {"running", "cancelled"}
        /\ runs' = [runs EXCEPT ![t].state = next]
  /\ UNCHANGED <<stored, job, planned, candidates, shot, crashes, tokenOf>>

ReviseShot ==
  /\ shot < MaxShot
  /\ shot' = shot + 1
  /\ UNCHANGED <<stored, job, planned, runs, candidates, crashes, tokenOf>>

JobStep ==
  \/ \E k \in Keys : Pick(k)
  \/ Persist \/ Manifest \/ RecordFact \/ ControlApplied \/ ControlRefuses
  \/ EpisodeLoad \/ EpisodeRaises \/ EpisodeSave \/ EpisodeRefuses
  \/ Confirm \/ ConfirmRefuses \/ Finish

Next ==
  \/ \E k \in Keys : Send(k)
  \/ Reconcile \/ JobStep \/ Crash
  \/ \E t \in Tokens : ActOnRun(t)
  \/ ReviseShot

Spec == Init /\ [][Next]_vars

(* A job goes on while its process lives, and the workspace is read again   *)
(* and again: one of the readings gets the saga lock.                       *)
FairSpec == Spec /\ WF_vars(JobStep) /\ SF_vars(Reconcile)
-----------------------------------------------------------------------------
(* A faulty workspace could show whatever is in the episode.                *)
ShowsAll(k) == k \in candidates

(* _creator_production_candidate_visibility: the workspace shows a          *)
(* candidate only when its request has every receipt.                       *)
Visible(k) ==
  /\ k \in candidates
  /\ stored[k] # NoEnvelope
  /\ stored[k].phase = "confirmed" /\ stored[k].completed /\ stored[k].episode = k

(* The type of the state; a job only works on requests that were made.      *)
TypeOK ==
  /\ stored \in [Keys -> Envelope \cup {NoEnvelope}]
  /\ job # Idle =>
       /\ job.mode \in {"send", "reconcile"}
       /\ job.envelopes \in [Keys -> Envelope \cup {NoEnvelope}]
       /\ job.todo \subseteq Keys
       /\ job.key = None \/ (job.key \in Keys /\ job.envelopes[job.key] \in Envelope)
       /\ job.locked \in BOOLEAN
       /\ job.seen \in 0 .. MaxShot
  /\ planned \in 0 .. 3
  /\ runs \in [Tokens -> [state : RunStates, registered : Keys \cup {None},
                          written : Keys \cup {None}, revised : BOOLEAN,
                          assessed : BOOLEAN, completedBy : Keys \cup {None}]]
  /\ candidates \subseteq Keys
  /\ shot \in Nat
  /\ crashes \in 0 .. MaxCrashes
  /\ tokenOf \in TokenMaps

(* Contract, hardening addendum: "Candidate visibility requires both a      *)
(* matching Control writeback/completion receipt and a matching Episode     *)
(* candidate receipt": what the workspace shows, the other two files have,  *)
(* whichever requests were cut short and whichever share a token.           *)
VisibleIsRecorded ==
  \A k \in Keys : Visible(k) =>
    LET run == runs[tokenOf[k]]
    IN  /\ run.written = k /\ run.revised /\ run.assessed
        /\ run.state = "completed" /\ run.completedBy = k

(* A confirmed request has its run completed in the ledger, with the whole  *)
(* provenance, and the candidate of that writeback is in the episode.       *)
ConfirmedIsRecorded ==
  \A k \in Keys : stored[k] # NoEnvelope /\ stored[k].phase = "confirmed" =>
    LET run == runs[tokenOf[k]]
    IN  /\ run.state = "completed" /\ run.assessed
        /\ run.written \in candidates
        /\ stored[k].episode = run.written

(* A candidate enters the episode only with its writeback and its impact in *)
(* the ledger, and only while the shots its own request was made for are    *)
(* the latest, however long ago the job loaded them and whoever's job it is.*)
SavedForLatestShots ==
  [][\A k \in candidates' \ candidates :
        /\ runs[tokenOf[k]].written = k /\ runs[tokenOf[k]].assessed
        /\ stored[k] # NoEnvelope /\ stored[k].shot = shot]_vars

(* A request whose candidate is in the episode is never declared failed,    *)
(* by no job and after no death, unless the creator stopped its run or      *)
(* revised its shots.  (It need not be carried on either: see LeftBehind.)  *)
SavedIsNotFailed ==
  [][\A k \in Keys :
        /\ job # Idle /\ job' # Idle /\ k \in candidates
        /\ k \in Pending(job.envelopes) /\ job'.envelopes[k].phase = "failed"
        => \/ runs[tokenOf[k]].state \in {"stalled", "cancelled"}
           \/ job.envelopes[k].shot # shot]_vars

(* A request was cut off after a candidate of its run entered the episode   *)
(* and before the file says so: until the shots are revised, EpisodeRaises  *)
(* ends every job that takes it up, and with it the job's other requests.   *)
LeftBehind(k) ==
  /\ job = Idle /\ k \in Pending(stored) /\ stored[k].phase # "episode_applied"
  /\ LET candidate == runs[tokenOf[k]].written
     IN  candidate \in candidates /\ stored[candidate].shot = shot

(* Every request ends, confirmed or failed, wherever its jobs were cut      *)
(* short and whatever became of its run, unless a request is left behind    *)
(* and stays so.                                                            *)
RequestsSettle ==
  \A k \in Keys : stored[k] # NoEnvelope ~>
    \/ stored[k] # NoEnvelope /\ stored[k].phase \in Terminal
    \/ []<>(\E left \in Keys : LeftBehind(left))
=============================================================================
