---------------------------- MODULE CodexHandoff ----------------------------
(***************************************************************************)
(* The queue of image jobs for the Codex workers                           *)
(* (model_gateway/codex_image_handoff.py, codex_image_worker.py and        *)
(* codex_image_worker_recovery.py).                                        *)
(*                                                                         *)
(* A job is a directory that renames carry from pending over running to    *)
(* completed or failed; whoever renames it first has it.  The queue has no *)
(* lock and no memory: a worker that lists the running jobs, judges one    *)
(* stale and renames it works on what it saw, and a file that is written   *)
(* into a directory that went away brings the directory back.  Jobs share  *)
(* nothing but the workers, so the module follows one job.                 *)
(***************************************************************************)
EXTENDS Naturals

CONSTANTS
  Workers,   \* processes of tools/codex_image_worker.py
  None,
  MaxStops   \* bound on what is killed from outside, here and in KeyframeTasks

ASSUME BoundsAssumption == MaxStops \in Nat

VARIABLES
  dir,         \* per place: the job's directory there, or None
  aged,        \* nothing in the job's directory was written for an hour
  images,      \* how many candidates the output directory has: see Images
  worker,      \* where each worker is
  judged,      \* the result a worker found in a stale job
  executions,  \* how often the generator was called for the job
  stops        \* processes killed so far

queueVars == <<dir, aged, images, worker, judged, executions>>

Places == {"pending", "running", "completed", "failed"}
Results == {"succeeded", "failed"}
Directory == [request : BOOLEAN, result : Results \cup {None}]
NoDirectories == [p \in Places |-> None]

(* No candidate, some of them, or all that were asked for.  A job of the    *)
(* queue asks for one.                                                      *)
Images == 0 .. 2
Some == 1
All == 2

Goes(w, place) == worker' = [worker EXCEPT ![w] = place]
At(w, place) == worker[w] = place
-----------------------------------------------------------------------------
(* Renames.  One is refused when the source is gone or the target is there. *)
CanMove(to) == dir["running"] # None /\ dir[to] = None

(* An ended job is trimmed to its result.                                   *)
MoveTo(to) ==
  dir' = [dir EXCEPT !["running"] = None,
                     ![to] = [request |-> FALSE, result |-> dir["running"].result]]

(* write_json makes the directories it needs.                               *)
PutResult(result) ==
  /\ dir' = [dir EXCEPT !["running"] =
               [request |-> dir["running"] # None /\ dir["running"].request, result |-> result]]
  /\ aged' = FALSE

(* create_handoff_task: the staged request is renamed into pending.         *)
PutRequest ==
  /\ dir' = [dir EXCEPT !["pending"] = [request |-> TRUE, result |-> None]]
  /\ UNCHANGED <<aged, images, worker, judged, executions>>
-----------------------------------------------------------------------------
RequestThere == dir["running"] # None /\ dir["running"].request

(* A worker's round is the recovery of what runs and then a claim of what   *)
(* is pending; with one job it is the one or the other.  Only what holds a  *)
(* request is listed.                                                       *)
ListRunning(w) ==
  /\ At(w, "idle") /\ RequestThere
  /\ Goes(w, "judge")
  /\ UNCHANGED <<dir, aged, images, judged, executions, stops>>

(* A faulty recovery could leave the jobs alone that have no result.        *)
JudgesEndedOnly(w) ==
  /\ At(w, "judge")
  /\ IF aged /\ dir["running"] # None /\ dir["running"].result # None
       THEN judged' = [judged EXCEPT ![w] = dir["running"].result] /\ Goes(w, "target")
       ELSE Goes(w, "idle") /\ UNCHANGED judged
  /\ UNCHANGED <<dir, aged, images, executions, stops>>

(* The listed directory is asked for its times; nobody catches it missing.  *)
Judge(w) ==
  /\ At(w, "judge")
  /\ \/ dir["running"] = None /\ Goes(w, "dead") /\ UNCHANGED judged
     \/ dir["running"] # None /\ ~aged /\ Goes(w, "idle") /\ UNCHANGED judged
     \/ /\ dir["running"] # None /\ aged
        /\ judged' = [judged EXCEPT ![w] = dir["running"].result]
        /\ Goes(w, IF dir["running"].result = None THEN "timedOut" ELSE "target")
  /\ UNCHANGED <<dir, aged, images, executions, stops>>

(* No result: the worker is said to have timed out.                         *)
RecordTimeout(w) ==
  /\ At(w, "timedOut")
  /\ PutResult("failed")
  /\ judged' = [judged EXCEPT ![w] = "failed"]
  /\ Goes(w, "target")
  /\ UNCHANGED <<images, executions, stops>>

Target(w) == IF judged[w] = "succeeded" THEN "completed" ELSE "failed"

LookAtTarget(w) ==
  /\ At(w, "target")
  /\ Goes(w, IF dir[Target(w)] # None THEN "idle" ELSE "move")
  /\ UNCHANGED <<dir, aged, images, judged, executions, stops>>

(* A rename that another worker has made already ends this worker.          *)
MoveStale(w) ==
  /\ At(w, "move")
  /\ \/ CanMove(Target(w)) /\ MoveTo(Target(w)) /\ Goes(w, "idle")
     \/ ~CanMove(Target(w)) /\ UNCHANGED dir /\ Goes(w, "dead")
  /\ judged' = [judged EXCEPT ![w] = None]
  /\ UNCHANGED <<aged, images, executions, stops>>
-----------------------------------------------------------------------------
(* The claim: a rename, and only then the file that says who and when.      *)
ListPending(w) ==
  /\ At(w, "idle") /\ dir["pending"] # None
  /\ Goes(w, "claim")
  /\ UNCHANGED <<dir, aged, images, judged, executions, stops>>

(* A faulty claim could copy the job.                                       *)
ClaimsACopy(w) ==
  /\ At(w, "claim")
  /\ dir' = [dir EXCEPT !["running"] = dir["pending"]]
  /\ Goes(w, "claimed")
  /\ UNCHANGED <<aged, images, judged, executions, stops>>

Claim(w) ==
  /\ At(w, "claim")
  /\ \/ /\ dir["pending"] # None
        /\ dir' = [dir EXCEPT !["pending"] = None, !["running"] = dir["pending"]]
        /\ Goes(w, "claimed")
     \/ dir["pending"] = None /\ UNCHANGED dir /\ Goes(w, "idle")
  /\ UNCHANGED <<aged, images, judged, executions, stops>>

WriteClaim(w) ==
  /\ At(w, "claimed")
  /\ PutResult(IF dir["running"] = None THEN None ELSE dir["running"].result)
  /\ Goes(w, "begin")
  /\ UNCHANGED <<images, judged, executions, stops>>

(* The generator is called when the request can be read.                    *)
Begin(w) ==
  /\ At(w, "begin")
  /\ \/ /\ RequestThere
        /\ executions' = executions + 1
        /\ Goes(w, "executing")
     \/ ~RequestThere /\ Goes(w, "failing") /\ UNCHANGED executions
  /\ UNCHANGED <<dir, aged, images, judged, stops>>

(* A faulty worker could leave the image in the job's directory.            *)
ExecutesUncopied(w) ==
  /\ At(w, "executing")
  /\ Goes(w, "made") \/ Goes(w, "failing")
  /\ aged' = FALSE
  /\ UNCHANGED <<dir, images, judged, executions, stops>>

(* The image is copied to the output directory before the result tells of   *)
(* it; a generator that breaks off, takes too long or has lost its          *)
(* directory leaves none.                                                   *)
Executes(w) ==
  /\ At(w, "executing")
  /\ \/ RequestThere /\ images' = All /\ Goes(w, "made")
     \/ Goes(w, "failing") /\ UNCHANGED images
  /\ aged' = FALSE
  /\ UNCHANGED <<dir, judged, executions, stops>>

WriteResult(w) ==
  /\ At(w, "made")
  /\ PutResult("succeeded")
  /\ Goes(w, "complete")
  /\ UNCHANGED <<images, judged, executions, stops>>

Complete(w) ==
  /\ At(w, "complete")
  /\ \/ CanMove("completed") /\ MoveTo("completed") /\ Goes(w, "idle")
     \/ ~CanMove("completed") /\ UNCHANGED dir /\ Goes(w, "failing")
  /\ UNCHANGED <<aged, images, judged, executions, stops>>

(* The handler of every exception, which may raise itself.                  *)
WriteFailure(w) ==
  /\ At(w, "failing")
  /\ PutResult("failed")
  /\ Goes(w, "fail")
  /\ UNCHANGED <<images, judged, executions, stops>>

Fail(w) ==
  /\ At(w, "fail")
  /\ \/ CanMove("failed") /\ MoveTo("failed") /\ Goes(w, "idle")
     \/ ~CanMove("failed") /\ UNCHANGED dir /\ Goes(w, "dead")
  /\ UNCHANGED <<aged, images, judged, executions, stops>>
-----------------------------------------------------------------------------
(* An hour without a write.  A claimed job is written to long before: the   *)
(* generator is stopped after a quarter of an hour.                         *)
Holding == {"claimed", "begin", "executing", "made", "complete", "failing", "fail"}

HourPasses ==
  /\ ~aged
  /\ \/ dir["pending"] # None
     \/ dir["running"] # None /\ \A w \in Workers : worker[w] \notin Holding
  /\ aged' = TRUE
  /\ UNCHANGED <<dir, images, worker, judged, executions, stops>>

KillWorker(w) ==
  /\ stops < MaxStops
  /\ stops' = stops + 1
  /\ ~At(w, "dead")
  /\ Goes(w, "dead")
  /\ judged' = [judged EXCEPT ![w] = None]
  /\ UNCHANGED <<dir, aged, images, executions>>

(* Whoever runs the workers starts one again.                               *)
StartWorker(w) ==
  /\ At(w, "dead")
  /\ Goes(w, "idle")
  /\ judged' = [judged EXCEPT ![w] = None]
  /\ UNCHANGED <<dir, aged, images, executions, stops>>

Rounds(w) ==
  \/ ListRunning(w) \/ Judge(w) \/ RecordTimeout(w) \/ LookAtTarget(w) \/ MoveStale(w)
  \/ ListPending(w) \/ Claim(w) \/ WriteClaim(w) \/ Begin(w) \/ Executes(w)
  \/ WriteResult(w) \/ Complete(w) \/ WriteFailure(w) \/ Fail(w) \/ StartWorker(w)

QueueInit ==
  /\ dir = NoDirectories
  /\ aged = FALSE
  /\ images = 0
  /\ worker = [w \in Workers |-> "idle"]
  /\ judged = [w \in Workers |-> None]
  /\ executions = 0
  /\ stops = 0

QueueNext ==
  \/ HourPasses
  \/ \E w \in Workers : Rounds(w) \/ KillWorker(w)
-----------------------------------------------------------------------------
WorkerPlaces ==
  Holding \cup {"idle", "judge", "timedOut", "target", "move", "claim", "dead"}

QueueTypeOK ==
  /\ dir \in [Places -> Directory \cup {None}]
  /\ aged \in BOOLEAN
  /\ images \in Images
  /\ worker \in [Workers -> WorkerPlaces]
  /\ judged \in [Workers -> Results \cup {None}]
  /\ executions \in Nat
  /\ stops \in 0 .. MaxStops

(* Where the job has ended, as _locate_job_dir reads it.                    *)
End ==
  IF dir["completed"] # None THEN "completed"
  ELSE IF dir["failed"] # None THEN "failed" ELSE "open"
=============================================================================
