---------------------------- MODULE KeyframeTasks ----------------------------
(***************************************************************************)
(* The generation of one keyframe that outlives its request                *)
(* (apps/api/runtime_keyframe_routes.py, runtime_keyframes.py,             *)
(* runtime_keyframe_background.py and runtime_keyframe_async.py).          *)
(*                                                                         *)
(* A provider that answers at once is called by a thread of the service; a *)
(* provider that hands out a task is asked by whoever polls, here the      *)
(* queue of CodexHandoff.  Both keep the task state and the safe manifest  *)
(* in two files beside the job, written one after the other by the         *)
(* submission, the thread and every poll, with no lock between them.       *)
(***************************************************************************)
EXTENDS CodexHandoff, Sequences

CONSTANTS Clients

VARIABLES
  mode,   \* who works on the job: a "thread" of the service, or a "task"
  files,  \* keyframe_task_state.json and the safe manifest: their statuses
  job,    \* jobs/<id>.json, None until the submission writes it
  pc,     \* where the submission, the thread and each poll are
  plan,   \* what each has settled on and which files it still has to write
  seen    \* the last status each client was answered

taskVars == <<mode, files, job, pc, plan, seen>>
vars == <<taskVars, queueVars, stops>>

Modes == {"thread", "task"}
(* "running" stands for submitted and pending too: none of them is an end.  *)
Ended == {"succeeded", "partially_complete", "failed", "blocked"}
Statuses == Ended \cup {"running"}
Processes == {"submit", "thread"} \cup Clients

ASSUME NamesAssumption == {"submit", "thread"} \cap Clients = {} /\ None \notin Statuses \cup Places

NoPlan == [status |-> None, left |-> <<>>]
Settles(p, status, left) == plan' = [plan EXCEPT ![p] = [status |-> status, left |-> left]]
Stands(p, place) == pc[p] = place
Turns(p, place) == pc' = [pc EXCEPT ![p] = place]

(* Each file is replaced as a whole.                                        *)
WriteFile(p) ==
  LET left == plan[p].left IN
  /\ left # <<>>
  /\ files' = [files EXCEPT ![Head(left)] = plan[p].status]
  /\ Settles(p, plan[p].status, Tail(left))
  /\ UNCHANGED <<mode, job, pc, seen, queueVars, stops>>

Written(p) == plan[p].left = <<>>
-----------------------------------------------------------------------------
(* The submission.  A refused task leaves a manifest and no task state.     *)
Submit ==
  /\ Stands("submit", "ask")
  /\ \/ mode = "thread" /\ Settles("submit", "running", <<"manifest", "task">>) /\ UNCHANGED queueVars
     \/ mode = "task" /\ PutRequest /\ Settles("submit", "running", <<"task", "manifest">>)
     \/ mode = "task" /\ Settles("submit", "blocked", <<"manifest">>) /\ UNCHANGED queueVars
  /\ Turns("submit", "writing")
  /\ UNCHANGED <<mode, files, job, seen, stops>>

Enqueue ==
  /\ Stands("submit", "writing") /\ Written("submit")
  /\ mode = "thread" /\ Stands("thread", "none")
  /\ Turns("thread", "queued")
  /\ UNCHANGED <<mode, files, job, plan, seen, queueVars, stops>>

(* The answer goes to the canvas all clients share.                         *)
AnswerSubmit ==
  /\ Stands("submit", "writing") /\ Written("submit")
  /\ mode = "thread" => ~Stands("thread", "none")
  /\ job' = plan["submit"].status
  /\ seen' = [c \in Clients |-> job']
  /\ Turns("submit", "done")
  /\ UNCHANGED <<mode, files, plan, queueVars, stops>>

Submission == Submit \/ WriteFile("submit") \/ Enqueue \/ AnswerSubmit
-----------------------------------------------------------------------------
(* The thread.  A provider that breaks off leaves the images it had.        *)
Outcomes ==
  {[status |-> "succeeded", images |-> All], [status |-> "partially_complete", images |-> Some]}
    \cup {[status |-> s, images |-> n] : s \in {"failed", "blocked"}, n \in Images}

CallProvider ==
  /\ Stands("thread", "queued")
  /\ \E outcome \in Outcomes :
       /\ images' = outcome.images
       /\ Settles("thread", outcome.status, <<"manifest", "task">>)
  /\ Turns("thread", "writing")
  /\ UNCHANGED <<mode, files, job, seen, dir, aged, worker, judged, executions, stops>>

(* An error among the writes is recorded over what was written.             *)
BreakOff ==
  /\ Stands("thread", "writing") /\ ~Written("thread")
  /\ Settles("thread", "failed", <<"manifest", "task">>)
  /\ Turns("thread", "failing")
  /\ UNCHANGED <<mode, files, job, seen, queueVars, stops>>

ThreadEnds ==
  /\ pc["thread"] \in {"writing", "failing"} /\ Written("thread")
  /\ Turns("thread", "done")
  /\ UNCHANGED <<mode, files, job, plan, seen, queueVars, stops>>

Thread == CallProvider \/ WriteFile("thread") \/ BreakOff \/ ThreadEnds
-----------------------------------------------------------------------------
(* A poll works on the task state it has read at its start.                 *)
Ask(c) ==
  /\ Stands(c, "idle") /\ job # None /\ files["task"] # None
  /\ Settles(c, files["task"], <<>>)
  /\ Turns(c, CASE mode = "thread" /\ files["task"] \notin Ended -> "manifest"
              [] mode = "task" /\ files["task"] # "succeeded" -> "completed"
              [] OTHER -> "answer")
  /\ UNCHANGED <<mode, files, job, seen, queueVars, stops>>

(* A thread's job has ended when its manifest says so; if not, the status   *)
(* that was read is written back to both files.                             *)
ReadManifest(c) ==
  /\ Stands(c, "manifest")
  /\ IF files["manifest"] \in Ended
       THEN Settles(c, files["manifest"], <<"task">>)
       ELSE Settles(c, plan[c].status, <<"task", "manifest">>)
  /\ Turns(c, "answer")
  /\ UNCHANGED <<mode, files, job, seen, queueVars, stops>>

(* A task is looked for in one place after the other.  A poll of a job that *)
(* had ended takes notice of nothing but a completed one.                   *)
Following ==
  [completed |-> "failed", failed |-> "running", running |-> "pending", pending |-> None]

(* A faulty poll could keep the queue's word for a status.                  *)
ToldInItsWords(place) == IF place = None THEN "failed" ELSE place

Told(place) ==
  CASE place = "completed" -> "succeeded"
    [] place \in {"running", "pending"} -> "running"
    [] OTHER -> "failed"

Concludes(c, place) ==
  /\ IF plan[c].status \in Ended /\ place # "completed"
       THEN UNCHANGED plan
       ELSE Settles(c, Told(place), <<"task", "manifest">>)
  /\ Turns(c, "answer")

Look(c) ==
  LET place == pc[c] IN
  /\ place \in Places
  /\ \/ dir[place] # None /\ Concludes(c, place)
     \/ dir[place] = None /\ Following[place] # None /\ Turns(c, Following[place]) /\ UNCHANGED plan
     \/ dir[place] = None /\ Following[place] = None /\ Concludes(c, None)
  /\ UNCHANGED <<mode, files, job, seen, queueVars, stops>>

Answer(c) ==
  /\ Stands(c, "answer") /\ Written(c)
  /\ job' = plan[c].status
  /\ seen' = [seen EXCEPT ![c] = plan[c].status]
  /\ plan' = [plan EXCEPT ![c] = NoPlan]
  /\ Turns(c, "idle")
  /\ UNCHANGED <<mode, files, queueVars, stops>>

Handling(c) == ReadManifest(c) \/ Look(c) \/ WriteFile(c) \/ Answer(c)
-----------------------------------------------------------------------------
(* The service dies and starts again: requests and threads are gone.        *)
Restart ==
  /\ stops < MaxStops
  /\ stops' = stops + 1
  /\ pc' = [p \in Processes |-> IF p \in Clients THEN "idle" ELSE "done"]
  /\ plan' = [p \in Processes |-> NoPlan]
  /\ UNCHANGED <<mode, files, job, seen, queueVars>>

Init ==
  /\ QueueInit
  /\ mode \in Modes
  /\ files = [f \in {"task", "manifest"} |-> None]
  /\ job = None
  /\ pc = [p \in Processes |->
            IF p = "submit" THEN "ask" ELSE IF p = "thread" THEN "none" ELSE "idle"]
  /\ plan = [p \in Processes |-> NoPlan]
  /\ seen = [c \in Clients |-> None]

Queue == QueueNext /\ UNCHANGED taskVars

Next == Submission \/ Thread \/ Queue \/ Restart \/ \E c \in Clients : Ask(c) \/ Handling(c)

Spec == Init /\ [][Next]_vars

(* The workers, the thread and the handlers run on; time passes; a client   *)
(* asks again until it is told of an end.                                   *)
FairSpec ==
  /\ Spec
  /\ WF_vars(Submission) /\ WF_vars(Thread)
  /\ WF_vars(HourPasses /\ UNCHANGED taskVars)
  /\ \A w \in Workers : WF_vars(Rounds(w) /\ UNCHANGED taskVars)
  /\ \A c \in Clients :
       WF_vars(Handling(c)) /\ WF_vars(seen[c] \notin Ended /\ Ask(c))
-----------------------------------------------------------------------------
SubmitStages == {"ask", "writing", "done"}
ThreadStages == {"none", "queued", "writing", "failing", "done"}
PollStages == Places \cup {"idle", "manifest", "answer"}
WriteOrders == {<<>>, <<"task">>, <<"manifest">>, <<"task", "manifest">>, <<"manifest", "task">>}

(* The type invariant of the two components.                                *)
TypeOK ==
  /\ QueueTypeOK
  /\ mode \in Modes
  /\ files \in [{"task", "manifest"} -> Statuses \cup {None}]
  /\ job \in Statuses \cup {None}
  /\ pc \in [Processes -> SubmitStages \cup ThreadStages \cup PollStages]
  /\ pc["submit"] \in SubmitStages
  /\ pc["thread"] \in ThreadStages
  /\ \A c \in Clients : pc[c] \in PollStages
  /\ plan \in [Processes -> [status : Statuses \cup {None}, left : WriteOrders]]
  /\ seen \in [Clients -> Statuses \cup {None}]

(* Whatever crossed or broke off on the way, nobody is told of images that  *)
(* are not there: a success has all of them, a partial one has some, and a  *)
(* success of a task is one the queue ended as completed (the answer of     *)
(* poll_keyframe_generation, whichever files and places it was put together *)
(* from).                                                                   *)
AnswersHonest ==
  \A told \in {job, files["task"], files["manifest"]} \cup {seen[c] : c \in Clients} :
    /\ told = "succeeded" =>
         images = All /\ (mode = "task" => dir["completed"] # None)
    /\ told = "partially_complete" => images >= Some

(* The queue calls the generator once per job, whichever workers die, time  *)
(* out or take each other for dead, and no rename takes a completed job     *)
(* away (the claim by rename and recover_stale_running_jobs).               *)
WorkedOnce ==
  [][executions' <= 1 /\ (dir["completed"] # None => dir'["completed"] # None)]_vars

(* With a task, whoever keeps polling is told of an end, though the service *)
(* or a worker died and polls write the state they read back over each      *)
(* other's (_locate_job_dir is asked anew by each poll).                    *)
ClientsLearn ==
  \A c \in Clients :
    (mode = "task" /\ job # None) ~> (seen[c] \in Ended)

(* With a thread: once the provider was released and the thread has         *)
(* recorded its end, whoever keeps polling is told of it                    *)
(* (tests/test_api_runtime_creative_agent_keyframes.py,                     *)
(* test_sync_keyframe_provider_can_continue_in_runtime_background).         *)
ReleasedJobEnds ==
  \A c \in Clients :
    (mode = "thread" /\ Stands("thread", "done") /\ job # None) ~> (seen[c] \in Ended)
=============================================================================
