---------------------------- MODULE PreviewRuns ----------------------------
(***************************************************************************)
(* The preview runs of a project (runtime_m6_preview_runs.py and the       *)
(* routes of runtime_m6_script_plan_asset_bible.py).                       *)
(*                                                                         *)
(* A client request is a run: a directory with run.json, candidate.json    *)
(* and confirmation.json, under a lock of the run.  The planner runs in a  *)
(* pool of one worker; which runs are with it is known to the process      *)
(* only.  Old runs are pruned: their tombstone is recorded, then their     *)
(* directory is removed, file by file.  A run that ends prunes others      *)
(* while its own lock is held.  A restart ends every handler, frees every  *)
(* lock and leaves the files.                                              *)
(***************************************************************************)
EXTENDS Naturals, FiniteSets, Sequences

CONSTANTS Runs, Threads, Worker, None,
          MaxTerminal, MaxUnconfirmed,  \* runs of each group that are kept
          MaxRestarts                   \* bound: restarts of the service

ASSUME PreviewConstants ==
  /\ Worker \notin Threads /\ None \notin Threads \cup {Worker}
  /\ MaxTerminal \in Nat \ {0} /\ MaxUnconfirmed \in Nat \ {0}
  /\ MaxRestarts \in Nat

VARIABLES
  file,       \* run.json of each run
  candidate,  \* the runs with a candidate.json
  receipt,    \* the runs with a confirmation.json
  tombstone,  \* _tombstones.json: the phase of each pruned run
  lock,       \* who holds the lock of each run
  later,      \* <<r, q>>: r finished after q
  fresh,      \* runs that expect the graph's present version
  committed,  \* runs whose plan is in the production graph
  thread,     \* the handlers of requests and the worker
  submitted,  \* _SUBMITTED: runs that are with the worker or queued for it
  queue,      \* the worker's queue
  calls,      \* calls of the planner for each run (history)
  restarts

disk == <<file, candidate, receipt, tombstone, later, fresh, committed>>
process == <<lock, thread, submitted, queue>>
vars == <<disk, process, calls, restarts>>
-----------------------------------------------------------------------------
Live == {"queued", "running", "running_cancel_requested"}
Prunable == {"failed", "cancelled", "confirmed"}
Phases == Live \cup Prunable \cup {"succeeded"}

Run == [phase : Phases, remote : BOOLEAN]

ASSUME NoneIsNoRun == None \notin Run \cup Phases

Handlers == Threads \cup {Worker}

Thread == [pc : {"idle", "submit", "recover", "dispatched", "planning", "candidate", "discard",
                 "committed", "receipt", "list", "prune", "remove"},
           run : Runs \cup {None}, then : {"idle", "submit", "discard"},
           victims : SUBSET (Runs \X {"terminal", "unconfirmed"}), victim : Runs \cup {None}]

Idle == [pc |-> "idle", run |-> None, then |-> "idle", victims |-> {}, victim |-> None]

Init ==
  /\ file = [r \in Runs |-> None] /\ tombstone = [r \in Runs |-> None]
  /\ candidate = {} /\ receipt = {} /\ committed = {} /\ fresh = {} /\ later = {}
  /\ lock = [r \in Runs |-> None]
  /\ thread = [t \in Handlers |-> Idle]
  /\ submitted = {} /\ queue = << >>
  /\ calls = [r \in Runs |-> 0]
  /\ restarts = 0
-----------------------------------------------------------------------------
At(t, pc) == thread[t].pc = pc
Is(r, phases) == file[r] # None /\ file[r].phase \in phases
Free(r) == lock[r] = None

Goes(t, pc, r) == thread' = [thread EXCEPT ![t] = [Idle EXCEPT !.pc = pc, !.run = r]]
Ends(t) == thread' = [thread EXCEPT ![t] = Idle]

(* A handler that goes to look for old runs, and what it does after that.   *)
Lists(t, r, then) ==
  thread' = [thread EXCEPT ![t] = [Idle EXCEPT !.pc = "list", !.run = r, !.then = then]]

Writes(r, phase) == file' = [file EXCEPT ![r].phase = phase]

Finishes(r) ==
  later' = {p \in later : p[2] # r} \cup {<<r, q>> : q \in Runs \ {r}}

(* _transition, with the lock of the run: it is kept while others are       *)
(* pruned.                                                                  *)
Transition(t, r, phase, then) ==
  /\ Writes(r, phase)
  /\ Finishes(r)
  /\ lock' = [lock EXCEPT ![r] = t]
  /\ Lists(t, r, then)
  /\ UNCHANGED <<tombstone, receipt, fresh, committed, submitted, queue, calls, restarts>>

-----------------------------------------------------------------------------
(* Requests.                                                               *)

(* The first POST of a request: the run is recorded, the lock released.     *)
Create(t, r) ==
  /\ At(t, "idle")
  /\ Free(r)
  /\ file[r] = None
  /\ tombstone[r] = None
  /\ \E remote \in BOOLEAN :
       file' = [file EXCEPT ![r] = [phase |-> "queued", remote |-> remote]]
  /\ fresh' = fresh \cup {r}
  /\ Lists(t, r, "submit")
  /\ UNCHANGED <<candidate, receipt, tombstone, lock, later, committed, submitted, queue,
                 calls, restarts>>

(* The same POST again: the run is there.                                   *)
PostAgain(t, r) ==
  /\ At(t, "idle")
  /\ Free(r)
  /\ file[r] # None
  /\ Goes(t, "submit", r)
  /\ UNCHANGED <<disk, lock, submitted, queue, calls, restarts>>

(* The run was committed to the remote planner, and its gate is closed.     *)
GateClosed(t) ==
  LET r == thread[t].run IN
  /\ At(t, "submit")
  /\ Free(r)
  /\ Is(r, Live)
  /\ file[r].remote
  /\ Transition(t, r, "failed", "idle")
  /\ UNCHANGED candidate

Submit(t) ==
  LET r == thread[t].run IN
  /\ At(t, "submit")
  /\ Free(r) \/ r \in submitted
  /\ IF Is(r, {"queued"}) /\ r \notin submitted
     THEN submitted' = submitted \cup {r} /\ queue' = Append(queue, r)
     ELSE UNCHANGED <<submitted, queue>>
  /\ Ends(t)
  /\ UNCHANGED <<disk, lock, calls, restarts>>

Cancel(t, r) ==
  /\ At(t, "idle")
  /\ Free(r)
  /\ \/ /\ Is(r, {"queued", "succeeded"})
        /\ Transition(t, r, "cancelled", "idle")
        /\ UNCHANGED candidate
     \/ /\ Is(r, {"running"})
        /\ Writes(r, "running_cancel_requested")
        /\ UNCHANGED <<candidate, receipt, tombstone, later, fresh, committed, process,
                       calls, restarts>>

(* A read: a live run that is not with the worker is given up, in a second  *)
(* step that looks at the run again.                                        *)
Look(t, r) ==
  /\ At(t, "idle")
  /\ Free(r)
  /\ Is(r, Live)
  /\ r \notin submitted
  /\ Goes(t, "recover", r)
  /\ UNCHANGED <<disk, lock, submitted, queue, calls, restarts>>

(* A faulty recovery could leave a run that is only queued.                 *)
GivesUpRunning(t) ==
  LET r == thread[t].run IN
  /\ At(t, "recover")
  /\ Free(r)
  /\ IF Is(r, Live \ {"queued"})
     THEN Transition(t, r, "failed", "idle") /\ UNCHANGED candidate
     ELSE Ends(t) /\ UNCHANGED <<disk, lock, submitted, queue, calls, restarts>>

GiveUp(t) ==
  LET r == thread[t].run IN
  /\ At(t, "recover")
  /\ Free(r)
  /\ IF Is(r, Live)
     THEN Transition(t, r, "failed", "idle") /\ UNCHANGED candidate
     ELSE Ends(t) /\ UNCHANGED <<disk, lock, submitted, queue, calls, restarts>>
-----------------------------------------------------------------------------
(* Confirmation: the graph, the receipt and the run, under the run's lock. *)

Appends(r) ==
  /\ committed' = committed \cup {r}
  /\ fresh' = IF r \in committed THEN fresh ELSE {}

Confirm(t, r) ==
  /\ At(t, "idle")
  /\ Free(r)
  /\ Is(r, {"succeeded"})
  /\ r \in candidate
  /\ r \in committed \cup fresh
  /\ Appends(r)
  /\ lock' = [lock EXCEPT ![r] = t]
  /\ Goes(t, "committed", r)
  /\ UNCHANGED <<file, candidate, receipt, tombstone, later, submitted, queue, calls, restarts>>

(* A faulty confirmation could leave the receipt to the tombstone.          *)
WritesNoReceipt(t) ==
  /\ At(t, "committed")
  /\ Goes(t, "receipt", thread[t].run)
  /\ UNCHANGED <<disk, lock, submitted, queue, calls, restarts>>

WriteReceipt(t) ==
  /\ At(t, "committed")
  /\ receipt' = receipt \cup {thread[t].run}
  /\ Goes(t, "receipt", thread[t].run)
  /\ UNCHANGED <<file, candidate, tombstone, later, fresh, committed, lock, submitted, queue,
                 calls, restarts>>

WriteConfirmed(t) ==
  LET r == thread[t].run IN
  /\ At(t, "receipt")
  /\ Writes(r, "confirmed")
  /\ Finishes(r)
  /\ lock' = [lock EXCEPT ![r] = None]
  /\ Lists(t, r, "idle")
  /\ UNCHANGED <<candidate, receipt, tombstone, fresh, committed, submitted, queue, calls, restarts>>

(* Any other change of the graph.                                           *)
GraphChanges ==
  /\ fresh # {}
  /\ fresh' = {}
  /\ UNCHANGED <<file, candidate, receipt, tombstone, later, committed, process, calls, restarts>>
-----------------------------------------------------------------------------
(* The worker.                                                             *)

BeginDispatch ==
  /\ At(Worker, "idle")
  /\ queue # << >>
  /\ LET r == Head(queue) IN
       /\ Free(r)
       /\ IF Is(r, {"queued"}) THEN Writes(r, "running") ELSE UNCHANGED file
       /\ Goes(Worker, IF Is(r, {"queued", "running"}) THEN "dispatched" ELSE "discard", r)
  /\ queue' = Tail(queue)
  /\ UNCHANGED <<candidate, receipt, tombstone, later, fresh, committed, lock, submitted,
                 calls, restarts>>

CallPlanner ==
  LET r == thread[Worker].run IN
  /\ At(Worker, "dispatched")
  /\ calls' = [calls EXCEPT ![r] = @ + 1]
  /\ Goes(Worker, "planning", r)
  /\ UNCHANGED <<disk, lock, submitted, queue, restarts>>

WriteCandidate ==
  LET r == thread[Worker].run IN
  /\ At(Worker, "planning")
  /\ Free(r)
  /\ Is(r, Live)
  /\ candidate' = candidate \cup {r}
  /\ lock' = [lock EXCEPT ![r] = Worker]
  /\ Goes(Worker, "candidate", r)
  /\ UNCHANGED <<file, receipt, tombstone, later, fresh, committed, submitted, queue, calls, restarts>>

Succeed ==
  /\ At(Worker, "candidate")
  /\ Transition(Worker, thread[Worker].run, "succeeded", "discard")
  /\ UNCHANGED candidate

PlannerFails ==
  LET r == thread[Worker].run IN
  /\ At(Worker, "planning")
  /\ Free(r)
  /\ Is(r, Live)
  /\ Transition(Worker, r, "failed", "discard")
  /\ UNCHANGED candidate

(* The run has ended, or is pruned, while it was planned.                   *)
AnswerUnused ==
  LET r == thread[Worker].run IN
  /\ At(Worker, "planning")
  /\ Free(r)
  /\ ~Is(r, Live)
  /\ Goes(Worker, "discard", r)
  /\ UNCHANGED <<disk, lock, submitted, queue, calls, restarts>>

Discard ==
  /\ At(Worker, "discard")
  /\ submitted' = submitted \ {thread[Worker].run}
  /\ Ends(Worker)
  /\ UNCHANGED <<disk, lock, queue, calls, restarts>>
-----------------------------------------------------------------------------
(* prune_runs.                                                             *)

Group(r) == IF Is(r, Prunable) THEN "terminal"
            ELSE IF Is(r, {"succeeded"}) THEN "unconfirmed" ELSE "none"

Kept == [terminal |-> MaxTerminal, unconfirmed |-> MaxUnconfirmed]

(* The runs beyond the newest of their group, the handler's own excepted.   *)
Old(own) ==
  {v \in (Runs \ {own}) \X {"terminal", "unconfirmed"} :
     /\ Group(v[1]) = v[2]
     /\ Cardinality({q \in Runs : Group(q) = v[2] /\ <<q, v[1]>> \in later}) >= Kept[v[2]]}

List(t) ==
  /\ At(t, "list")
  /\ thread' = [thread EXCEPT ![t].pc = "prune", ![t].victims = Old(thread[t].run)]
  /\ UNCHANGED <<disk, lock, submitted, queue, calls, restarts>>

(* A faulty pruning could leave no trace of the run, or forget how it ended.*)
RecordsNothing(r) == UNCHANGED tombstone
RecordsExpired(r) == tombstone' = [tombstone EXCEPT ![r] = "expired"]

Records(r) == tombstone' = [tombstone EXCEPT ![r] = file[r].phase]

Prune(t) ==
  /\ At(t, "prune")
  /\ \E v \in thread[t].victims :
       /\ Free(v[1])
       /\ IF Group(v[1]) = v[2]
          THEN /\ Records(v[1])
               /\ lock' = [lock EXCEPT ![v[1]] = t]
               /\ thread' = [thread EXCEPT ![t].pc = "remove", ![t].victim = v[1],
                                           ![t].victims = @ \ {v}]
          ELSE /\ thread' = [thread EXCEPT ![t].victims = @ \ {v}]
               /\ UNCHANGED <<tombstone, lock>>
  /\ UNCHANGED <<file, candidate, receipt, later, fresh, committed, submitted, queue,
                 calls, restarts>>

(* rmtree, in the order the directory lists its files.                      *)
RemoveFile(t) ==
  LET r == thread[t].victim IN
  /\ At(t, "remove")
  /\ \/ /\ file[r] # None
        /\ file' = [file EXCEPT ![r] = None]
        /\ UNCHANGED <<candidate, receipt>>
     \/ r \in candidate /\ candidate' = candidate \ {r} /\ UNCHANGED <<file, receipt>>
     \/ r \in receipt /\ receipt' = receipt \ {r} /\ UNCHANGED <<file, candidate>>
  /\ UNCHANGED <<tombstone, later, fresh, committed, process, calls, restarts>>

Removed(t) ==
  LET r == thread[t].victim IN
  /\ At(t, "remove")
  /\ file[r] = None /\ r \notin candidate \cup receipt
  /\ lock' = [lock EXCEPT ![r] = None]
  /\ thread' = [thread EXCEPT ![t].pc = "prune", ![t].victim = None]
  /\ UNCHANGED <<disk, submitted, queue, calls, restarts>>

(* The lock of the handler's own run is released, when it has it.           *)
PruneEnds(t) ==
  LET r == thread[t].run IN
  /\ At(t, "prune")
  /\ thread[t].victims = {}
  /\ lock' = [lock EXCEPT ![r] = IF @ = t THEN None ELSE @]
  /\ IF thread[t].then = "idle" THEN Ends(t) ELSE Goes(t, thread[t].then, r)
  /\ UNCHANGED <<disk, submitted, queue, calls, restarts>>
-----------------------------------------------------------------------------
Restart ==
  /\ restarts < MaxRestarts
  /\ restarts' = restarts + 1
  /\ thread' = [t \in Handlers |-> Idle]
  /\ lock' = [r \in Runs |-> None]
  /\ submitted' = {}
  /\ queue' = << >>
  /\ UNCHANGED <<disk, calls>>

Pruning(t) == List(t) \/ Prune(t) \/ RemoveFile(t) \/ Removed(t) \/ PruneEnds(t)

Handling(t) == \/ GateClosed(t) \/ Submit(t) \/ GiveUp(t)
               \/ WriteReceipt(t) \/ WriteConfirmed(t) \/ Pruning(t)

Working == \/ BeginDispatch \/ CallPlanner \/ WriteCandidate \/ Succeed \/ PlannerFails
           \/ AnswerUnused \/ Discard \/ Pruning(Worker)

Requests(t) == \E r \in Runs : Create(t, r) \/ PostAgain(t, r) \/ Cancel(t, r)
                               \/ Look(t, r) \/ Confirm(t, r)

Next == \/ \E t \in Threads : Handling(t) \/ Requests(t)
        \/ Working
        \/ GraphChanges
        \/ Restart

Spec == Init /\ [][Next]_vars

(* Handlers and the worker go on; a client reads its run again and again.   *)
Fairness ==
  /\ \A t \in Threads : WF_vars(Handling(t))
  /\ WF_vars(Working)
  /\ \A r \in Runs : SF_vars(\E t \in Threads : Look(t, r))

FairSpec == Spec /\ Fairness
-----------------------------------------------------------------------------
(* Every variable has its type, and a lock is with a handler at work.       *)
TypeOK ==
  /\ file \in [Runs -> Run \cup {None}]
  /\ tombstone \in [Runs -> Phases \cup {None}]
  /\ candidate \subseteq Runs /\ receipt \subseteq Runs
  /\ fresh \subseteq Runs /\ committed \subseteq Runs
  /\ later \subseteq Runs \X Runs
  /\ lock \in [Runs -> Handlers \cup {None}]
  /\ thread \in [Handlers -> Thread]
  /\ submitted \subseteq Runs
  /\ queue \in Seq(Runs)
  /\ calls \in [Runs -> Nat]
  /\ restarts \in Nat

(* What is kept of a run: its file, or the tombstone of the pruned run.     *)
Outcome(r) ==
  IF file[r] # None
  THEN IF file[r].phase \in Live THEN "live" ELSE file[r].phase
  ELSE IF tombstone[r] # None THEN tombstone[r] ELSE "none"

Outcomes == [r \in Runs |-> Outcome(r)]

(* The runs keep what their clients are promised, across restarts, pruning  *)
(* that stops half way, cancellation and recovery: a request is planned at  *)
(* most once and its end, once written, only moves from succeeded to        *)
(* confirmed or cancelled.                                                  *)
Promise == INSTANCE PreviewPromise WITH outcome <- Outcomes

Promised == Promise!Spec

(* A confirmed run is in the graph, and there is always something to answer *)
(* its client with: the receipt, or the tombstone that holds a short one.   *)
ReceiptsKept ==
  \A r \in Runs : Outcome(r) = "confirmed" =>
     /\ r \in committed
     /\ r \in receipt \/ tombstone[r] = "confirmed"

(* A run that was asked for ends, whatever stops on the way, as long as its *)
(* client looks again.                                                      *)
LiveRunsEnd == \A r \in Runs : Is(r, Live) ~> ~Is(r, Live)

=============================================================================
