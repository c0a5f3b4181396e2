------------------------- MODULE PreviewRunsProofs -------------------------
(***************************************************************************)
(* What PreviewRuns keeps for any number of runs, handlers and restarts:   *)
(* the types, the receipts of confirmed runs, and what PreviewPromise      *)
(* promises the client of a run.                                           *)
(***************************************************************************)
EXTENDS PreviewRuns, TLAPS

USE DEF At

-----------------------------------------------------------------------------
(* The inductive invariant.                                                *)

ThreadPlaces == {"idle", "submit", "recover", "committed", "receipt", "list", "prune", "remove"}
WorkerPlaces == {"idle", "dispatched", "planning", "candidate", "discard", "list", "prune",
                 "remove"}

(* Where a handler can be, and that it has a run there.                     *)
Places ==
  /\ \A t \in Threads : thread[t].pc \in ThreadPlaces /\ thread[t].then \in {"idle", "submit"}
  /\ thread[Worker].pc \in WorkerPlaces
  /\ thread[Worker].pc \in {"list", "prune", "remove"} => thread[Worker].then = "discard"
  /\ \A t \in Handlers : /\ thread[t].pc # "idle" => thread[t].run \in Runs
                         /\ thread[t].pc = "remove" => thread[t].victim \in Runs

(* A handler between two writes about a run has the run's lock.             *)
Locks ==
  \A t \in Handlers :
     /\ thread[t].pc \in {"committed", "receipt", "candidate"} => lock[thread[t].run] = t
     /\ thread[t].pc = "remove" => lock[thread[t].victim] = t

(* What a confirmation has written when it gets to its next write.          *)
Confirming ==
  \A t \in Threads : thread[t].pc \in {"committed", "receipt"} =>
     /\ Is(thread[t].run, {"succeeded"})
     /\ thread[t].run \in committed
     /\ thread[t].pc = "receipt" => thread[t].run \in receipt

(* Only runs that have ended are pruned, and the tombstone of a run whose   *)
(* files are being removed says how it ended.                               *)
Tombs ==
  /\ \A r \in Runs : tombstone[r] \in Prunable \cup {"succeeded", None}
  /\ \A t \in Handlers : thread[t].pc = "remove" =>
       LET r == thread[t].victim IN
       /\ tombstone[r] # None
       /\ file[r] # None => tombstone[r] = file[r].phase

(* A run is queued once, not while it is with the worker, and is not        *)
(* running as long as it is queued.                                         *)
Waiting(run, tomb) ==
  /\ run # None \/ tomb # None
  /\ run # None => run.phase \notin {"running", "running_cancel_requested"}

Queued ==
  /\ \A i, j \in 1 .. Len(queue) : queue[i] = queue[j] => i = j
  /\ \A i \in 1 .. Len(queue) :
       queue[i] \in submitted /\ Waiting(file[queue[i]], tombstone[queue[i]])
  /\ thread[Worker].pc # "idle" =>
       /\ thread[Worker].run \in submitted
       /\ \A i \in 1 .. Len(queue) : queue[i] # thread[Worker].run

(* How often the planner has been called for a run, from where it stands    *)
(* and from where the worker is with it.                                    *)
Planned ==
  /\ \A r \in Runs : Outcome(r) = "none" \/ Is(r, {"queued"}) => calls[r] = 0
  /\ LET r == thread[Worker].run IN
     /\ thread[Worker].pc = "dispatched" =>
          calls[r] = 0 /\ ~Is(r, {"queued"}) /\ Outcome(r) \in {"live", "failed"}
     /\ thread[Worker].pc \in {"planning", "candidate"} => calls[r] = 1
     /\ thread[Worker].pc = "candidate" => Is(r, Live)

Inv == TypeOK /\ Places /\ Locks /\ Confirming /\ Tombs /\ Queued /\ Planned /\ ReceiptsKept
-----------------------------------------------------------------------------
(* The two ways in which a handler moves on.                               *)

LEMMA GoesTo ==
  ASSUME thread \in [Handlers -> Thread], NEW t \in Handlers, NEW r \in Runs \cup {None},
         NEW pc \in {"idle", "submit", "recover", "dispatched", "planning", "candidate", "discard",
                     "committed", "receipt", "list", "prune", "remove"},
         Goes(t, pc, r)
  PROVE  /\ thread' \in [Handlers -> Thread]
         /\ thread'[t].pc = pc /\ thread'[t].run = r /\ thread'[t].then = "idle"
         /\ \A u \in Handlers \ {t} : thread'[u] = thread[u]
  <1>1. [Idle EXCEPT !.pc = pc, !.run = r] \in Thread
    BY DEF Idle, Thread
  <1>2. thread'[t] = [Idle EXCEPT !.pc = pc, !.run = r]
    BY DEF Goes
  <1> QED
    BY <1>1, <1>2 DEF Goes, Idle

LEMMA EndsAt ==
  ASSUME thread \in [Handlers -> Thread], NEW t \in Handlers, Ends(t)
  PROVE  /\ thread' \in [Handlers -> Thread]
         /\ thread'[t].pc = "idle" /\ thread'[t].run = None /\ thread'[t].then = "idle"
         /\ \A u \in Handlers \ {t} : thread'[u] = thread[u]
  <1>1. Idle \in Thread
    BY DEF Idle, Thread
  <1> QED
    BY <1>1 DEF Ends, Idle

LEMMA ListsAt ==
  ASSUME thread \in [Handlers -> Thread], NEW t \in Handlers, NEW r \in Runs,
         NEW then \in {"idle", "submit", "discard"}, Lists(t, r, then)
  PROVE  /\ thread' \in [Handlers -> Thread]
         /\ thread'[t].pc = "list" /\ thread'[t].run = r /\ thread'[t].then = then
         /\ \A u \in Handlers \ {t} : thread'[u] = thread[u]
  <1>1. [Idle EXCEPT !.pc = "list", !.run = r, !.then = then] \in Thread
    BY DEF Idle, Thread
  <1>2. thread'[t] = [Idle EXCEPT !.pc = "list", !.run = r, !.then = then]
    BY DEF Lists
  <1> QED
    BY <1>1, <1>2 DEF Lists, Idle

(* The files a step writes.                                                *)
LEMMA WritesType ==
  ASSUME file \in [Runs -> Run \cup {None}], NEW r \in Runs, NEW phase \in Phases,
         file[r] # None, Writes(r, phase)
  PROVE  /\ file' \in [Runs -> Run \cup {None}]
         /\ file'[r] # None /\ file'[r].phase = phase
         /\ \A q \in Runs \ {r} : file'[q] = file[q]
  <1>1. [file[r] EXCEPT !.phase = phase] \in Run
    BY DEF Run
  <1>2. file'[r] = [file[r] EXCEPT !.phase = phase]
    BY DEF Writes
  <1>3. file'[r].phase = phase
    BY <1>2 DEF Run
  <1> QED
    BY <1>1, <1>2, <1>3, NoneIsNoRun DEF Writes

LEMMA FinishesType ==
  ASSUME later \subseteq Runs \X Runs, NEW r \in Runs, Finishes(r)
  PROVE  later' \subseteq Runs \X Runs
  BY DEF Finishes

LEMMA TransitionType ==
  ASSUME TypeOK, NEW t \in Handlers, NEW r \in Runs, NEW phase \in Phases,
         NEW then \in {"idle", "submit", "discard"}, file[r] # None,
         Transition(t, r, phase, then), UNCHANGED candidate
  PROVE  TypeOK'
  BY WritesType, FinishesType, ListsAt DEF Transition, TypeOK

LEMMA NextCases ==
  ASSUME Next
  PROVE  \/ \E t \in Threads : Handling(t) \/ Requests(t)
         \/ Working \/ GraphChanges \/ Restart
  BY DEF Next

LEMMA OldType ==
  ASSUME NEW own
  PROVE  Old(own) \subseteq Runs \X {"terminal", "unconfirmed"}
  BY DEF Old

LEMMA PruningThread ==
  ASSUME NEW x \in Thread, NEW victims, victims \subseteq Runs \X {"terminal", "unconfirmed"},
         NEW victim \in Runs \cup {None}
  PROVE  /\ [x EXCEPT !.pc = "prune", !.victims = victims] \in Thread
         /\ [x EXCEPT !.pc = "prune", !.victim = victim] \in Thread
         /\ [x EXCEPT !.pc = "remove", !.victim = victim, !.victims = victims] \in Thread
         /\ [x EXCEPT !.victims = victims] \in Thread
  <1> DEFINE S == SUBSET (Runs \X {"terminal", "unconfirmed"})
  <1>1. Thread = [pc : {"idle", "submit", "recover", "dispatched", "planning", "candidate",
                        "discard", "committed", "receipt", "list", "prune", "remove"},
                  run : Runs \cup {None}, then : {"idle", "submit", "discard"},
                  victims : S, victim : Runs \cup {None}]
    BY DEF Thread
  <1>2. victims \in S
    OBVIOUS
  <1> HIDE DEF S
  <1> QED
    BY <1>1, <1>2

LEMMA VictimsType ==
  ASSUME NEW x \in Thread
  PROVE  x.victims \subseteq Runs \X {"terminal", "unconfirmed"}
  BY DEF Thread

LEMMA PruningType ==
  ASSUME TypeOK, Places, NEW t \in Handlers, Pruning(t)
  PROVE  TypeOK'
  <1> USE DEF Handlers
  <1>1. ASSUME List(t) PROVE TypeOK'
    <2>1. [thread[t] EXCEPT !.pc = "prune", !.victims = Old(thread[t].run)] \in Thread
      BY OldType, PruningThread DEF TypeOK
    <2> QED
      BY <1>1, <2>1 DEF List, TypeOK, disk
  <1>2. ASSUME Prune(t) PROVE TypeOK'
    <2>1. PICK v \in thread[t].victims :
            IF Group(v[1]) = v[2]
            THEN /\ Records(v[1])
                 /\ lock' = [lock EXCEPT ![v[1]] = t]
                 /\ thread' = [thread EXCEPT ![t].pc = "remove", ![t].victim = v[1],
                                             ![t].victims = @ \ {v}]
            ELSE /\ thread' = [thread EXCEPT ![t].victims = @ \ {v}]
                 /\ UNCHANGED <<tombstone, lock>>
      BY <1>2 DEF Prune
    <2>2. v \in Runs \X {"terminal", "unconfirmed"}
      BY <2>1, VictimsType DEF TypeOK
    <2>9. v[1] \in Runs /\ v[2] \in {"terminal", "unconfirmed"}
      BY <2>2
    <2>10. thread[t].victims \ {v} \subseteq Runs \X {"terminal", "unconfirmed"}
      BY VictimsType DEF TypeOK
    <2>3. [thread[t] EXCEPT !.victims = @ \ {v}] \in Thread
      BY <2>10, PruningThread DEF TypeOK
    <2>4. [thread[t] EXCEPT !.pc = "remove", !.victim = v[1], !.victims = @ \ {v}] \in Thread
      BY <2>9, <2>10, PruningThread DEF TypeOK
    <2>5. thread' \in [Handlers -> Thread]
      BY <2>1, <2>3, <2>4 DEF TypeOK
    <2>6. lock' \in [Runs -> Handlers \cup {None}]
      BY <2>1 DEF TypeOK
    <2>7. CASE Group(v[1]) = v[2]
      <3>1. file[v[1]] # None /\ file[v[1]].phase \in Phases
        BY <2>9, <2>7 DEF Group, Is, TypeOK, Run
      <3> QED
        BY <1>2, <2>1, <2>5, <2>6, <2>7, <3>1 DEF Prune, Records, TypeOK
    <2>8. CASE Group(v[1]) # v[2]
      BY <1>2, <2>1, <2>5, <2>6, <2>8 DEF Prune, TypeOK
    <2> QED
      BY <2>7, <2>8
  <1>3. ASSUME RemoveFile(t) PROVE TypeOK'
    BY <1>3 DEF RemoveFile, TypeOK, process
  <1>4. ASSUME Removed(t) PROVE TypeOK'
    <2>1. [thread[t] EXCEPT !.pc = "prune", !.victim = None] \in Thread
      <3>1. thread[t] \in Thread /\ thread[t].victims \subseteq Runs \X {"terminal", "unconfirmed"}
        BY VictimsType DEF TypeOK
      <3> QED
        BY <3>1, PruningThread
    <2> QED
      BY <1>4, <2>1 DEF Removed, TypeOK, disk
  <1>5. ASSUME PruneEnds(t) PROVE TypeOK'
    <2>1. thread[t].then \in {"idle", "submit", "discard"} /\ thread[t].run \in Runs
      BY <1>5 DEF TypeOK, Thread, PruneEnds, Places
    <2>2. thread' \in [Handlers -> Thread]
      <3>1. CASE thread[t].then = "idle"
        BY <1>5, <2>1, <3>1, EndsAt DEF PruneEnds, TypeOK
      <3>2. CASE thread[t].then # "idle"
        <4>1. Goes(t, thread[t].then, thread[t].run) /\ thread[t].then \in {"submit", "discard"}
          BY <1>5, <2>1, <3>2 DEF PruneEnds
        <4>2. thread \in [Handlers -> Thread]
          BY DEF TypeOK
        <4>3. CASE thread[t].then = "submit"
          BY <2>1, <4>1, <4>2, <4>3, GoesTo
        <4>4. CASE thread[t].then = "discard"
          BY <2>1, <4>1, <4>2, <4>4, GoesTo
        <4> QED
          BY <4>1, <4>3, <4>4
      <3> QED
        BY <3>1, <3>2
    <2>3. lock' \in [Runs -> Handlers \cup {None}]
      BY <1>5 DEF PruneEnds, TypeOK
    <2> QED
      BY <1>5, <2>2, <2>3 DEF PruneEnds, TypeOK, disk
  <1> QED
    BY <1>1, <1>2, <1>3, <1>4, <1>5 DEF Pruning

LEMMA HandlingType ==
  ASSUME TypeOK, Places, Confirming, NEW t \in Threads, Handling(t)
  PROVE  TypeOK'
  <1> USE DEF Handlers
  <1>0. thread[t].pc # "idle" => thread[t].run \in Runs
    BY DEF Places
  <1>1. ASSUME GateClosed(t) PROVE TypeOK'
    BY <1>0, <1>1, TransitionType DEF GateClosed, Is, Phases, Prunable
  <1>2. ASSUME Submit(t) PROVE TypeOK'
    <2>1. /\ submitted' \subseteq Runs /\ queue' \in Seq(Runs)
      <3>1. CASE Is(thread[t].run, {"queued"}) /\ thread[t].run \notin submitted
        <4>1. thread[t].run \in Runs /\ queue' = Append(queue, thread[t].run)
              /\ submitted' = submitted \cup {thread[t].run}
          BY <1>0, <1>2, <3>1 DEF Submit
        <4> QED
          BY <4>1 DEF TypeOK
      <3>2. CASE ~(Is(thread[t].run, {"queued"}) /\ thread[t].run \notin submitted)
        BY <1>2, <3>2 DEF Submit, TypeOK
      <3> QED
        BY <3>1, <3>2
    <2> QED
      BY <1>2, <2>1, EndsAt DEF Submit, TypeOK, disk
  <1>3. ASSUME GiveUp(t) PROVE TypeOK'
    <2>1. CASE Is(thread[t].run, Live)
      BY <1>0, <1>3, <2>1, TransitionType DEF GiveUp, Is, Phases, Prunable
    <2>2. CASE ~Is(thread[t].run, Live)
      BY <1>3, <2>2, EndsAt DEF GiveUp, TypeOK, disk
    <2> QED
      BY <2>1, <2>2
  <1>4. ASSUME WriteReceipt(t) PROVE TypeOK'
    BY <1>0, <1>4, GoesTo DEF WriteReceipt, TypeOK
  <1>5. ASSUME WriteConfirmed(t) PROVE TypeOK'
    <2>1. file' \in [Runs -> Run \cup {None}] /\ later' \subseteq Runs \X Runs
      <3>1. file[thread[t].run] # None
        BY <1>5 DEF WriteConfirmed, Confirming, Is
      <3> QED
        BY <1>0, <1>5, <3>1, WritesType, FinishesType DEF WriteConfirmed, TypeOK, Phases, Prunable
    <2>2. thread' \in [Handlers -> Thread]
      BY <1>0, <1>5, ListsAt DEF WriteConfirmed, TypeOK
    <2>3. lock' \in [Runs -> Handlers \cup {None}]
      BY <1>5 DEF WriteConfirmed, TypeOK
    <2> QED
      BY <1>5, <2>1, <2>2, <2>3 DEF WriteConfirmed, TypeOK
  <1> QED
    BY <1>1, <1>2, <1>3, <1>4, <1>5, PruningType DEF Handling

LEMMA RequestsType ==
  ASSUME TypeOK, NEW t \in Threads, Requests(t)
  PROVE  TypeOK'
  <1> USE DEF Handlers
  <1>0. PICK r \in Runs : \/ Create(t, r) \/ PostAgain(t, r) \/ Cancel(t, r)
                          \/ Look(t, r) \/ Confirm(t, r)
    BY DEF Requests
  <1>1. ASSUME Create(t, r) PROVE TypeOK'
    <2>1. file' \in [Runs -> Run \cup {None}]
      BY <1>1 DEF Create, TypeOK, Run, Phases, Live
    <2> QED
      BY <1>1, <2>1, ListsAt DEF Create, TypeOK
  <1>2. ASSUME PostAgain(t, r) PROVE TypeOK'
    BY <1>2, GoesTo DEF PostAgain, TypeOK, disk
  <1>3. ASSUME Cancel(t, r) PROVE TypeOK'
    <2>1. CASE Transition(t, r, "cancelled", "idle") /\ UNCHANGED candidate /\ file[r] # None
      BY <2>1, TransitionType DEF Phases, Prunable
    <2>2. CASE /\ Is(r, {"running"})
               /\ Writes(r, "running_cancel_requested")
               /\ UNCHANGED <<candidate, receipt, tombstone, later, fresh, committed, process,
                              calls, restarts>>
      BY <2>2, WritesType DEF TypeOK, Is, Phases, Live, process
    <2> QED
      BY <1>3, <2>1, <2>2 DEF Cancel, Is
  <1>4. ASSUME Look(t, r) PROVE TypeOK'
    BY <1>4, GoesTo DEF Look, TypeOK, disk
  <1>5. ASSUME Confirm(t, r) PROVE TypeOK'
    <2>1. committed' \subseteq Runs /\ fresh' \subseteq Runs
      BY <1>5 DEF Confirm, Appends, TypeOK
    <2> QED
      BY <1>5, <2>1, GoesTo DEF Confirm, TypeOK
  <1> QED
    BY <1>0, <1>1, <1>2, <1>3, <1>4, <1>5

LEMMA WorkingType ==
  ASSUME TypeOK, Places, Planned, Working
  PROVE  TypeOK'
  <1> USE DEF Handlers
  <1>0. thread[Worker].pc # "idle" => thread[Worker].run \in Runs
    BY DEF Places
  <1>1. ASSUME BeginDispatch PROVE TypeOK'
    <2>1. Head(queue) \in Runs /\ Tail(queue) \in Seq(Runs)
      BY <1>1 DEF BeginDispatch, TypeOK
    <2>2. file' \in [Runs -> Run \cup {None}]
      BY <1>1, <2>1, WritesType DEF BeginDispatch, TypeOK, Is, Phases, Live
    <2>3. thread' \in [Handlers -> Thread]
      BY <1>1, <2>1, GoesTo DEF BeginDispatch, TypeOK
    <2> QED
      BY <1>1, <2>1, <2>2, <2>3 DEF BeginDispatch, TypeOK
  <1>2. ASSUME CallPlanner PROVE TypeOK'
    <2>1. calls' \in [Runs -> Nat]
      BY <1>0, <1>2 DEF CallPlanner, TypeOK
    <2> QED
      BY <1>0, <1>2, <2>1, GoesTo DEF CallPlanner, TypeOK, disk
  <1>3. ASSUME WriteCandidate PROVE TypeOK'
    BY <1>0, <1>3, GoesTo DEF WriteCandidate, TypeOK
  <1>4. ASSUME Succeed PROVE TypeOK'
    BY <1>0, <1>4, TransitionType DEF Succeed, Planned, Is, Phases
  <1>5. ASSUME PlannerFails PROVE TypeOK'
    BY <1>0, <1>5, TransitionType DEF PlannerFails, Is, Phases, Prunable
  <1>6. ASSUME AnswerUnused PROVE TypeOK'
    BY <1>0, <1>6, GoesTo DEF AnswerUnused, TypeOK, disk
  <1>7. ASSUME Discard PROVE TypeOK'
    BY <1>7, EndsAt DEF Discard, TypeOK, disk
  <1> QED
    BY <1>1, <1>2, <1>3, <1>4, <1>5, <1>6, <1>7, PruningType DEF Working

LEMMA RestartType ==
  ASSUME TypeOK, Restart
  PROVE  TypeOK'
  <1>1. Idle \in Thread
    BY DEF Idle, Thread
  <1> QED
    BY <1>1 DEF Restart, TypeOK, disk

(* Every step keeps the types.                                              *)
LEMMA KeepsType ==
  ASSUME Inv, [Next]_vars
  PROVE  TypeOK'
  <1> USE DEF Inv
  <1>1. ASSUME GraphChanges PROVE TypeOK'
    BY <1>1 DEF GraphChanges, TypeOK, process
  <1>2. ASSUME UNCHANGED vars PROVE TypeOK'
    BY <1>2 DEF vars, disk, process, TypeOK
  <1> QED
    BY <1>1, <1>2, HandlingType, RequestsType, WorkingType, RestartType DEF Next
-----------------------------------------------------------------------------
(* Where the handlers are, and their locks.                                *)

(* Only the handler that acts moves, and a restart ends every one.          *)
LEMMA PlacesStep ==
  ASSUME Places, NEW t \in Handlers,
         \A u \in Handlers \ {t} : thread'[u] = thread[u],
         t \in Threads => thread'[t].pc \in ThreadPlaces /\ thread'[t].then \in {"idle", "submit"},
         t = Worker => /\ thread'[t].pc \in WorkerPlaces
                       /\ thread'[t].pc \in {"list", "prune", "remove"} => thread'[t].then = "discard",
         thread'[t].pc # "idle" => thread'[t].run \in Runs,
         thread'[t].pc = "remove" => thread'[t].victim \in Runs
  PROVE  Places'
  BY PreviewConstants DEF Places, Handlers

(* A step of the handler t moves no other handler, and leaves alone the     *)
(* runs that others have locked.                                            *)
Spares(t) ==
  /\ \A u \in Handlers \ {t} : thread'[u] = thread[u]
  /\ \A r \in Runs : lock[r] \notin {t, None} =>
       /\ lock'[r] = lock[r] /\ file'[r] = file[r] /\ tombstone'[r] = tombstone[r]
       /\ r \in committed => r \in committed'
       /\ r \in receipt => r \in receipt'

(* The step is right about the handler that makes it.                       *)
StandsRight(t) ==
  LET own == thread[t].run  victim == thread[t].victim IN
  /\ t \in Threads => thread[t].pc \in ThreadPlaces /\ thread[t].then \in {"idle", "submit"}
  /\ t = Worker => /\ thread[t].pc \in WorkerPlaces
                   /\ thread[t].pc \in {"list", "prune", "remove"} => thread[t].then = "discard"
  /\ thread[t].pc # "idle" => own \in Runs
  /\ thread[t].pc \in {"committed", "receipt", "candidate"} => lock[own] = t
  /\ thread[t].pc \in {"committed", "receipt"} =>
       Is(own, {"succeeded"}) /\ own \in committed /\ (thread[t].pc = "receipt" => own \in receipt)
  /\ thread[t].pc = "remove" =>
       /\ victim \in Runs
       /\ lock[victim] = t
       /\ tombstone[victim] # None
       /\ file[victim] # None => tombstone[victim] = file[victim].phase

LEMMA AllStandRight ==
  (\A t \in Handlers : StandsRight(t)) /\ (\A r \in Runs : tombstone[r] \in Prunable \cup {"succeeded", None})
    <=> Places /\ Locks /\ Confirming /\ Tombs
  BY PreviewConstants DEF StandsRight, Places, Locks, Confirming, Tombs, Handlers, ThreadPlaces, WorkerPlaces

LEMMA TransitionSpares ==
  ASSUME TypeOK, NEW t \in Handlers, NEW r \in Runs, NEW phase \in Phases,
         NEW then \in {"idle", "submit", "discard"}, file[r] # None, lock[r] \in {t, None},
         t \in Threads => then \in {"idle", "submit"}, t = Worker => then = "discard",
         Transition(t, r, phase, then), UNCHANGED candidate
  PROVE  Spares(t) /\ StandsRight(t)'
  <1>1. thread'[t].pc = "list" /\ thread'[t].run = r /\ thread'[t].then = then
        /\ \A u \in Handlers \ {t} : thread'[u] = thread[u]
    BY ListsAt DEF Transition, TypeOK
  <1>2. \A q \in Runs \ {r} : file'[q] = file[q] /\ lock'[q] = lock[q]
    BY WritesType DEF Transition, TypeOK
  <1> QED
    BY <1>1, <1>2 DEF Transition, Spares, StandsRight, ThreadPlaces, WorkerPlaces

LEMMA PruningSpares ==
  ASSUME TypeOK, NEW t \in Handlers, StandsRight(t), Pruning(t)
  PROVE  Spares(t) /\ StandsRight(t)'
  <1> USE PreviewConstants DEF Spares
  <1>1. ASSUME List(t) PROVE Spares(t) /\ StandsRight(t)'
    <2>1. /\ thread'[t].pc = "prune" /\ thread'[t].run = thread[t].run /\ thread'[t].then = thread[t].then
          /\ \A u \in Handlers \ {t} : thread'[u] = thread[u]
      BY <1>1 DEF List, TypeOK, Thread
    <2> QED
      BY <1>1, <2>1 DEF List, disk, StandsRight, ThreadPlaces, WorkerPlaces
  <1>2. ASSUME Prune(t) PROVE Spares(t) /\ StandsRight(t)'
    <2>1. PICK v \in thread[t].victims :
            /\ Free(v[1])
            /\ IF Group(v[1]) = v[2]
               THEN /\ Records(v[1])
                    /\ lock' = [lock EXCEPT ![v[1]] = t]
                    /\ thread' = [thread EXCEPT ![t].pc = "remove", ![t].victim = v[1],
                                                ![t].victims = @ \ {v}]
               ELSE /\ thread' = [thread EXCEPT ![t].victims = @ \ {v}]
                    /\ UNCHANGED <<tombstone, lock>>
      BY <1>2 DEF Prune
    <2>2. v \in Runs \X {"terminal", "unconfirmed"}
      BY <2>1, VictimsType DEF TypeOK
    <2> DEFINE r == v[1]
    <2>3. r \in Runs
      BY <2>2
    <2>4. \A u \in Handlers \ {t} : thread'[u] = thread[u]
      BY <2>1 DEF TypeOK
    <2>5. thread'[t].run = thread[t].run /\ thread'[t].then = thread[t].then
      BY <2>1 DEF TypeOK, Thread
    <2>7. CASE Group(r) = v[2]
      <3>1. thread'[t].pc = "remove" /\ thread'[t].victim = r
        BY <2>1, <2>7 DEF TypeOK, Thread
      <3>2. Records(r) /\ lock[r] = None /\ lock' = [lock EXCEPT ![r] = t] /\ UNCHANGED <<file, committed, receipt>>
        BY <1>2, <2>1, <2>7 DEF Prune, Free
      <3>3. tombstone'[r] = file[r].phase /\ lock'[r] = t
        BY <2>3, <3>2 DEF Records, TypeOK
      <3>4. file[r] # None /\ file[r].phase \in Phases
        BY <2>2, <2>3, <2>7 DEF Group, Is, TypeOK, Run
      <3>5. tombstone'[r] # None
        BY <3>3, <3>4, NoneIsNoRun
      <3>6. \A q \in Runs \ {r} : tombstone'[q] = tombstone[q] /\ lock'[q] = lock[q]
        BY <3>2 DEF Records, TypeOK
      <3>7. thread[t].pc = "prune"
        BY <1>2 DEF Prune
      <3> HIDE DEF r
      <3> QED
        BY <2>3, <2>4, <2>5, <3>1, <3>2, <3>3, <3>5, <3>6, <3>7 DEF StandsRight, ThreadPlaces, WorkerPlaces
    <2>8. CASE Group(r) # v[2]
      <3>1. thread'[t].pc = "prune"
        BY <1>2, <2>1, <2>8 DEF Prune, TypeOK, Thread
      <3> QED
        BY <1>2, <2>1, <2>4, <2>5, <2>8, <3>1 DEF Prune, StandsRight, ThreadPlaces, WorkerPlaces
    <2> QED
      BY <2>7, <2>8
  <1>3. ASSUME RemoveFile(t) PROVE Spares(t) /\ StandsRight(t)'
    <2>1. UNCHANGED <<thread, lock, tombstone, committed>> /\ thread[t].pc = "remove"
      BY <1>3 DEF RemoveFile, process
    <2> DEFINE r == thread[t].victim
    <2>2. \A q \in Runs \ {r} : file'[q] = file[q] /\ (q \in receipt => q \in receipt')
      BY <1>3 DEF RemoveFile, TypeOK
    <2>3. file'[r] # None => file'[r] = file[r]
      BY <1>3 DEF RemoveFile, TypeOK
    <2>4. r \in Runs /\ lock[r] = t
      BY <2>1 DEF StandsRight
    <2> QED
      BY <2>1, <2>2, <2>3, <2>4 DEF StandsRight
  <1>4. ASSUME Removed(t) PROVE Spares(t) /\ StandsRight(t)'
    <2>1. /\ thread'[t].pc = "prune" /\ thread'[t].run = thread[t].run /\ thread'[t].then = thread[t].then
          /\ \A u \in Handlers \ {t} : thread'[u] = thread[u]
      BY <1>4 DEF Removed, TypeOK, Thread
    <2>2. /\ \A q \in Runs \ {thread[t].victim} : lock'[q] = lock[q]
          /\ lock[thread[t].victim] = t
      BY <1>4 DEF Removed, TypeOK, StandsRight
    <2> QED
      BY <1>4, <2>1, <2>2 DEF Removed, disk, StandsRight, ThreadPlaces, WorkerPlaces
  <1>5. ASSUME PruneEnds(t) PROVE Spares(t) /\ StandsRight(t)'
    <2>1. \A q \in Runs : lock[q] # t => lock'[q] = lock[q]
      BY <1>5 DEF PruneEnds, TypeOK
    <2>2. UNCHANGED disk /\ thread[t].pc = "prune" /\ thread[t].run \in Runs
      BY <1>5 DEF PruneEnds, StandsRight
    <2>3. CASE thread[t].then = "idle"
      <3>1. thread'[t].pc = "idle" /\ thread'[t].then = "idle" /\ \A u \in Handlers \ {t} : thread'[u] = thread[u]
        BY <1>5, <2>3, EndsAt DEF PruneEnds, TypeOK
      <3> QED
        BY <2>1, <2>2, <3>1 DEF disk, StandsRight, ThreadPlaces, WorkerPlaces
    <2>4. CASE thread[t].then = "submit"
      <3>0. Goes(t, "submit", thread[t].run)
        BY <1>5, <2>4 DEF PruneEnds
      <3>1. /\ thread'[t].pc = "submit" /\ thread'[t].then = "idle" /\ thread'[t].run = thread[t].run
            /\ \A u \in Handlers \ {t} : thread'[u] = thread[u]
        BY <2>2, <3>0, GoesTo DEF TypeOK
      <3> QED
        BY <2>1, <2>2, <2>4, <3>1 DEF disk, StandsRight, ThreadPlaces, WorkerPlaces
    <2>5. CASE thread[t].then = "discard"
      <3>0. Goes(t, "discard", thread[t].run)
        BY <1>5, <2>5 DEF PruneEnds
      <3>1. /\ thread'[t].pc = "discard" /\ thread'[t].then = "idle" /\ thread'[t].run = thread[t].run
            /\ \A u \in Handlers \ {t} : thread'[u] = thread[u]
        BY <2>2, <3>0, GoesTo DEF TypeOK
      <3> QED
        BY <2>1, <2>2, <2>5, <3>1 DEF disk, StandsRight, ThreadPlaces, WorkerPlaces
    <2> QED
      BY <2>3, <2>4, <2>5 DEF TypeOK, Thread
  <1> QED
    BY <1>1, <1>2, <1>3, <1>4, <1>5 DEF Pruning

LEMMA HandlingSpares ==
  ASSUME TypeOK, NEW t \in Threads, StandsRight(t), Handling(t)
  PROVE  Spares(t) /\ StandsRight(t)'
  <1> USE PreviewConstants DEF Handlers
  <1>0. t \in Handlers /\ t # Worker /\ (thread[t].pc # "idle" => thread[t].run \in Runs)
    BY DEF StandsRight
  <1>1. ASSUME GateClosed(t) PROVE Spares(t) /\ StandsRight(t)'
    BY <1>0, <1>1, TransitionSpares DEF GateClosed, Is, Free, Phases, Prunable
  <1>2. ASSUME Submit(t) PROVE Spares(t) /\ StandsRight(t)'
    BY <1>0, <1>2, EndsAt DEF Submit, TypeOK, disk, Spares, StandsRight, ThreadPlaces
  <1>3. ASSUME GiveUp(t) PROVE Spares(t) /\ StandsRight(t)'
    <2>1. CASE Is(thread[t].run, Live)
      BY <1>0, <1>3, <2>1, TransitionSpares DEF GiveUp, Is, Free, Phases, Prunable
    <2>2. CASE ~Is(thread[t].run, Live)
      BY <1>0, <1>3, <2>2, EndsAt DEF GiveUp, TypeOK, disk, Spares, StandsRight, ThreadPlaces
    <2> QED
      BY <2>1, <2>2
  <1>4. ASSUME WriteReceipt(t) PROVE Spares(t) /\ StandsRight(t)'
    <2>1. /\ thread'[t].pc = "receipt" /\ thread'[t].then = "idle" /\ thread'[t].run = thread[t].run
          /\ \A u \in Handlers \ {t} : thread'[u] = thread[u]
      BY <1>0, <1>4, GoesTo DEF WriteReceipt, TypeOK
    <2> QED
      BY <1>0, <1>4, <2>1 DEF WriteReceipt, Spares, StandsRight, ThreadPlaces, Is
  <1>5. ASSUME WriteConfirmed(t) PROVE Spares(t) /\ StandsRight(t)'
    <2> DEFINE r == thread[t].run
    <2>1. r \in Runs /\ file[r] # None /\ lock[r] = t
      BY <1>0, <1>5 DEF WriteConfirmed, StandsRight, Is
    <2>2. /\ thread'[t].pc = "list" /\ thread'[t].then = "idle" /\ thread'[t].run = r
          /\ \A u \in Handlers \ {t} : thread'[u] = thread[u]
      BY <1>0, <1>5, ListsAt DEF WriteConfirmed, TypeOK
    <2>3. \A q \in Runs \ {r} : file'[q] = file[q] /\ lock'[q] = lock[q]
      BY <1>5, <2>1, WritesType DEF WriteConfirmed, TypeOK, Phases, Prunable
    <2> QED
      BY <1>0, <1>5, <2>1, <2>2, <2>3 DEF WriteConfirmed, Spares, StandsRight, ThreadPlaces
  <1> QED
    BY <1>0, <1>1, <1>2, <1>3, <1>4, <1>5, PruningSpares DEF Handling

LEMMA RequestsSpares ==
  ASSUME TypeOK, NEW t \in Threads, StandsRight(t), Requests(t)
  PROVE  Spares(t) /\ StandsRight(t)'
  <1> USE PreviewConstants DEF Handlers
  <1>0. PICK r \in Runs : \/ Create(t, r) \/ PostAgain(t, r) \/ Cancel(t, r)
                          \/ Look(t, r) \/ Confirm(t, r)
    BY DEF Requests
  <1>1. ASSUME Create(t, r) PROVE Spares(t) /\ StandsRight(t)'
    <2>1. /\ thread'[t].pc = "list" /\ thread'[t].then = "submit" /\ thread'[t].run = r
          /\ \A u \in Handlers \ {t} : thread'[u] = thread[u]
      BY <1>1, ListsAt DEF Create, TypeOK
    <2>2. \A q \in Runs \ {r} : file'[q] = file[q]
      BY <1>1 DEF Create, TypeOK
    <2> QED
      BY <1>1, <2>1, <2>2 DEF Create, Spares, StandsRight, ThreadPlaces, Free
  <1>2. ASSUME PostAgain(t, r) PROVE Spares(t) /\ StandsRight(t)'
    BY <1>2, GoesTo DEF PostAgain, TypeOK, disk, Spares, StandsRight, ThreadPlaces
  <1>3. ASSUME Cancel(t, r) PROVE Spares(t) /\ StandsRight(t)'
    <2>1. CASE Transition(t, r, "cancelled", "idle") /\ UNCHANGED candidate
      BY <1>3, <2>1, TransitionSpares DEF Cancel, Is, Free, Phases, Prunable
    <2>2. CASE /\ Is(r, {"running"})
               /\ Writes(r, "running_cancel_requested")
               /\ UNCHANGED <<candidate, receipt, tombstone, later, fresh, committed, process,
                              calls, restarts>>
      <3>1. \A q \in Runs \ {r} : file'[q] = file[q]
        BY <2>2, WritesType DEF TypeOK, Is, Phases, Live
      <3>2. thread[t].pc = "idle" /\ lock[r] = None
        BY <1>3 DEF Cancel, Free
      <3> QED
        BY <2>2, <3>1, <3>2 DEF Spares, StandsRight, process
    <2> QED
      BY <1>3, <2>1, <2>2 DEF Cancel
  <1>4. ASSUME Look(t, r) PROVE Spares(t) /\ StandsRight(t)'
    BY <1>4, GoesTo DEF Look, TypeOK, disk, Spares, StandsRight, ThreadPlaces
  <1>5. ASSUME Confirm(t, r) PROVE Spares(t) /\ StandsRight(t)'
    <2>1. /\ thread'[t].pc = "committed" /\ thread'[t].then = "idle" /\ thread'[t].run = r
          /\ \A u \in Handlers \ {t} : thread'[u] = thread[u]
      BY <1>5, GoesTo DEF Confirm, TypeOK
    <2>2. lock'[r] = t /\ \A q \in Runs \ {r} : lock'[q] = lock[q]
      BY <1>5 DEF Confirm, TypeOK
    <2> QED
      BY <1>5, <2>1, <2>2 DEF Confirm, Appends, Spares, StandsRight, ThreadPlaces, Free, Is
  <1> QED
    BY <1>0, <1>1, <1>2, <1>3, <1>4, <1>5

LEMMA WorkingSpares ==
  ASSUME TypeOK, StandsRight(Worker), Planned, Working
  PROVE  Spares(Worker) /\ StandsRight(Worker)'
  <1> USE PreviewConstants DEF Handlers
  <1> DEFINE r == thread[Worker].run
  <1>0. Worker \in Handlers /\ Worker \notin Threads /\ (thread[Worker].pc # "idle" => r \in Runs)
    BY DEF StandsRight
  <1>1. ASSUME BeginDispatch PROVE Spares(Worker) /\ StandsRight(Worker)'
    <2> DEFINE h == Head(queue)
    <2>1. h \in Runs /\ lock[h] = None
      BY <1>1 DEF BeginDispatch, TypeOK, Free
    <2>2. \A q \in Runs \ {h} : file'[q] = file[q]
      BY <1>1, <2>1, WritesType DEF BeginDispatch, TypeOK, Is, Phases, Live
    <2>3. /\ thread'[Worker].pc \in {"dispatched", "discard"} /\ thread'[Worker].run = h
          /\ \A u \in Handlers \ {Worker} : thread'[u] = thread[u]
      BY <1>1, <2>1, GoesTo DEF BeginDispatch, TypeOK
    <2> HIDE DEF h
    <2> QED
      BY <1>0, <1>1, <2>1, <2>2, <2>3 DEF BeginDispatch, Spares, StandsRight, WorkerPlaces
  <1>2. ASSUME CallPlanner PROVE Spares(Worker) /\ StandsRight(Worker)'
    BY <1>0, <1>2, GoesTo DEF CallPlanner, TypeOK, disk, Spares, StandsRight, WorkerPlaces
  <1>3. ASSUME WriteCandidate PROVE Spares(Worker) /\ StandsRight(Worker)'
    <2>1. /\ thread'[Worker].pc = "candidate" /\ thread'[Worker].run = r
          /\ \A u \in Handlers \ {Worker} : thread'[u] = thread[u]
      BY <1>0, <1>3, GoesTo DEF WriteCandidate, TypeOK
    <2>2. lock'[r] = Worker /\ \A q \in Runs \ {r} : lock'[q] = lock[q]
      BY <1>0, <1>3 DEF WriteCandidate, TypeOK
    <2> QED
      BY <1>0, <1>3, <2>1, <2>2 DEF WriteCandidate, Free, Spares, StandsRight, WorkerPlaces
  <1>4. ASSUME Succeed PROVE Spares(Worker) /\ StandsRight(Worker)'
    BY <1>0, <1>4, TransitionSpares DEF Succeed, Planned, StandsRight, Is, Phases
  <1>5. ASSUME PlannerFails PROVE Spares(Worker) /\ StandsRight(Worker)'
    BY <1>0, <1>5, TransitionSpares DEF PlannerFails, Is, Free, Phases, Prunable
  <1>6. ASSUME AnswerUnused PROVE Spares(Worker) /\ StandsRight(Worker)'
    BY <1>0, <1>6, GoesTo DEF AnswerUnused, TypeOK, disk, Spares, StandsRight, WorkerPlaces
  <1>7. ASSUME Discard PROVE Spares(Worker) /\ StandsRight(Worker)'
    BY <1>0, <1>7, EndsAt DEF Discard, TypeOK, disk, Spares, StandsRight, WorkerPlaces
  <1> QED
    BY <1>0, <1>1, <1>2, <1>3, <1>4, <1>5, <1>6, <1>7, PruningSpares DEF Working

LEMMA KeepsStanding ==
  ASSUME Inv, NEW t \in Handlers, Spares(t), StandsRight(t)',
         \A r \in Runs : tombstone'[r] \in Prunable \cup {"succeeded", None}
  PROVE  Places' /\ Locks' /\ Confirming' /\ Tombs'
  <1>1. \A u \in Handlers : StandsRight(u)
    BY AllStandRight DEF Inv
  <1>2. ASSUME NEW u \in Handlers \ {t} PROVE StandsRight(u)'
    <2>1. thread'[u] = thread[u] /\ u \notin {t, None} /\ StandsRight(u)
      BY <1>1, PreviewConstants DEF Spares, Handlers
    <2> QED
      BY <2>1 DEF Spares, StandsRight, Is
  <1>3. \A u \in Handlers : StandsRight(u)'
    BY <1>2
  <1> QED
    BY <1>3, PreviewConstants
       DEF StandsRight, Places, Locks, Confirming, Tombs, Handlers, ThreadPlaces, WorkerPlaces
-----------------------------------------------------------------------------
(* How a step changes what is kept of the runs: at most one run changes,    *)
(* and in one of these ways.                                                *)

Alone(r) == \A q \in Runs \ {r} : file'[q] = file[q] /\ tombstone'[q] = tombstone[q]

IsAsked(r) ==
  /\ file[r] = None /\ tombstone[r] = None /\ tombstone'[r] = None
  /\ file'[r] # None /\ file'[r].phase = "queued"

GoesFrom(r, phases, phase) ==
  /\ Is(r, phases)
  /\ file'[r] # None /\ file'[r].phase = phase
  /\ tombstone'[r] = tombstone[r]

IsRecorded(r) ==
  /\ Is(r, Prunable \cup {"succeeded"})
  /\ file'[r] = file[r] /\ tombstone'[r] = file[r].phase

IsRemoved(r) ==
  /\ file[r] # None /\ tombstone[r] = file[r].phase
  /\ file'[r] = None /\ tombstone'[r] = tombstone[r]

IsDispatched(r) ==
  /\ GoesFrom(r, {"queued"}, "running")
  /\ thread[Worker].pc = "idle" /\ thread'[Worker].pc = "dispatched" /\ thread'[Worker].run = r
  /\ queue # << >> /\ r = Head(queue)

HasSucceeded(r) ==
  /\ GoesFrom(r, Live, "succeeded")
  /\ thread[Worker].pc = "candidate" /\ thread[Worker].run = r

IsConfirmed(r) ==
  /\ GoesFrom(r, {"succeeded"}, "confirmed")
  /\ r \in committed \cap receipt

RunChanges(r) ==
  /\ Alone(r)
  /\ \/ IsAsked(r) \/ IsRecorded(r) \/ IsRemoved(r) \/ IsDispatched(r) \/ HasSucceeded(r)
     \/ IsConfirmed(r)
     \/ GoesFrom(r, Live, "failed") \/ GoesFrom(r, {"queued", "succeeded"}, "cancelled")
     \/ GoesFrom(r, {"running"}, "running_cancel_requested")

FilesChange ==
  \/ UNCHANGED <<file, tombstone>>
  \/ UNCHANGED <<calls, committed>> /\ \E r \in Runs : RunChanges(r)

LEMMA TransitionChanges ==
  ASSUME TypeOK, NEW t \in Handlers, NEW r \in Runs, NEW phase \in Phases,
         NEW then \in {"idle", "submit", "discard"}, NEW phases, Is(r, phases),
         Transition(t, r, phase, then)
  PROVE  Alone(r) /\ GoesFrom(r, phases, phase) /\ UNCHANGED <<calls, committed, receipt, queue, submitted>>
  BY WritesType DEF Transition, TypeOK, Alone, GoesFrom, Is

LEMMA PruningChanges ==
  ASSUME TypeOK, NEW t \in Handlers, StandsRight(t), Pruning(t)
  PROVE  FilesChange
  <1>1. ASSUME Prune(t) PROVE FilesChange
    <2>1. PICK v \in thread[t].victims :
            IF Group(v[1]) = v[2] THEN Records(v[1]) ELSE UNCHANGED tombstone
      BY <1>1 DEF Prune
    <2>2. v \in Runs \X {"terminal", "unconfirmed"}
      BY <2>1, VictimsType DEF TypeOK
    <2>3. UNCHANGED <<file, calls, committed>>
      BY <1>1 DEF Prune
    <2> DEFINE r == v[1]
    <2>4. r \in Runs /\ v[2] \in {"terminal", "unconfirmed"}
      BY <2>2
    <2>5. CASE Group(r) = v[2]
      <3>1. Is(r, Prunable \cup {"succeeded"})
        BY <2>4, <2>5 DEF Group, Is
      <3>2. Records(r)
        BY <2>1, <2>5
      <3> HIDE DEF r
      <3>3. tombstone'[r] = file[r].phase /\ \A q \in Runs \ {r} : tombstone'[q] = tombstone[q]
        BY <2>4, <3>2 DEF Records, TypeOK
      <3> QED
        BY <2>3, <2>4, <3>1, <3>3 DEF FilesChange, RunChanges, Alone, IsRecorded
    <2>6. CASE Group(r) # v[2]
      BY <2>1, <2>3, <2>6 DEF FilesChange
    <2> QED
      BY <2>5, <2>6
  <1>2. ASSUME RemoveFile(t) PROVE FilesChange
    <2> DEFINE r == thread[t].victim
    <2>1. r \in Runs /\ (file[r] # None => tombstone[r] = file[r].phase) /\ UNCHANGED <<tombstone, calls, committed>>
      BY <1>2 DEF RemoveFile, StandsRight
    <2>2. CASE file[r] # None /\ file' = [file EXCEPT ![r] = None]
      BY <2>1, <2>2 DEF FilesChange, RunChanges, Alone, IsRemoved, TypeOK
    <2>3. CASE UNCHANGED file
      BY <2>1, <2>3 DEF FilesChange
    <2> QED
      BY <1>2, <2>2, <2>3 DEF RemoveFile
  <1> QED
    BY <1>1, <1>2 DEF Pruning, List, Removed, PruneEnds, FilesChange, disk

LEMMA StepsChangeFiles ==
  ASSUME Inv, [Next]_vars
  PROVE  FilesChange
  <1> USE DEF Handlers
  <1>0. TypeOK /\ \A t \in Handlers : StandsRight(t)
    BY AllStandRight DEF Inv
  <1>1. ASSUME NEW t \in Threads, Handling(t) PROVE FilesChange
    <2> DEFINE r == thread[t].run
    <2>0. StandsRight(t) /\ (thread[t].pc # "idle" => r \in Runs)
      BY <1>0 DEF StandsRight
    <2>1. ASSUME GateClosed(t) PROVE FilesChange
      BY <1>0, <2>0, <2>1, TransitionChanges DEF GateClosed, FilesChange, RunChanges, Phases, Prunable
    <2>2. ASSUME Submit(t) PROVE FilesChange
      BY <2>2 DEF Submit, disk, FilesChange
    <2>3. ASSUME GiveUp(t) PROVE FilesChange
      <3>1. CASE Is(r, Live)
        BY <1>0, <2>0, <2>3, <3>1, TransitionChanges DEF GiveUp, FilesChange, RunChanges, Phases, Prunable
      <3>2. CASE ~Is(r, Live)
        BY <2>3, <3>2 DEF GiveUp, disk, FilesChange
      <3> QED
        BY <3>1, <3>2
    <2>4. ASSUME WriteReceipt(t) PROVE FilesChange
      BY <2>4 DEF WriteReceipt, FilesChange
    <2>5. ASSUME WriteConfirmed(t) PROVE FilesChange
      <3>1. r \in Runs /\ Is(r, {"succeeded"}) /\ r \in committed /\ r \in receipt
        BY <2>0, <2>5 DEF WriteConfirmed, StandsRight
      <3>2. UNCHANGED <<tombstone, calls, committed>> /\ Writes(r, "confirmed")
        BY <2>5 DEF WriteConfirmed
      <3>3. Alone(r) /\ GoesFrom(r, {"succeeded"}, "confirmed")
        BY <1>0, <3>1, <3>2, WritesType DEF TypeOK, Alone, GoesFrom, Is, Phases, Prunable
      <3> QED
        BY <3>1, <3>2, <3>3 DEF FilesChange, RunChanges, IsConfirmed
    <2> QED
      BY <1>0, <1>1, <2>1, <2>2, <2>3, <2>4, <2>5, PruningChanges DEF Handling
  <1>2. ASSUME NEW t \in Threads, Requests(t) PROVE FilesChange
    <2>0. PICK r \in Runs : \/ Create(t, r) \/ PostAgain(t, r) \/ Cancel(t, r)
                            \/ Look(t, r) \/ Confirm(t, r)
      BY <1>2 DEF Requests
    <2>1. ASSUME Create(t, r) PROVE FilesChange
      <3>1. PICK remote \in BOOLEAN : file' = [file EXCEPT ![r] = [phase |-> "queued", remote |-> remote]]
        BY <2>1 DEF Create
      <3>2. file'[r] = [phase |-> "queued", remote |-> remote] /\ \A q \in Runs \ {r} : file'[q] = file[q]
        BY <1>0, <3>1 DEF TypeOK
      <3>3. file'[r] # None
        BY <3>2, NoneIsNoRun DEF Run, Phases, Live
      <3> QED
        BY <2>1, <3>2, <3>3 DEF Create, FilesChange, RunChanges, Alone, IsAsked
    <2>2. ASSUME Cancel(t, r) PROVE FilesChange
      <3>1. CASE Is(r, {"queued", "succeeded"}) /\ Transition(t, r, "cancelled", "idle")
        BY <1>0, <3>1, TransitionChanges DEF FilesChange, RunChanges, Phases, Prunable
      <3>2. CASE /\ Is(r, {"running"})
                 /\ Writes(r, "running_cancel_requested")
                 /\ UNCHANGED <<tombstone, committed, calls>>
        BY <1>0, <3>2, WritesType DEF TypeOK, FilesChange, RunChanges, Alone, GoesFrom, Is, Phases, Live
      <3> QED
        BY <2>2, <3>1, <3>2 DEF Cancel
    <2> QED
      BY <2>0, <2>1, <2>2 DEF PostAgain, Look, Confirm, FilesChange, disk
  <1>3. ASSUME Working PROVE FilesChange
    <2> DEFINE r == thread[Worker].run
    <2>0. StandsRight(Worker) /\ (thread[Worker].pc # "idle" => r \in Runs)
      BY <1>0 DEF StandsRight
    <2>1. ASSUME BeginDispatch PROVE FilesChange
      <3> DEFINE h == Head(queue)
      <3>1. h \in Runs /\ queue # << >>
        BY <1>0, <2>1 DEF BeginDispatch, TypeOK
      <3>2. CASE Is(h, {"queued"})
        <4>1. Writes(h, "running") /\ Goes(Worker, "dispatched", h) /\ thread[Worker].pc = "idle"
              /\ UNCHANGED <<tombstone, calls, committed>>
          BY <2>1, <3>2 DEF BeginDispatch, Is
        <4>2. Alone(h) /\ GoesFrom(h, {"queued"}, "running")
          BY <1>0, <3>1, <3>2, <4>1, WritesType DEF TypeOK, Alone, GoesFrom, Is, Phases, Live
        <4>3. thread'[Worker].pc = "dispatched" /\ thread'[Worker].run = h
          BY <1>0, <3>1, <4>1, GoesTo DEF TypeOK
        <4> HIDE DEF h
        <4>4. h = Head(queue)
          BY DEF h
        <4> QED
          BY <3>1, <4>1, <4>2, <4>3, <4>4 DEF FilesChange, RunChanges, IsDispatched
      <3>3. CASE ~Is(h, {"queued"})
        BY <2>1, <3>3 DEF BeginDispatch, FilesChange
      <3> QED
        BY <3>2, <3>3
    <2>2. ASSUME Succeed PROVE FilesChange
      <3>1. Is(r, Live)
        BY <2>2 DEF Succeed, Inv, Planned
      <3> QED
        BY <1>0, <2>0, <2>2, <3>1, TransitionChanges DEF Succeed, FilesChange, RunChanges, HasSucceeded, Phases
    <2>3. ASSUME PlannerFails PROVE FilesChange
      BY <1>0, <2>0, <2>3, TransitionChanges DEF PlannerFails, FilesChange, RunChanges, Phases, Prunable
    <2>4. ASSUME CallPlanner \/ WriteCandidate \/ AnswerUnused \/ Discard PROVE FilesChange
      BY <2>4 DEF CallPlanner, WriteCandidate, AnswerUnused, Discard, FilesChange, disk
    <2> QED
      BY <1>0, <1>3, <2>0, <2>1, <2>2, <2>3, <2>4, PruningChanges DEF Working
  <1>4. ASSUME GraphChanges \/ Restart \/ UNCHANGED vars PROVE FilesChange
    BY <1>4 DEF GraphChanges, Restart, vars, disk, FilesChange
  <1> QED
    BY <1>1, <1>2, <1>3, <1>4 DEF Next

(* What such a change is to the client of the run.                          *)
LEMMA OutcomeStays ==
  ASSUME NEW r \in Runs, file'[r] = file[r], tombstone'[r] = tombstone[r]
  PROVE  Outcome(r)' = Outcome(r)
  BY DEF Outcome

LEMMA OutcomeMoves ==
  ASSUME TypeOK, Tombs, NEW r \in Runs, RunChanges(r)
  PROVE  \/ Outcome(r) = "none" /\ Outcome(r)' = "live"
         \/ Outcome(r)' = Outcome(r) /\ Outcome(r) # "none"
         \/ HasSucceeded(r) /\ Outcome(r) = "live" /\ Outcome(r)' = "succeeded"
         \/ Outcome(r) = "live" /\ Outcome(r)' = "failed"
         \/ Outcome(r) = "live" /\ Outcome(r)' = "cancelled" /\ Is(r, {"queued"})
         \/ IsConfirmed(r) /\ Outcome(r) = "succeeded" /\ Outcome(r)' = "confirmed"
         \/ Outcome(r) = "succeeded" /\ Outcome(r)' = "cancelled"
  <1> USE DEF Live, Prunable
  <1>1. CASE IsAsked(r)
    BY <1>1 DEF IsAsked, Outcome
  <1>2. CASE IsRecorded(r)
    BY <1>2 DEF IsRecorded, Outcome, Is
  <1>3. CASE IsRemoved(r)
    <2>1. file[r].phase \in Phases /\ file[r].phase = tombstone[r] /\ file[r] # None
      BY <1>3 DEF IsRemoved, TypeOK, Run
    <2> QED
      BY <1>3, <2>1, NoneIsNoRun DEF IsRemoved, Outcome, Tombs, Phases
  <1>4. CASE IsDispatched(r)
    BY <1>4 DEF IsDispatched, GoesFrom, Outcome, Is
  <1>5. CASE HasSucceeded(r)
    BY <1>5 DEF HasSucceeded, GoesFrom, Outcome, Is
  <1>6. CASE IsConfirmed(r)
    BY <1>6 DEF IsConfirmed, GoesFrom, Outcome, Is
  <1>7. CASE GoesFrom(r, Live, "failed")
    BY <1>7 DEF GoesFrom, Outcome, Is
  <1>8. CASE GoesFrom(r, {"queued", "succeeded"}, "cancelled")
    BY <1>8 DEF GoesFrom, Outcome, Is
  <1>9. CASE GoesFrom(r, {"running"}, "running_cancel_requested")
    BY <1>9 DEF GoesFrom, Outcome, Is
  <1> QED
    BY <1>1, <1>2, <1>3, <1>4, <1>5, <1>6, <1>7, <1>8, <1>9 DEF RunChanges

(* A run that is asked for stays asked for, and one that has failed failed. *)
LEMMA OutcomesStand ==
  ASSUME TypeOK, Tombs, FilesChange, NEW r \in Runs
  PROVE  /\ Outcome(r) # "none" => Outcome(r)' # "none"
         /\ Outcome(r) = "failed" => Outcome(r)' = "failed"
         /\ Outcome(r) = "confirmed" => Outcome(r)' = "confirmed"
  <1>1. CASE UNCHANGED <<file, tombstone>>
    BY <1>1, OutcomeStays
  <1>2. ASSUME NEW q \in Runs, RunChanges(q) PROVE (r # q => Outcome(r)' = Outcome(r))
    BY <1>2, OutcomeStays DEF RunChanges, Alone
  <1>3. ASSUME NEW q \in Runs, RunChanges(q), r = q
        PROVE  /\ Outcome(r) # "none" => Outcome(r)' # "none"
               /\ Outcome(r) = "failed" => Outcome(r)' = "failed"
               /\ Outcome(r) = "confirmed" => Outcome(r)' = "confirmed"
    BY <1>3, OutcomeMoves
  <1> QED
    BY <1>1, <1>2, <1>3 DEF FilesChange
-----------------------------------------------------------------------------
(* The parts of the invariant that a step keeps.                           *)

LEMMA KeepsTombstones ==
  ASSUME Inv, [Next]_vars
  PROVE  \A r \in Runs : tombstone'[r] \in Prunable \cup {"succeeded", None}
  <1>1. FilesChange
    BY StepsChangeFiles
  <1>2. \A r \in Runs : tombstone[r] \in Prunable \cup {"succeeded", None}
    BY DEF Inv, Tombs
  <1>3. CASE UNCHANGED tombstone
    BY <1>2, <1>3
  <1>4. ASSUME NEW q \in Runs, RunChanges(q) PROVE \A r \in Runs : tombstone'[r] \in Prunable \cup {"succeeded", None}
    BY <1>2, <1>4 DEF RunChanges, Alone, IsAsked, IsRecorded, IsRemoved, IsDispatched, HasSucceeded,
                      IsConfirmed, GoesFrom, Is
  <1> QED
    BY <1>1, <1>3, <1>4 DEF FilesChange

LEMMA KeepsPlaces ==
  ASSUME Inv, [Next]_vars
  PROVE  Places' /\ Locks' /\ Confirming' /\ Tombs'
  <1> USE PreviewConstants DEF Handlers
  <1>0. TypeOK /\ Planned /\ (\A t \in Handlers : StandsRight(t))
        /\ \A r \in Runs : tombstone'[r] \in Prunable \cup {"succeeded", None}
    BY AllStandRight, KeepsTombstones DEF Inv
  <1>1. ASSUME NEW t \in Threads, Handling(t) \/ Requests(t) PROVE Places' /\ Locks' /\ Confirming' /\ Tombs'
    BY <1>0, <1>1, HandlingSpares, RequestsSpares, KeepsStanding
  <1>2. ASSUME Working PROVE Places' /\ Locks' /\ Confirming' /\ Tombs'
    BY <1>0, <1>2, WorkingSpares, KeepsStanding
  <1>3. ASSUME Restart PROVE Places' /\ Locks' /\ Confirming' /\ Tombs'
    BY <1>0, <1>3 DEF Restart, Idle, Places, Locks, Confirming, Tombs, ThreadPlaces, WorkerPlaces
  <1>4. ASSUME UNCHANGED <<file, receipt, tombstone, committed, lock, thread>>
        PROVE  Places' /\ Locks' /\ Confirming' /\ Tombs'
    BY <1>4 DEF Inv, Places, Locks, Confirming, Tombs, Is
  <1> QED
    BY <1>1, <1>2, <1>3, <1>4 DEF Next, GraphChanges, vars, disk, process

(* The graph only grows, and a receipt is removed with its run's tombstone  *)
(* in place.                                                                *)
LEMMA ReceiptGoesLast ==
  ASSUME Inv, [Next]_vars, NEW r \in Runs, r \in receipt, r \notin receipt'
  PROVE  /\ UNCHANGED <<file, tombstone>>
         /\ tombstone[r] # None
         /\ file[r] # None => tombstone[r] = file[r].phase
  <1>1. PICK t \in Handlers : RemoveFile(t)
    <2> USE DEF disk, process, Transition
    <2>1. ASSUME NEW t \in Threads, Handling(t), ~RemoveFile(t) PROVE FALSE
      BY <2>1 DEF Handling, GateClosed, Submit, GiveUp, WriteReceipt, WriteConfirmed, Pruning, List,
                  Prune, Removed, PruneEnds
    <2>2. ASSUME NEW t \in Threads, Requests(t) PROVE FALSE
      BY <2>2 DEF Requests, Create, PostAgain, Cancel, Look, Confirm
    <2>3. ASSUME Working, ~RemoveFile(Worker) PROVE FALSE
      BY <2>3 DEF Working, BeginDispatch, CallPlanner, WriteCandidate, Succeed, PlannerFails,
                  AnswerUnused, Discard, Pruning, List, Prune, Removed, PruneEnds
    <2>4. ~GraphChanges /\ ~Restart /\ ~UNCHANGED vars
      BY DEF GraphChanges, Restart, vars
    <2> QED
      BY <2>1, <2>2, <2>3, <2>4 DEF Next, Handlers
  <1>2. UNCHANGED <<file, tombstone>> /\ r = thread[t].victim /\ thread[t].pc = "remove"
    BY <1>1 DEF RemoveFile
  <1> QED
    BY <1>2 DEF Inv, Tombs

LEMMA GraphGrows ==
  ASSUME [Next]_vars
  PROVE  committed \subseteq committed'
  <1> USE DEF disk, Transition
  <1>1. ASSUME NEW t \in Handlers, Pruning(t) PROVE UNCHANGED committed
    BY <1>1 DEF Pruning, List, Prune, RemoveFile, Removed, PruneEnds
  <1>2. ASSUME NEW t \in Threads, Handling(t) PROVE UNCHANGED committed
    BY <1>1, <1>2 DEF Handling, GateClosed, Submit, GiveUp, WriteReceipt, WriteConfirmed, Handlers
  <1>3. ASSUME NEW t \in Threads, Requests(t) PROVE committed \subseteq committed'
    BY <1>3 DEF Requests, Create, PostAgain, Cancel, Look, Confirm, Appends
  <1>4. ASSUME Working PROVE UNCHANGED committed
    BY <1>1, <1>4 DEF Working, BeginDispatch, CallPlanner, WriteCandidate, Succeed, PlannerFails,
                      AnswerUnused, Discard, Handlers
  <1> QED
    BY <1>2, <1>3, <1>4 DEF Next, GraphChanges, Restart, vars

LEMMA KeepsReceipts ==
  ASSUME Inv, [Next]_vars
  PROVE  ReceiptsKept'
  <1> SUFFICES ASSUME NEW r \in Runs, Outcome(r)' = "confirmed"
               PROVE  r \in committed' /\ (r \in receipt' \/ tombstone'[r] = "confirmed")
    BY DEF ReceiptsKept
  <1>0. TypeOK /\ Tombs /\ FilesChange
    BY StepsChangeFiles DEF Inv
  <1>1. CASE Outcome(r) = "confirmed"
    <2>1. r \in committed' /\ (r \in receipt \/ tombstone[r] = "confirmed")
      BY <1>1, GraphGrows DEF Inv, ReceiptsKept
    <2>2. CASE r \in receipt /\ r \notin receipt'
      BY <1>1, <2>1, <2>2, ReceiptGoesLast DEF Outcome
    <2>3. CASE tombstone[r] = "confirmed" /\ tombstone'[r] # "confirmed"
      <3>1. PICK q \in Runs : RunChanges(q)
        BY <1>0, <2>3 DEF FilesChange
      <3>2. q = r
        BY <2>3, <3>1 DEF RunChanges, Alone
      <3>3. IsRecorded(r)
        BY <2>3, <3>1, <3>2, NoneIsNoRun DEF RunChanges, IsAsked, IsRemoved, IsDispatched, HasSucceeded,
                        IsConfirmed, GoesFrom, Phases, Prunable
      <3> QED
        BY <1>1, <2>3, <3>3 DEF IsRecorded, Is, Outcome
    <2> QED
      BY <2>1, <2>2, <2>3
  <1>2. CASE Outcome(r) # "confirmed"
    <2>1. PICK q \in Runs : RunChanges(q)
      BY <1>0, <1>2, OutcomeStays DEF FilesChange
    <2>2. q = r
      BY <1>2, <2>1, OutcomeStays DEF RunChanges, Alone
    <2>3. IsConfirmed(r)
      BY <1>0, <1>2, <2>1, <2>2, OutcomeMoves
    <2>4. r \in receipt'
      BY <2>3, ReceiptGoesLast, <1>2, OutcomeStays DEF IsConfirmed
    <2> QED
      BY <2>3, <2>4, GraphGrows DEF IsConfirmed
  <1> QED
    BY <1>1, <1>2
-----------------------------------------------------------------------------
(* The worker's queue and the calls of the planner.                        *)

(* A step that is not the worker's leaves the worker alone, and puts into   *)
(* the queue one run at most, one that is queued and was not with it.       *)
LEMMA OthersQueue ==
  ASSUME Inv, NEW t \in Threads, Handling(t) \/ Requests(t)
  PROVE  /\ thread'[Worker] = thread[Worker] /\ UNCHANGED calls
         /\ \/ UNCHANGED <<queue, submitted>>
            \/ /\ UNCHANGED <<file, tombstone>>
               /\ \E r \in Runs \ submitted : /\ Is(r, {"queued"})
                                              /\ queue' = Append(queue, r)
                                              /\ submitted' = submitted \cup {r}
  <1>0. TypeOK /\ StandsRight(t)
    BY AllStandRight DEF Inv, Handlers
  <1>1. thread'[Worker] = thread[Worker]
    BY <1>0, HandlingSpares, RequestsSpares, PreviewConstants DEF Spares, Handlers
  <1>2. ASSUME Requests(t) PROVE UNCHANGED <<queue, submitted, calls>>
    BY <1>2 DEF Requests, Create, PostAgain, Cancel, Look, Confirm, Transition, process
  <1>3. ASSUME Pruning(t) PROVE UNCHANGED <<queue, submitted, calls>>
    BY <1>3 DEF Pruning, List, Prune, RemoveFile, Removed, PruneEnds, process
  <1>4. ASSUME GateClosed(t) \/ GiveUp(t) \/ WriteReceipt(t) \/ WriteConfirmed(t)
        PROVE  UNCHANGED <<queue, submitted, calls>>
    BY <1>4 DEF GateClosed, GiveUp, WriteReceipt, WriteConfirmed, Transition
  <1>5. ASSUME Submit(t)
        PROVE  /\ UNCHANGED <<file, tombstone, calls>>
               /\ \/ UNCHANGED <<queue, submitted>>
                  \/ \E r \in Runs \ submitted : /\ Is(r, {"queued"})
                                                /\ queue' = Append(queue, r)
                                                /\ submitted' = submitted \cup {r}
    BY <1>0, <1>5 DEF Submit, StandsRight, disk
  <1> QED
    BY <1>1, <1>2, <1>3, <1>4, <1>5 DEF Handling

(* The worker's steps between taking a run and being done with it.          *)
LEMMA WorkerGoesOn ==
  ASSUME Inv, Working, ~BeginDispatch, ~Discard
  PROVE  /\ thread[Worker].pc # "idle" /\ thread'[Worker].pc # "dispatched"
         /\ thread'[Worker].run = thread[Worker].run
         /\ UNCHANGED <<queue, submitted>>
         /\ \/ /\ thread'[Worker].pc \notin {"planning", "candidate"}
               /\ UNCHANGED calls
            \/ CallPlanner /\ thread'[Worker].pc = "planning"
            \/ WriteCandidate /\ thread'[Worker].pc = "candidate"
  <1> USE DEF Handlers
  <1> DEFINE r == thread[Worker].run
  <1>0. TypeOK /\ StandsRight(Worker) /\ Planned /\ (thread[Worker].pc # "idle" => r \in Runs)
    BY AllStandRight DEF Inv, StandsRight
  <1>1. CASE CallPlanner
    BY <1>0, <1>1, GoesTo DEF CallPlanner, TypeOK
  <1>2. CASE WriteCandidate
    BY <1>0, <1>2, GoesTo DEF WriteCandidate, TypeOK
  <1>3. CASE AnswerUnused
    BY <1>0, <1>3, GoesTo DEF AnswerUnused, TypeOK
  <1>4. CASE Succeed
    BY <1>0, <1>4, ListsAt DEF Succeed, Transition, TypeOK
  <1>5. CASE PlannerFails
    BY <1>0, <1>5, ListsAt DEF PlannerFails, Transition, TypeOK
  <1>6. CASE Pruning(Worker)
    <2>0. UNCHANGED <<queue, submitted, calls>> /\ thread[Worker].pc \in {"list", "prune", "remove"}
      BY <1>6 DEF Pruning, List, Prune, RemoveFile, Removed, PruneEnds, process
    <2>1. CASE PruneEnds(Worker)
      <3>1. Goes(Worker, "discard", r) /\ r \in Runs
        BY <1>0, <2>0, <2>1 DEF PruneEnds, StandsRight, WorkerPlaces
      <3> QED
        BY <1>0, <2>0, <3>1, GoesTo DEF TypeOK
    <2>2. CASE List(Worker) \/ Prune(Worker) \/ RemoveFile(Worker) \/ Removed(Worker)
      <3>1. thread'[Worker].run = r /\ thread'[Worker].pc \in {"prune", "remove"}
        <4>1. CASE List(Worker)
          BY <1>0, <4>1 DEF List, TypeOK, Thread
        <4>2. CASE Prune(Worker)
          BY <1>0, <4>2 DEF Prune, TypeOK, Thread
        <4>3. CASE RemoveFile(Worker)
          BY <4>3 DEF RemoveFile, process
        <4>4. CASE Removed(Worker)
          BY <1>0, <4>4 DEF Removed, TypeOK, Thread
        <4> QED
          BY <2>2, <4>1, <4>2, <4>3, <4>4
      <3> QED
        BY <2>0, <3>1
    <2> QED
      BY <1>6, <2>1, <2>2 DEF Pruning
  <1> QED
    BY <1>1, <1>2, <1>3, <1>4, <1>5, <1>6 DEF Working

(* A run that is asked for and not running is not set running but by the    *)
(* worker that takes it; a run is queued when it is asked for.              *)
LEMMA PhasesStand ==
  ASSUME TypeOK, Tombs, FilesChange, NEW r \in Runs
  PROVE  /\ Waiting(file[r], tombstone[r]) =>
              Waiting(file'[r], tombstone'[r]) \/ IsDispatched(r)
         /\ Is(r, {"queued"})' => Is(r, {"queued"}) \/ Outcome(r) = "none"
         /\ Outcome(r) \in {"live", "failed"} /\ ~Is(r, {"queued"}) =>
              Outcome(r)' \in {"live", "failed"} \/ HasSucceeded(r)
  <1>1. CASE UNCHANGED <<file, tombstone>>
    BY <1>1, OutcomeStays DEF Is
  <1>2. ASSUME NEW q \in Runs, RunChanges(q), r # q
        PROVE  Outcome(r)' = Outcome(r) /\ file'[r] = file[r] /\ tombstone'[r] = tombstone[r]
    BY <1>2, OutcomeStays DEF RunChanges, Alone
  <1>3. ASSUME RunChanges(r), Waiting(file[r], tombstone[r])
        PROVE  Waiting(file'[r], tombstone'[r]) \/ IsDispatched(r)
    <2>1. CASE IsAsked(r) \/ IsRecorded(r) \/ HasSucceeded(r) \/ IsConfirmed(r)
      BY <1>3, <2>1 DEF IsAsked, IsRecorded, HasSucceeded, IsConfirmed, GoesFrom, Waiting, Is
    <2>2. CASE IsRemoved(r)
      <3>1. file[r].phase \in Phases
        BY <2>2 DEF IsRemoved, TypeOK, Run
      <3> QED
        BY <2>2, <3>1, NoneIsNoRun DEF IsRemoved, Waiting
    <2>3. CASE GoesFrom(r, Live, "failed") \/ GoesFrom(r, {"queued", "succeeded"}, "cancelled")
      BY <2>3 DEF GoesFrom, Waiting
    <2>4. CASE GoesFrom(r, {"running"}, "running_cancel_requested")
      BY <1>3, <2>4 DEF GoesFrom, Waiting, Is
    <2> QED
      BY <1>3, <2>1, <2>2, <2>3, <2>4 DEF RunChanges
  <1>5. ASSUME RunChanges(r), Is(r, {"queued"})'
        PROVE  Is(r, {"queued"}) \/ Outcome(r) = "none"
    BY <1>5 DEF RunChanges, IsAsked, IsRecorded, IsRemoved, HasSucceeded, IsConfirmed,
                IsDispatched, GoesFrom, Is, Outcome
  <1>4. ASSUME RunChanges(r)
        PROVE  Outcome(r) \in {"live", "failed"} /\ ~Is(r, {"queued"}) =>
                 Outcome(r)' \in {"live", "failed"} \/ HasSucceeded(r)
    BY <1>4, OutcomeMoves
  <1> QED
    BY <1>1, <1>2, <1>3, <1>4, <1>5 DEF FilesChange, Is

LEMMA KeepsQueued ==
  ASSUME Inv, [Next]_vars
  PROVE  Queued'
  <1> USE DEF Handlers
  <1>0. TypeOK /\ Tombs /\ Queued /\ FilesChange
    BY StepsChangeFiles DEF Inv
  <1>1. \A i \in 1 .. Len(queue) : queue[i] \in Runs
    BY <1>0 DEF TypeOK
  <1>2. \A i \in 1 .. Len(queue) :
           Waiting(file'[queue[i]], tombstone'[queue[i]]) \/ IsDispatched(queue[i])
    BY <1>0, <1>1, PhasesStand DEF Queued
  <1>3. ASSUME NEW t \in Threads, Handling(t) \/ Requests(t) PROVE Queued'
    <2>1. thread'[Worker] = thread[Worker]
      BY <1>3, OthersQueue
    <2>2. \A i \in 1 .. Len(queue) : ~IsDispatched(queue[i])
      BY <2>1 DEF IsDispatched
    <2>3. CASE UNCHANGED <<queue, submitted>>
      BY <1>0, <1>2, <2>1, <2>2, <2>3 DEF Queued
    <2>4. ASSUME NEW r \in Runs \ submitted, Is(r, {"queued"}), UNCHANGED <<file, tombstone>>,
                 queue' = Append(queue, r), submitted' = submitted \cup {r}
          PROVE  Queued'
      <3>1. Len(queue') = Len(queue) + 1 /\ queue'[Len(queue) + 1] = r /\ Len(queue) \in Nat
            /\ \A i \in 1 .. Len(queue) : queue'[i] = queue[i]
        BY <1>0, <2>4 DEF TypeOK
      <3>2. Waiting(file'[r], tombstone'[r])
        BY <2>4 DEF Waiting, Is
      <3>3. \A i \in 1 .. Len(queue) : queue[i] # r
        BY <1>0 DEF Queued
      <3>4. \A i, j \in 1 .. Len(queue') : queue'[i] = queue'[j] => i = j
        BY <1>0, <3>1, <3>3 DEF Queued
      <3>5. ASSUME NEW i \in 1 .. Len(queue')
            PROVE  queue'[i] \in submitted' /\ Waiting(file'[queue'[i]], tombstone'[queue'[i]])
        <4>1. CASE i = Len(queue) + 1
          BY <2>4, <3>1, <3>2, <4>1
        <4>2. CASE i \in 1 .. Len(queue)
          <5>1. queue'[i] = queue[i] /\ queue[i] \in submitted
            BY <1>0, <3>1, <4>2 DEF Queued
          <5> QED
            BY <1>2, <2>2, <2>4, <4>2, <5>1
        <4> QED
          BY <3>1, <4>1, <4>2
      <3>6. thread'[Worker].pc # "idle" => /\ thread'[Worker].run \in submitted'
                                          /\ \A i \in 1 .. Len(queue') : queue'[i] # thread'[Worker].run
        BY <1>0, <2>1, <2>4, <3>1 DEF Queued
      <3> QED
        BY <3>4, <3>5, <3>6 DEF Queued
    <2> QED
      BY <1>3, <2>3, <2>4, OthersQueue
  <1>4. ASSUME BeginDispatch PROVE Queued'
    <2> DEFINE h == Head(queue)
    <2>1. /\ queue # << >> /\ h \in Runs /\ h = queue[1] /\ Len(queue) \in Nat \ {0}
          /\ Len(queue') = Len(queue) - 1
          /\ \A i \in 1 .. Len(queue') : i + 1 \in 1 .. Len(queue) /\ queue'[i] = queue[i + 1]
      BY <1>0, <1>4 DEF BeginDispatch, TypeOK
    <2>2. thread'[Worker].run = h /\ UNCHANGED submitted
      BY <1>0, <1>4, <2>1, GoesTo DEF BeginDispatch, TypeOK
    <2>3. \A i \in 1 .. Len(queue') : queue'[i] # h
      BY <1>0, <2>1 DEF Queued
    <2>4. \A i, j \in 1 .. Len(queue') : queue'[i] = queue'[j] => i = j
      BY <1>0, <2>1 DEF Queued
    <2>5. \A i \in 1 .. Len(queue') :
             queue'[i] \in submitted' /\ Waiting(file'[queue'[i]], tombstone'[queue'[i]])
      <3> SUFFICES ASSUME NEW i \in 1 .. Len(queue')
                   PROVE  queue'[i] \in submitted' /\ Waiting(file'[queue'[i]], tombstone'[queue'[i]])
        OBVIOUS
      <3>1. i + 1 \in 1 .. Len(queue) /\ queue'[i] = queue[i + 1]
        BY <2>1
      <3>2. queue[i + 1] # h /\ queue[i + 1] \in submitted
        BY <1>0, <2>3, <3>1 DEF Queued
      <3>3. ~IsDispatched(queue[i + 1])
        BY <3>2 DEF IsDispatched
      <3>4. Waiting(file'[queue[i + 1]], tombstone'[queue[i + 1]])
        BY <1>2, <3>1, <3>3
      <3> QED
        BY <2>2, <3>1, <3>2, <3>4
    <2>6. h \in submitted
      BY <1>0, <2>1 DEF Queued
    <2> HIDE DEF h
    <2> QED
      BY <2>2, <2>3, <2>4, <2>5, <2>6 DEF Queued
  <1>5. ASSUME Discard PROVE Queued'
    <2>1. thread[Worker].pc = "discard" /\ thread'[Worker].pc = "idle" /\ UNCHANGED queue
          /\ submitted' = submitted \ {thread[Worker].run}
      BY <1>0, <1>5, EndsAt DEF Discard, TypeOK
    <2>2. \A i \in 1 .. Len(queue) : ~IsDispatched(queue[i])
      BY <2>1 DEF IsDispatched
    <2> QED
      BY <1>0, <1>2, <2>1, <2>2 DEF Queued
  <1>6. ASSUME Working, ~BeginDispatch, ~Discard PROVE Queued'
    <2>1. thread[Worker].pc # "idle" /\ thread'[Worker].run = thread[Worker].run
          /\ UNCHANGED <<queue, submitted>>
      BY <1>6, WorkerGoesOn
    <2>2. \A i \in 1 .. Len(queue) : ~IsDispatched(queue[i])
      BY <2>1 DEF IsDispatched
    <2> QED
      BY <1>0, <1>2, <2>1, <2>2 DEF Queued
  <1>7. ASSUME Restart PROVE Queued'
    <2>1. Len(queue') = 0 /\ thread'[Worker].pc = "idle"
      BY <1>7 DEF Restart, Idle
    <2> QED
      BY <2>1 DEF Queued
  <1>8. ASSUME UNCHANGED <<file, tombstone, thread, queue, submitted>> PROVE Queued'
    BY <1>0, <1>8 DEF Queued
  <1> QED
    BY <1>3, <1>4, <1>5, <1>6, <1>7, <1>8 DEF Next, GraphChanges, vars, disk, process

LEMMA KeepsPlanned ==
  ASSUME Inv, [Next]_vars
  PROVE  Planned'
  <1> USE DEF Handlers
  <1> DEFINE w == thread[Worker].run
  <1>0. TypeOK /\ Tombs /\ Planned /\ FilesChange /\ (thread[Worker].pc # "idle" => w \in Runs)
    BY StepsChangeFiles DEF Inv, Places
  <1>1. ASSUME NEW r \in Runs, Outcome(r)' = "none" \/ Is(r, {"queued"})'
        PROVE  calls[r] = 0 /\ (Outcome(r) = "none" \/ Is(r, {"queued"}))
    BY <1>0, <1>1, OutcomesStand, PhasesStand DEF Planned
  <1>2. ASSUME UNCHANGED calls
        PROVE  \A r \in Runs : Outcome(r)' = "none" \/ Is(r, {"queued"})' => calls'[r] = 0
    BY <1>1, <1>2
  <1>3. ASSUME NEW t \in Threads, Handling(t) \/ Requests(t) PROVE Planned'
    <2>1. thread'[Worker] = thread[Worker] /\ UNCHANGED calls
      BY <1>3, OthersQueue
    <2>2. ASSUME NEW r \in Runs, r = w, thread[Worker].pc = "dispatched"
          PROVE  ~Is(r, {"queued"})' /\ Outcome(r)' \in {"live", "failed"}
      BY <1>0, <2>2, PhasesStand DEF Planned, HasSucceeded
    <2>3. ASSUME NEW r \in Runs, r = w, thread[Worker].pc = "candidate"
          PROVE  Is(r, Live)'
      <3>1. StandsRight(Worker) /\ StandsRight(t) /\ Worker # t /\ Worker # None
        BY AllStandRight, PreviewConstants DEF Inv
      <3>2. Spares(t)
        BY <1>0, <1>3, <3>1, HandlingSpares, RequestsSpares
      <3> QED
        BY <1>0, <2>3, <3>1, <3>2 DEF StandsRight, Spares, Planned, Is
    <2>4. thread[Worker].pc = "dispatched" =>
            calls'[w] = 0 /\ ~Is(w, {"queued"})' /\ Outcome(w)' \in {"live", "failed"}
      BY <1>0, <2>1, <2>2 DEF Planned, Is, Outcome
    <2>5. thread[Worker].pc = "candidate" => Is(w, Live)'
      BY <1>0, <2>1, <2>3 DEF Is
    <2> QED
      BY <1>0, <1>2, <2>1, <2>4, <2>5 DEF Planned
  <1>4. ASSUME BeginDispatch PROVE Planned'
    <2> DEFINE h == Head(queue)
    <2>1. h \in Runs /\ queue # << >> /\ h = queue[1] /\ 1 \in 1 .. Len(queue) /\ UNCHANGED calls
      BY <1>0, <1>4 DEF BeginDispatch, TypeOK
    <2>2. Waiting(file[h], tombstone[h])
      BY <2>1 DEF Inv, Queued
    <2>3. CASE Is(h, {"queued"})
      <3>1. Goes(Worker, "dispatched", h) /\ Writes(h, "running") /\ file[h] # None
        BY <1>4, <2>3 DEF BeginDispatch, Is
      <3>2. thread'[Worker].pc = "dispatched" /\ thread'[Worker].run = h
            /\ file'[h] # None /\ file'[h].phase = "running"
        BY <1>0, <2>1, <3>1, GoesTo, WritesType DEF TypeOK, Phases, Live
      <3>3. calls[h] = 0
        BY <1>0, <2>1, <2>3 DEF Planned
      <3> HIDE DEF h
      <3> QED
        BY <1>2, <2>1, <3>2, <3>3 DEF Planned, Is, Outcome, Live
    <2>4. CASE ~Is(h, {"queued"})
      <3>1. ~Is(h, {"queued", "running"})
        BY <2>2, <2>4 DEF Is, Waiting
      <3>2. Goes(Worker, "discard", h)
        BY <1>4, <3>1 DEF BeginDispatch
      <3>3. thread'[Worker].pc = "discard"
        BY <1>0, <2>1, <3>2, GoesTo DEF TypeOK
      <3> QED
        BY <1>2, <2>1, <3>3 DEF Planned
    <2> QED
      BY <2>3, <2>4
  <1>5. ASSUME Discard PROVE Planned'
    <2>1. thread'[Worker].pc = "idle" /\ UNCHANGED calls
      BY <1>0, <1>5, EndsAt DEF Discard, TypeOK
    <2> QED
      BY <1>2, <2>1 DEF Planned
  <1>6. ASSUME Working, ~BeginDispatch, ~Discard PROVE Planned'
    <2>1. w \in Runs /\ thread'[Worker].run = w /\ thread'[Worker].pc # "dispatched"
      BY <1>0, <1>6, WorkerGoesOn
    <2>2. CASE thread'[Worker].pc \notin {"planning", "candidate"} /\ UNCHANGED calls
      BY <1>2, <2>1, <2>2 DEF Planned
    <2>3. CASE CallPlanner /\ thread'[Worker].pc = "planning"
      <3>1. UNCHANGED <<file, tombstone>> /\ thread[Worker].pc = "dispatched"
            /\ calls' = [calls EXCEPT ![w] = @ + 1]
        BY <2>3 DEF CallPlanner, disk
      <3>2. calls[w] = 0 /\ ~Is(w, {"queued"}) /\ Outcome(w) # "none"
        BY <1>0, <3>1 DEF Planned
      <3>3. calls'[w] = 1 /\ \A r \in Runs \ {w} : calls'[r] = calls[r]
        BY <1>0, <2>1, <3>1, <3>2 DEF TypeOK
      <3>4. \A r \in Runs : Outcome(r)' = "none" \/ Is(r, {"queued"})' => calls'[r] = 0
        <4> SUFFICES ASSUME NEW r \in Runs, Outcome(r)' = "none" \/ Is(r, {"queued"})'
                     PROVE  calls'[r] = 0
          OBVIOUS
        <4>1. calls[r] = 0 /\ r # w
          BY <1>1, <3>2
        <4> QED
          BY <3>3, <4>1
      <3> QED
        BY <2>1, <2>3, <3>3, <3>4 DEF Planned
    <2>4. CASE WriteCandidate /\ thread'[Worker].pc = "candidate"
      <3>1. UNCHANGED <<file, tombstone, calls>> /\ Is(w, Live) /\ thread[Worker].pc = "planning"
        BY <2>4 DEF WriteCandidate
      <3>2. calls[w] = 1
        BY <1>0, <3>1 DEF Planned
      <3>3. file'[w] # None /\ file'[w].phase \in Live
        BY <3>1 DEF Is
      <3> QED
        BY <1>2, <2>1, <2>4, <3>1, <3>2, <3>3 DEF Planned, Is
    <2> QED
      BY <1>6, <2>2, <2>3, <2>4, WorkerGoesOn
  <1>7. ASSUME Restart PROVE Planned'
    <2>1. thread'[Worker].pc = "idle" /\ UNCHANGED calls
      BY <1>7 DEF Restart, Idle
    <2> QED
      BY <1>2, <2>1 DEF Planned
  <1>8. ASSUME UNCHANGED <<file, tombstone, thread, calls>> PROVE Planned'
    BY <1>0, <1>8 DEF Planned, Is, Outcome
  <1> QED
    BY <1>3, <1>4, <1>5, <1>6, <1>7, <1>8 DEF Next, GraphChanges, vars, disk, process
-----------------------------------------------------------------------------
LEMMA InitInv ==
  ASSUME Init
  PROVE  Inv
  <1> USE PreviewConstants DEF Init, Idle, Handlers
  <1>1. TypeOK
    <2>1. Idle \in Thread
      BY DEF Thread
    <2> QED
      BY <2>1 DEF TypeOK
  <1>2. Places /\ Locks /\ Confirming /\ Tombs
    BY DEF Places, Locks, Confirming, Tombs, ThreadPlaces, WorkerPlaces
  <1>3. Queued
    BY DEF Queued
  <1>4. Planned
    BY DEF Planned
  <1>5. ReceiptsKept
    BY DEF ReceiptsKept, Outcome
  <1> QED
    BY <1>1, <1>2, <1>3, <1>4, <1>5 DEF Inv

LEMMA StepInv ==
  ASSUME Inv, [Next]_vars
  PROVE  Inv'
  BY KeepsType, KeepsPlaces, KeepsQueued, KeepsPlanned, KeepsReceipts DEF Inv

(* The calls of the planner and the graph change with one action each.      *)
LEMMA CallsAndGraph ==
  ASSUME [Next]_vars
  PROVE  \/ UNCHANGED <<calls, committed>>
         \/ CallPlanner
         \/ \E t \in Threads, r \in Runs : Confirm(t, r)
  <1> USE DEF disk, process, Transition
  <1>1. ASSUME NEW t \in Handlers, Pruning(t) PROVE UNCHANGED <<calls, committed>>
    BY <1>1 DEF Pruning, List, Prune, RemoveFile, Removed, PruneEnds
  <1>2. ASSUME NEW t \in Threads, Handling(t) PROVE UNCHANGED <<calls, committed>>
    BY <1>1, <1>2 DEF Handling, GateClosed, Submit, GiveUp, WriteReceipt, WriteConfirmed, Handlers
  <1>3. ASSUME NEW t \in Threads, Requests(t)
        PROVE  UNCHANGED <<calls, committed>> \/ \E r \in Runs : Confirm(t, r)
    BY <1>3 DEF Requests, Create, PostAgain, Cancel, Look
  <1>4. ASSUME Working, ~CallPlanner PROVE UNCHANGED <<calls, committed>>
    BY <1>1, <1>4 DEF Working, BeginDispatch, WriteCandidate, Succeed, PlannerFails, AnswerUnused,
                      Discard, Handlers
  <1> QED
    BY <1>2, <1>3, <1>4 DEF Next, GraphChanges, Restart, vars

(* Every step of the program is a step of the promise, or is not seen by    *)
(* the client.                                                              *)
LEMMA StepsArePromised ==
  ASSUME Inv, [Next]_vars
  PROVE  [Promise!Next]_(Promise!vars)
  <1> USE DEF Promise!vars
  <1>0. TypeOK /\ Tombs /\ Planned /\ Places /\ FilesChange
    BY StepsChangeFiles DEF Inv
  <1>1. CASE UNCHANGED <<file, tombstone>>
    <2>1. \A r \in Runs : Outcome(r)' = Outcome(r)
      BY <1>1, OutcomeStays
    <2>2. Outcomes' = Outcomes
      BY <2>1 DEF Outcomes
    <2>3. CASE UNCHANGED <<calls, committed>>
      BY <2>2, <2>3
    <2>4. CASE CallPlanner
      <3> DEFINE r == thread[Worker].run
      <3>1. thread[Worker].pc = "dispatched" /\ calls' = [calls EXCEPT ![r] = @ + 1] /\ UNCHANGED committed
        BY <2>4 DEF CallPlanner, disk
      <3>2. r \in Runs /\ calls[r] = 0 /\ Outcome(r) \in {"live", "failed"}
        BY <1>0, <3>1 DEF Planned, Places, Handlers
      <3>3. Outcomes[r] \in {"live", "failed"}
        BY <3>2 DEF Outcomes
      <3>4. calls' = [calls EXCEPT ![r] = 1]
        BY <3>1, <3>2
      <3> HIDE DEF r
      <3>5. Promise!Plan(r)
        BY <2>2, <3>1, <3>2, <3>3, <3>4 DEF Promise!Plan
      <3> QED
        BY <3>2, <3>5 DEF Promise!Next
    <2>5. ASSUME NEW t \in Threads, NEW r \in Runs, Confirm(t, r) PROVE [Promise!Next]_(Promise!vars)
      <3>1. Is(r, {"succeeded"}) /\ committed' = committed \cup {r} /\ UNCHANGED calls
        BY <2>5 DEF Confirm, Appends
      <3>2. Outcome(r) = "succeeded"
        BY <3>1 DEF Is, Outcome, Live
      <3>3. Outcomes[r] = "succeeded"
        BY <3>2 DEF Outcomes
      <3>4. CASE r \in committed
        BY <2>2, <3>1, <3>4
      <3>5. CASE r \notin committed
        BY <2>2, <3>1, <3>3, <3>5 DEF Promise!Commit, Promise!Next
      <3> QED
        BY <3>4, <3>5
    <2> QED
      BY <2>3, <2>4, <2>5, CallsAndGraph
  <1>2. ASSUME NEW r \in Runs, RunChanges(r), UNCHANGED <<calls, committed>>
        PROVE  [Promise!Next]_(Promise!vars)
    <2>1. \A q \in Runs \ {r} : Outcome(q)' = Outcome(q)
      BY <1>2, OutcomeStays DEF RunChanges, Alone
    <2>2. Outcomes' = [Outcomes EXCEPT ![r] = Outcome(r)']
      BY <2>1 DEF Outcomes
    <2>3. Outcomes[r] = Outcome(r)
      BY DEF Outcomes
    <2>4. CASE Outcome(r)' = Outcome(r)
      <3>1. Outcomes' = Outcomes
        BY <2>1, <2>4 DEF Outcomes
      <3> QED
        BY <1>2, <3>1
    <2>5. ASSUME NEW end, Outcome(r)' = end,
                 \/ Outcome(r) = "none" /\ end = "live"
                 \/ Outcome(r) = "live" /\ end = "succeeded" /\ calls[r] = 1
                 \/ Outcome(r) = "live" /\ end \in {"failed", "cancelled"}
                 \/ Outcome(r) = "succeeded" /\ end = "confirmed" /\ r \in committed
                 \/ Outcome(r) = "succeeded" /\ end = "cancelled"
          PROVE  [Promise!Next]_(Promise!vars)
      <3>1. Promise!Becomes(r, end)
        BY <1>2, <2>2, <2>5 DEF Promise!Becomes
      <3>2. Promise!Ask(r) \/ Promise!End(r) \/ Promise!Decide(r)
        BY <2>3, <2>5, <3>1 DEF Promise!Ask, Promise!End, Promise!Decide
      <3> QED
        BY <3>2 DEF Promise!Next
    <2>6. HasSucceeded(r) => calls[r] = 1
      BY <1>0 DEF HasSucceeded, Planned
    <2>7. IsConfirmed(r) => r \in committed
      BY DEF IsConfirmed
    <2> QED
      BY <1>0, <1>2, <2>4, <2>5, <2>6, <2>7, OutcomeMoves
  <1> QED
    BY <1>0, <1>1, <1>2 DEF FilesChange

LEMMA InitIsPromised ==
  ASSUME Init
  PROVE  Promise!Init
  <1>1. \A r \in Runs : Outcome(r) = "none"
    BY DEF Init, Outcome
  <1>2. Outcomes = [r \in Runs |-> "none"]
    BY <1>1 DEF Outcomes
  <1> QED
    BY <1>2 DEF Init, Promise!Init

(* The invariant, of every program that starts with no runs.               *)
THEOREM SpecInv == Spec => []Inv
  BY InitInv, StepInv, PTL DEF Spec

(* The files, the locks, the handlers and the worker's queue have their     *)
(* types, in every step of every request and after every restart.           *)
THEOREM SpecTypeOK == Spec => []TypeOK
  <1>1. Inv => TypeOK
    BY DEF Inv
  <1> QED
    BY <1>1, SpecInv, PTL

(* A confirmed run is in the graph and has its receipt or its tombstone,    *)
(* whichever of its files pruning has removed by now.                       *)
THEOREM SpecReceiptsKept == Spec => []ReceiptsKept
  <1>1. Inv => ReceiptsKept
    BY DEF Inv
  <1> QED
    BY <1>1, SpecInv, PTL

(* The runs keep what PreviewPromise promises the client: one call of the   *)
(* planner, one end, one plan in the graph.                                 *)
THEOREM SpecPromised == Spec => Promised
  <1>1. Inv /\ [Next]_vars => [Promise!Next]_(Promise!vars)
    BY StepsArePromised
  <1> QED
    BY <1>1, InitIsPromised, SpecInv, PTL DEF Spec, Promised, Promise!Spec
=============================================================================
