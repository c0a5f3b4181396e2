------------------------- MODULE KeyframeTasksProofs -------------------------
(***************************************************************************)
(* What KeyframeTasks keeps for any number of clients, workers and killed  *)
(* processes: the types, that the generator is called once, and that       *)
(* nobody is told of images that are not there.                            *)
(***************************************************************************)
EXTENDS KeyframeTasks, TLAPS

USE DEF At, Stands

(* The steps by which a worker or the time moves the queue, and those of    *)
(* the service.                                                             *)
LEMMA NextCases ==
  ASSUME Next
  PROVE  \/ Queue \/ Restart
         \/ Submit \/ Enqueue \/ AnswerSubmit
         \/ CallProvider \/ BreakOff \/ ThreadEnds
         \/ \E p \in Processes : WriteFile(p)
         \/ \E c \in Clients : Ask(c) \/ ReadManifest(c) \/ Look(c) \/ Answer(c)
  BY DEF Next, Submission, Thread, Handling, Processes

LEMMA FollowingType ==
  ASSUME NEW place \in Places
  PROVE  Following[place] \in Places \cup {None}
  BY DEF Following, Places

LEMMA ToldType ==
  ASSUME NEW place \in Places \cup {None}
  PROVE  Told(place) \in Statuses
  BY DEF Told, Places, Statuses, Ended

LEMMA WriteOrdersType ==
  ASSUME NEW left \in WriteOrders, left # <<>>
  PROVE  Head(left) \in {"task", "manifest"} /\ Tail(left) \in WriteOrders
  <1>1. CASE left = <<"task">>
    <2>1. Head(left) = "task" /\ Tail(left) = << >>
      BY <1>1
    <2> QED
      BY <2>1 DEF WriteOrders
  <1>4. CASE left = <<"manifest">>
    <2>1. Head(left) = "manifest" /\ Tail(left) = << >>
      BY <1>4
    <2> QED
      BY <2>1 DEF WriteOrders
  <1>2. CASE left = <<"task", "manifest">>
    <2>1. Head(left) = "task" /\ Tail(left) = <<"manifest">>
      BY <1>2
    <2> QED
      BY <2>1 DEF WriteOrders
  <1>3. CASE left = <<"manifest", "task">>
    <2>1. Head(left) = "manifest" /\ Tail(left) = <<"task">>
      BY <1>3
    <2> QED
      BY <2>1 DEF WriteOrders
  <1> QED
    BY <1>1, <1>2, <1>3, <1>4 DEF WriteOrders

(* The two ways in which a running directory changes.                       *)
LEMMA MoveToType ==
  ASSUME dir \in [Places -> Directory \cup {None}], NEW to \in {"completed", "failed"},
         CanMove(to), MoveTo(to)
  PROVE  dir' \in [Places -> Directory \cup {None}]
  <1>1. dir["running"].result \in Results \cup {None}
    BY DEF CanMove, Places, Directory
  <1>2. [request |-> FALSE, result |-> dir["running"].result] \in Directory
    BY <1>1 DEF Directory
  <1> QED
    BY <1>2 DEF MoveTo

LEMMA PutResultType ==
  ASSUME dir \in [Places -> Directory \cup {None}], NEW result \in Results \cup {None},
         PutResult(result)
  PROVE  dir' \in [Places -> Directory \cup {None}]
  <1>1. (dir["running"] # None /\ dir["running"].request) \in BOOLEAN
    OBVIOUS
  <1>2. [request |-> dir["running"] # None /\ dir["running"].request, result |-> result] \in Directory
    BY <1>1 DEF Directory
  <1> QED
    BY <1>2 DEF PutResult

LEMMA QueueKeepsType ==
  ASSUME TypeOK, QueueNext
  PROVE  QueueTypeOK'
  <1> USE BoundsAssumption DEF TypeOK, QueueTypeOK, Goes
  <1>1. ASSUME HourPasses PROVE QueueTypeOK'
    BY <1>1 DEF HourPasses
  <1>2. ASSUME NEW w \in Workers, KillWorker(w) PROVE QueueTypeOK'
    BY <1>2 DEF KillWorker, WorkerPlaces
  <1>3. ASSUME NEW w \in Workers, Rounds(w) PROVE QueueTypeOK'
    <2> USE DEF WorkerPlaces, Holding, Places
    <2>1. ASSUME ListRunning(w) PROVE QueueTypeOK'
      BY <2>1 DEF ListRunning
    <2>2. ASSUME Judge(w) PROVE QueueTypeOK'
      BY <2>2 DEF Judge, Directory
    <2>3. ASSUME RecordTimeout(w) PROVE QueueTypeOK'
      BY <2>3, PutResultType DEF RecordTimeout, PutResult, Results
    <2>4. ASSUME LookAtTarget(w) PROVE QueueTypeOK'
      BY <2>4 DEF LookAtTarget
    <2>5. ASSUME MoveStale(w) PROVE QueueTypeOK'
      BY <2>5, MoveToType DEF MoveStale, Target
    <2>6. ASSUME ListPending(w) PROVE QueueTypeOK'
      BY <2>6 DEF ListPending
    <2>7. ASSUME Claim(w) PROVE QueueTypeOK'
      BY <2>7 DEF Claim
    <2>8. ASSUME WriteClaim(w) PROVE QueueTypeOK'
      <3>1. (IF dir["running"] = None THEN None ELSE dir["running"].result) \in Results \cup {None}
        BY DEF Directory
      <3>2. dir' \in [Places -> Directory \cup {None}]
        BY <2>8, <3>1, PutResultType DEF WriteClaim
      <3> QED
        BY <2>8, <3>2 DEF WriteClaim, PutResult
    <2>9. ASSUME Begin(w) PROVE QueueTypeOK'
      BY <2>9 DEF Begin
    <2>10. ASSUME Executes(w) PROVE QueueTypeOK'
      <3>1. images' \in Images
        BY <2>10 DEF Executes, Images, All
      <3>2. worker' \in [Workers -> WorkerPlaces]
        BY <2>10 DEF Executes
      <3> QED
        BY <2>10, <3>1, <3>2 DEF Executes
    <2>11. ASSUME WriteResult(w) PROVE QueueTypeOK'
      BY <2>11, PutResultType DEF WriteResult, PutResult, Results
    <2>12. ASSUME Complete(w) PROVE QueueTypeOK'
      BY <2>12, MoveToType DEF Complete
    <2>13. ASSUME WriteFailure(w) PROVE QueueTypeOK'
      BY <2>13, PutResultType DEF WriteFailure, PutResult, Results
    <2>14. ASSUME Fail(w) PROVE QueueTypeOK'
      BY <2>14, MoveToType DEF Fail
    <2>15. ASSUME StartWorker(w) PROVE QueueTypeOK'
      BY <2>15 DEF StartWorker
    <2> QED
      BY <1>3, <2>1, <2>2, <2>3, <2>4, <2>5, <2>6, <2>7, <2>8, <2>9, <2>10, <2>11, <2>12, <2>13,
         <2>14, <2>15 DEF Rounds
  <1> QED
    BY <1>1, <1>2, <1>3 DEF QueueNext

LEMMA PutRequestType ==
  ASSUME TypeOK, PutRequest, stops' = stops
  PROVE  QueueTypeOK'
  BY DEF TypeOK, QueueTypeOK, PutRequest, Places, Directory

(* What Settles and Turns leave typed.                                      *)
Plans == [Processes -> [status : Statuses \cup {None}, left : WriteOrders]]

LEMMA SettlesType ==
  ASSUME plan \in Plans, NEW p \in Processes, NEW status \in Statuses \cup {None},
         NEW left \in WriteOrders, Settles(p, status, left)
  PROVE  plan' \in Plans
  BY DEF Plans, Settles

StagesTyped ==
  /\ pc \in [Processes -> SubmitStages \cup ThreadStages \cup PollStages]
  /\ pc["submit"] \in SubmitStages
  /\ pc["thread"] \in ThreadStages
  /\ \A c \in Clients : pc[c] \in PollStages

LEMMA TurnsType ==
  ASSUME StagesTyped, NEW p \in Processes, NEW place, Turns(p, place),
         p = "submit" => place \in SubmitStages,
         p = "thread" => place \in ThreadStages,
         p \in Clients => place \in PollStages
  PROVE  StagesTyped'
  BY NamesAssumption DEF StagesTyped, Turns, Processes

LEMMA TypeParts ==
  TypeOK <=>
    /\ QueueTypeOK /\ mode \in Modes
    /\ files \in [{"task", "manifest"} -> Statuses \cup {None}]
    /\ job \in Statuses \cup {None}
    /\ StagesTyped
    /\ plan \in Plans
    /\ seen \in [Clients -> Statuses \cup {None}]
  BY DEF TypeOK, StagesTyped, Plans

LEMMA TypePartsNext ==
  ASSUME QueueTypeOK', mode' \in Modes,
         files' \in [{"task", "manifest"} -> Statuses \cup {None}],
         job' \in Statuses \cup {None},
         StagesTyped',
         plan' \in Plans,
         seen' \in [Clients -> Statuses \cup {None}]
  PROVE  TypeOK'
  BY DEF TypeOK, StagesTyped, Plans

LEMMA ServiceLeavesQueue ==
  ASSUME TypeOK, queueVars' = queueVars, stops' = stops
  PROVE  QueueTypeOK'
  BY DEF TypeOK, QueueTypeOK, queueVars

LEMMA TypeKept ==
  ASSUME TypeOK, [Next]_vars
  PROVE  TypeOK'
  <1> USE DEF Processes
  <1>0. ASSUME UNCHANGED vars PROVE TypeOK'
    BY <1>0 DEF vars, taskVars, queueVars, TypeOK, QueueTypeOK
  <1>1. ASSUME Queue PROVE TypeOK'
    <2>1. QueueTypeOK'
      BY <1>1, QueueKeepsType DEF Queue
    <2> QED
      BY <1>1, <2>1 DEF Queue, taskVars, TypeOK
  <1>2. ASSUME Restart PROVE TypeOK'
    <2>1. QueueTypeOK'
      BY <1>2, BoundsAssumption DEF Restart, queueVars, TypeOK, QueueTypeOK
    <2>2. StagesTyped'
      BY <1>2, NamesAssumption DEF Restart, StagesTyped, SubmitStages, ThreadStages, PollStages
    <2>3. plan' \in Plans
      BY <1>2 DEF Restart, Plans, NoPlan, WriteOrders
    <2> QED
      BY <1>2, <2>1, <2>2, <2>3, TypeParts, TypePartsNext DEF Restart
  <1>3. ASSUME Submit PROVE TypeOK'
    <2>1. QueueTypeOK'
      BY <1>3, PutRequestType, ServiceLeavesQueue DEF Submit
    <2>2. StagesTyped'
      BY <1>3, TurnsType, TypeParts, NamesAssumption DEF Submit, SubmitStages
    <2>3. plan' \in Plans
      BY <1>3, SettlesType, TypeParts DEF Submit, Statuses, Ended, WriteOrders
    <2> QED
      BY <1>3, <2>1, <2>2, <2>3, TypeParts, TypePartsNext DEF Submit
  <1>4. ASSUME Enqueue PROVE TypeOK'
    <2>1. QueueTypeOK'
      BY <1>4, ServiceLeavesQueue DEF Enqueue
    <2>2. StagesTyped'
      BY <1>4, TurnsType, TypeParts, NamesAssumption DEF Enqueue, ThreadStages
    <2> QED
      BY <1>4, <2>1, <2>2, TypeParts, TypePartsNext DEF Enqueue, Plans
  <1>5. ASSUME AnswerSubmit PROVE TypeOK'
    <2>1. QueueTypeOK'
      BY <1>5, ServiceLeavesQueue DEF AnswerSubmit
    <2>2. StagesTyped'
      BY <1>5, TurnsType, TypeParts, NamesAssumption DEF AnswerSubmit, SubmitStages
    <2>3. job' \in Statuses \cup {None} /\ seen' \in [Clients -> Statuses \cup {None}]
      BY <1>5, TypeParts DEF AnswerSubmit, Plans
    <2> QED
      BY <1>5, <2>1, <2>2, <2>3, TypeParts, TypePartsNext DEF AnswerSubmit, Plans
  <1>6. ASSUME CallProvider PROVE TypeOK'
    <2>1. PICK outcome \in Outcomes :
            images' = outcome.images /\ Settles("thread", outcome.status, <<"manifest", "task">>)
      BY <1>6 DEF CallProvider
    <2>2. outcome.images \in Images /\ outcome.status \in Statuses
      BY <2>1 DEF Outcomes, Images, All, Some, Statuses, Ended
    <2>3. QueueTypeOK'
      BY <1>6, <2>1, <2>2 DEF CallProvider, TypeOK, QueueTypeOK
    <2>4. StagesTyped'
      BY <1>6, TurnsType, TypeParts, NamesAssumption DEF CallProvider, ThreadStages
    <2>5. plan' \in Plans
      BY <2>1, <2>2, SettlesType, TypeParts DEF WriteOrders
    <2> QED
      BY <1>6, <2>3, <2>4, <2>5, TypeParts, TypePartsNext DEF CallProvider
  <1>7. ASSUME BreakOff PROVE TypeOK'
    <2>1. QueueTypeOK'
      BY <1>7, ServiceLeavesQueue DEF BreakOff
    <2>2. StagesTyped'
      BY <1>7, TurnsType, TypeParts, NamesAssumption DEF BreakOff, ThreadStages
    <2>3. plan' \in Plans
      BY <1>7, SettlesType, TypeParts DEF BreakOff, Statuses, Ended, WriteOrders
    <2> QED
      BY <1>7, <2>1, <2>2, <2>3, TypeParts, TypePartsNext DEF BreakOff
  <1>8. ASSUME ThreadEnds PROVE TypeOK'
    <2>1. QueueTypeOK'
      BY <1>8, ServiceLeavesQueue DEF ThreadEnds
    <2>2. StagesTyped'
      BY <1>8, TurnsType, TypeParts, NamesAssumption DEF ThreadEnds, ThreadStages
    <2> QED
      BY <1>8, <2>1, <2>2, TypeParts, TypePartsNext DEF ThreadEnds, Plans
  <1>9. ASSUME NEW p \in Processes, WriteFile(p) PROVE TypeOK'
    <2>1. QueueTypeOK'
      BY <1>9, ServiceLeavesQueue DEF WriteFile
    <2>2. plan[p].left \in WriteOrders /\ plan[p].left # <<>> /\ plan[p].status \in Statuses \cup {None}
      BY <1>9 DEF WriteFile, TypeOK
    <2>3. Head(plan[p].left) \in {"task", "manifest"} /\ Tail(plan[p].left) \in WriteOrders
      BY <2>2, WriteOrdersType
    <2>4. plan' \in Plans
      BY <1>9, <2>2, <2>3, SettlesType, TypeParts DEF WriteFile
    <2>5. files' \in [{"task", "manifest"} -> Statuses \cup {None}]
      BY <1>9, <2>2, <2>3 DEF WriteFile, TypeOK
    <2> QED
      BY <1>9, <2>1, <2>4, <2>5, TypeParts, TypePartsNext DEF WriteFile, StagesTyped
  <1>10. ASSUME NEW c \in Clients, Ask(c) PROVE TypeOK'
    <2>1. QueueTypeOK'
      BY <1>10, ServiceLeavesQueue DEF Ask
    <2>2. StagesTyped'
      BY <1>10, TurnsType, TypeParts, NamesAssumption DEF Ask, PollStages, Places
    <2>3. plan' \in Plans
      BY <1>10, SettlesType, TypeParts DEF Ask, WriteOrders
    <2> QED
      BY <1>10, <2>1, <2>2, <2>3, TypeParts, TypePartsNext DEF Ask
  <1>11. ASSUME NEW c \in Clients, ReadManifest(c) PROVE TypeOK'
    <2>1. QueueTypeOK'
      BY <1>11, ServiceLeavesQueue DEF ReadManifest
    <2>2. StagesTyped'
      BY <1>11, TurnsType, TypeParts, NamesAssumption DEF ReadManifest, PollStages
    <2>3. plan' \in Plans
      BY <1>11, SettlesType, TypeParts DEF ReadManifest, WriteOrders, Plans
    <2> QED
      BY <1>11, <2>1, <2>2, <2>3, TypeParts, TypePartsNext DEF ReadManifest
  <1>12. ASSUME NEW c \in Clients, Look(c) PROVE TypeOK'
    <2>1. QueueTypeOK'
      BY <1>12, ServiceLeavesQueue DEF Look
    <2>2. pc[c] \in Places
      BY <1>12 DEF Look
    <2>3. StagesTyped'
      <3>1. PICK place \in PollStages : Turns(c, place)
        BY <1>12, <2>2, FollowingType DEF Look, Concludes, PollStages
      <3> QED
        BY <3>1, TurnsType, TypeParts, NamesAssumption
    <2>4. plan' \in Plans
      BY <1>12, <2>2, SettlesType, ToldType, TypeParts DEF Look, Concludes, WriteOrders
    <2> QED
      BY <1>12, <2>1, <2>3, <2>4, TypeParts, TypePartsNext DEF Look
  <1>13. ASSUME NEW c \in Clients, Answer(c) PROVE TypeOK'
    <2>1. QueueTypeOK'
      BY <1>13, ServiceLeavesQueue DEF Answer
    <2>2. StagesTyped'
      BY <1>13, TurnsType, TypeParts, NamesAssumption DEF Answer, PollStages
    <2>3. plan[c].status \in Statuses \cup {None}
      BY DEF TypeOK
    <2>4. plan' \in Plans
      BY <1>13, TypeParts DEF Answer, NoPlan, Plans, WriteOrders
    <2> QED
      BY <1>13, <2>1, <2>2, <2>3, <2>4, TypeParts, TypePartsNext DEF Answer
  <1> QED
    BY <1>0, <1>1, <1>2, <1>3, <1>4, <1>5, <1>6, <1>7, <1>8, <1>9, <1>10, <1>11, <1>12, <1>13,
       NextCases

LEMMA TypeInit ==
  ASSUME Init
  PROVE  TypeOK
  <1>1. QueueTypeOK
    <2>1. dir \in [Places -> Directory \cup {None}]
      BY DEF Init, QueueInit, NoDirectories
    <2>2. worker \in [Workers -> WorkerPlaces] /\ judged \in [Workers -> Results \cup {None}]
      BY DEF Init, QueueInit, WorkerPlaces
    <2>3. images \in Images /\ executions \in Nat /\ stops \in 0 .. MaxStops
      BY BoundsAssumption DEF Init, QueueInit, Images
    <2>4. aged \in BOOLEAN
      BY DEF Init, QueueInit
    <2> QED
      BY <2>1, <2>2, <2>3, <2>4 DEF QueueTypeOK
  <1>2. StagesTyped
    BY NamesAssumption
       DEF Init, StagesTyped, Processes, SubmitStages, ThreadStages, PollStages
  <1>3. plan \in Plans
    BY DEF Init, Plans, NoPlan, WriteOrders
  <1> QED
    BY <1>1, <1>2, <1>3, TypeParts DEF Init

(* Type correctness: queue, files, processes and what clients were told     *)
(* have their types in every reachable state.                               *)
THEOREM TypeCorrect == Spec => []TypeOK
  BY TypeInit, TypeKept, PTL DEF Spec
-----------------------------------------------------------------------------
(* The request is claimed by one worker, and nobody has worked on the job   *)
(* before.                                                                  *)
Fresh == {"claimed", "begin"}

ClaimedOnce ==
  /\ pc["submit"] = "ask" => dir["pending"] = None
  /\ pc["submit"] = "ask" \/ dir["pending"] # None =>
       executions = 0 /\ \A w \in Workers : worker[w] \notin Holding
  /\ \A w \in Workers : worker[w] \in Fresh =>
       executions = 0 /\ \A v \in Workers \ {w} : worker[v] \notin Fresh
  /\ executions <= 1

LEMMA QueueKeepsClaim ==
  ASSUME TypeOK, ClaimedOnce, QueueNext, pc' = pc
  PROVE  ClaimedOnce'
  <1> USE DEF TypeOK, QueueTypeOK, ClaimedOnce, Fresh, Holding, Goes, Places
  <1>1. ASSUME HourPasses PROVE ClaimedOnce'
    BY <1>1 DEF HourPasses
  <1>2. ASSUME NEW w \in Workers, KillWorker(w) PROVE ClaimedOnce'
    BY <1>2 DEF KillWorker
  <1>3. ASSUME NEW w \in Workers, Rounds(w) PROVE ClaimedOnce'
    <2>1. ASSUME ListRunning(w) PROVE ClaimedOnce'
      BY <2>1 DEF ListRunning
    <2>2. ASSUME Judge(w) PROVE ClaimedOnce'
      BY <2>2 DEF Judge
    <2>3. ASSUME RecordTimeout(w) PROVE ClaimedOnce'
      BY <2>3 DEF RecordTimeout, PutResult
    <2>4. ASSUME LookAtTarget(w) PROVE ClaimedOnce'
      BY <2>4 DEF LookAtTarget
    <2>5. ASSUME MoveStale(w) PROVE ClaimedOnce'
      BY <2>5 DEF MoveStale, MoveTo, Target
    <2>6. ASSUME ListPending(w) PROVE ClaimedOnce'
      BY <2>6 DEF ListPending
    <2>7. ASSUME Claim(w) PROVE ClaimedOnce'
      BY <2>7 DEF Claim
    <2>8. ASSUME WriteClaim(w) PROVE ClaimedOnce'
      BY <2>8 DEF WriteClaim, PutResult
    <2>9. ASSUME Begin(w) PROVE ClaimedOnce'
      BY <2>9 DEF Begin
    <2>10. ASSUME Executes(w) PROVE ClaimedOnce'
      BY <2>10 DEF Executes
    <2>11. ASSUME WriteResult(w) PROVE ClaimedOnce'
      BY <2>11 DEF WriteResult, PutResult
    <2>12. ASSUME Complete(w) PROVE ClaimedOnce'
      BY <2>12 DEF Complete, MoveTo
    <2>13. ASSUME WriteFailure(w) PROVE ClaimedOnce'
      BY <2>13 DEF WriteFailure, PutResult
    <2>14. ASSUME Fail(w) PROVE ClaimedOnce'
      BY <2>14 DEF Fail, MoveTo
    <2>15. ASSUME StartWorker(w) PROVE ClaimedOnce'
      BY <2>15 DEF StartWorker
    <2> QED
      BY <1>3, <2>1, <2>2, <2>3, <2>4, <2>5, <2>6, <2>7, <2>8, <2>9, <2>10, <2>11, <2>12, <2>13,
         <2>14, <2>15 DEF Rounds
  <1> QED
    BY <1>1, <1>2, <1>3 DEF QueueNext

(* The service hands the job over once: only a submission that still has to *)
(* ask does so, and no step makes it ask again.                             *)
LEMMA ServiceSteps ==
  ASSUME TypeOK, [Next]_vars
  PROVE  \/ QueueNext /\ UNCHANGED taskVars
         \/ Submit
         \/ CallProvider
         \/ /\ UNCHANGED queueVars
            /\ pc'["submit"] = "ask" => pc["submit"] = "ask"
  <1>2. ASSUME NEW c \in Clients, NEW place, Turns(c, place) PROVE pc'["submit"] = pc["submit"]
    BY <1>2, NamesAssumption DEF TypeOK, Turns, Processes
  <1>3. ASSUME NEW place, Turns("thread", place) PROVE pc'["submit"] = pc["submit"]
    BY <1>3 DEF TypeOK, Turns, Processes
  <1>4. CASE UNCHANGED vars
    BY <1>4 DEF vars, taskVars
  <1>5. CASE Queue
    BY <1>5 DEF Queue
  <1>6. CASE Restart
    BY <1>6, NamesAssumption DEF Restart, Processes
  <1>7. CASE Enqueue \/ BreakOff \/ ThreadEnds
    BY <1>7, <1>3 DEF Enqueue, BreakOff, ThreadEnds
  <1>8. CASE AnswerSubmit
    BY <1>8 DEF AnswerSubmit, Turns, TypeOK, Processes
  <1>9. ASSUME NEW p \in Processes, WriteFile(p)
        PROVE  UNCHANGED queueVars /\ pc' = pc
    BY <1>9 DEF WriteFile
  <1>10. ASSUME NEW c \in Clients, Ask(c) \/ ReadManifest(c) \/ Answer(c)
         PROVE  UNCHANGED queueVars /\ pc'["submit"] = pc["submit"]
    BY <1>10, <1>2 DEF Ask, ReadManifest, Answer
  <1>11. ASSUME NEW c \in Clients, Look(c)
         PROVE  UNCHANGED queueVars /\ pc'["submit"] = pc["submit"]
    BY <1>11, <1>2 DEF Look, Concludes
  <1> QED
    BY <1>4, <1>5, <1>6, <1>7, <1>8, <1>9, <1>10, <1>11, NextCases

LEMMA ClaimKept ==
  ASSUME TypeOK, ClaimedOnce, [Next]_vars
  PROVE  ClaimedOnce'
  <1>1. CASE QueueNext /\ UNCHANGED taskVars
    BY <1>1, QueueKeepsClaim DEF taskVars
  <1>2. CASE Submit
    <2>1. pc["submit"] = "ask" /\ pc'["submit"] = "writing"
      BY <1>2 DEF Submit, Turns, TypeOK, Processes
    <2>2. UNCHANGED <<worker, executions>>
      BY <1>2 DEF Submit, PutRequest, queueVars
    <2> QED
      BY <2>1, <2>2, <1>2 DEF ClaimedOnce
  <1>3. CASE CallProvider
    <2>1. UNCHANGED <<dir, worker, executions>> /\ pc'["submit"] = pc["submit"]
      BY <1>3 DEF CallProvider, Turns, TypeOK, Processes
    <2> QED
      BY <2>1 DEF ClaimedOnce
  <1>4. CASE UNCHANGED queueVars /\ (pc'["submit"] = "ask" => pc["submit"] = "ask")
    BY <1>4 DEF ClaimedOnce, queueVars
  <1> QED
    BY <1>1, <1>2, <1>3, <1>4, ServiceSteps

LEMMA ClaimInit ==
  ASSUME Init
  PROVE  ClaimedOnce
  BY DEF Init, QueueInit, ClaimedOnce, NoDirectories, Places, Fresh, Holding

LEMMA CompletedStays ==
  ASSUME TypeOK, [Next]_vars, dir["completed"] # None
  PROVE  dir'["completed"] # None
  <1> USE DEF TypeOK, QueueTypeOK, Places
  <1>1. ASSUME QueueNext PROVE dir'["completed"] # None
    <2>1. ASSUME NEW to \in {"completed", "failed"}, CanMove(to), MoveTo(to)
          PROVE  dir'["completed"] # None
      BY <2>1 DEF CanMove, MoveTo
    <2>2. ASSUME NEW result, PutResult(result)
          PROVE  dir'["completed"] # None
      BY <2>2 DEF PutResult
    <2>3. ASSUME NEW w \in Workers, Claim(w) PROVE dir'["completed"] # None
      BY <2>3 DEF Claim
    <2>4. ASSUME NEW w \in Workers, MoveStale(w) \/ Complete(w) \/ Fail(w)
          PROVE  dir'["completed"] # None
      BY <2>4, <2>1 DEF MoveStale, Complete, Fail, Target
    <2>5. ASSUME NEW w \in Workers,
                 RecordTimeout(w) \/ WriteClaim(w) \/ WriteResult(w) \/ WriteFailure(w)
          PROVE  dir'["completed"] # None
      BY <2>5, <2>2 DEF RecordTimeout, WriteClaim, WriteResult, WriteFailure
    <2>6. ASSUME NEW w \in Workers,
                 \/ ListRunning(w) \/ Judge(w) \/ LookAtTarget(w) \/ ListPending(w)
                 \/ Begin(w) \/ Executes(w) \/ StartWorker(w) \/ KillWorker(w)
          PROVE  dir' = dir
      BY <2>6 DEF ListRunning, Judge, LookAtTarget, ListPending, Begin, Executes, StartWorker,
                  KillWorker
    <2>7. CASE HourPasses
      BY <2>7 DEF HourPasses
    <2> QED
      BY <1>1, <2>3, <2>4, <2>5, <2>6, <2>7 DEF QueueNext, Rounds
  <1>2. CASE Submit
    BY <1>2 DEF Submit, PutRequest, queueVars
  <1>3. CASE CallProvider
    BY <1>3 DEF CallProvider
  <1> QED
    BY <1>1, <1>2, <1>3, ServiceSteps DEF queueVars

(* The generator is called once per job, and a completed job stays          *)
(* completed, for any number of workers that claim, recover, fail and die   *)
(* (_try_claim_pending_job, recover_stale_running_jobs).                    *)
THEOREM WorkIsDoneOnce == Spec => WorkedOnce
  <1>1. TypeOK /\ ClaimedOnce /\ [Next]_vars
          => [executions' <= 1 /\ (dir["completed"] # None => dir'["completed"] # None)]_vars
    BY ClaimKept, CompletedStays DEF ClaimedOnce
  <1> QED
    BY <1>1, TypeInit, TypeKept, ClaimInit, ClaimKept, PTL DEF Spec, WorkedOnce
-----------------------------------------------------------------------------
(* A job is generated by its thread or by the queue, never by both.         *)
ApartInv ==
  /\ mode = "thread" =>
       /\ dir = NoDirectories
       /\ \A w \in Workers : worker[w] \in {"idle", "dead"} /\ judged[w] = None
  /\ pc["thread"] = "queued" => mode = "thread"

(* Wherever the queue says that the job succeeded, the image is there.      *)
ImagesBehind ==
  /\ \A w \in Workers : worker[w] \in {"made", "complete"} \/ judged[w] = "succeeded" => images = All
  /\ \A p \in Places : dir[p] # None =>
       (p = "completed" \/ dir[p].result = "succeeded" => images = All)

(* Every status that somebody was told, that is written or will be.         *)
Known ==
  {job, files["task"], files["manifest"]} \cup {seen[c] : c \in Clients}
    \cup {plan[p].status : p \in Processes}

Honest(told) ==
  /\ told = "succeeded" => images = All /\ (mode = "task" => dir["completed"] # None)
  /\ told = "partially_complete" => images >= Some

KnownHonest == \A told \in Known : Honest(told)

(* Before its thread has called the provider nobody knows of images.        *)
NothingYet ==
  mode = "thread" /\ pc["thread"] \in {"none", "queued"} =>
    Known \cap {"succeeded", "partially_complete"} = {}

(* What the worker's steps need of their own to leave an image behind.      *)
LEMMA QueueKeepsImages ==
  ASSUME TypeOK, ImagesBehind, QueueNext
  PROVE  ImagesBehind'
  <1> USE NamesAssumption DEF TypeOK, QueueTypeOK, ImagesBehind, Goes, Places, Directory, Statuses, Ended
  <1>1. ASSUME HourPasses PROVE ImagesBehind'
    BY <1>1 DEF HourPasses
  <1>2. ASSUME NEW w \in Workers, KillWorker(w) PROVE ImagesBehind'
    BY <1>2 DEF KillWorker
  <1>3. ASSUME NEW w \in Workers, Rounds(w) PROVE ImagesBehind'
    <2>1. ASSUME ListRunning(w) PROVE ImagesBehind'
      BY <2>1 DEF ListRunning
    <2>2. ASSUME Judge(w) PROVE ImagesBehind'
      BY <2>2 DEF Judge
    <2>3. ASSUME RecordTimeout(w) PROVE ImagesBehind'
      BY <2>3 DEF RecordTimeout, PutResult
    <2>4. ASSUME LookAtTarget(w) PROVE ImagesBehind'
      BY <2>4 DEF LookAtTarget
    <2>5. ASSUME MoveStale(w) PROVE ImagesBehind'
      BY <2>5 DEF MoveStale, MoveTo, CanMove, Target
    <2>6. ASSUME ListPending(w) PROVE ImagesBehind'
      BY <2>6 DEF ListPending
    <2>7. ASSUME Claim(w) PROVE ImagesBehind'
      BY <2>7 DEF Claim
    <2>8. ASSUME WriteClaim(w) PROVE ImagesBehind'
      BY <2>8 DEF WriteClaim, PutResult
    <2>9. ASSUME Begin(w) PROVE ImagesBehind'
      BY <2>9 DEF Begin, RequestThere
    <2>10. ASSUME Executes(w) PROVE ImagesBehind'
      BY <2>10 DEF Executes, RequestThere
    <2>11. ASSUME WriteResult(w) PROVE ImagesBehind'
      BY <2>11 DEF WriteResult, PutResult
    <2>12. ASSUME Complete(w) PROVE ImagesBehind'
      BY <2>12 DEF Complete, MoveTo, CanMove
    <2>13. ASSUME WriteFailure(w) PROVE ImagesBehind'
      BY <2>13 DEF WriteFailure, PutResult
    <2>14. ASSUME Fail(w) PROVE ImagesBehind'
      BY <2>14 DEF Fail, MoveTo, CanMove
    <2>15. ASSUME StartWorker(w) PROVE ImagesBehind'
      BY <2>15 DEF StartWorker
    <2> QED
      BY <1>3, <2>1, <2>2, <2>3, <2>4, <2>5, <2>6, <2>7, <2>8, <2>9, <2>10, <2>11, <2>12, <2>13,
         <2>14, <2>15 DEF Rounds
  <1> QED
    BY <1>1, <1>2, <1>3 DEF QueueNext

LEMMA QueueImages ==
  ASSUME QueueNext
  PROVE  images' = images \/ images' = All
  BY DEF QueueNext, Rounds, HourPasses, KillWorker, ListRunning, Judge, RecordTimeout, LookAtTarget,
         MoveStale, ListPending, Claim, WriteClaim, Begin, Executes, WriteResult, Complete,
         WriteFailure, Fail, StartWorker

(* In the queue of a job that a thread generates nobody moves but to die    *)
(* and to be started again.                                                 *)
LEMMA QueueKeepsApart ==
  ASSUME TypeOK, ApartInv, QueueNext, UNCHANGED <<mode, pc>>
  PROVE  ApartInv'
  <1> SUFFICES ASSUME mode = "thread"
               PROVE  /\ dir' = NoDirectories
                      /\ \A w \in Workers : worker'[w] \in {"idle", "dead"} /\ judged'[w] = None
    BY DEF ApartInv
  <1>1. \A p \in Places : dir[p] = None
    BY DEF ApartInv, NoDirectories
  <1>2. dir["running"] = None /\ dir["pending"] = None
    BY <1>1 DEF Places
  <1>3. \A w \in Workers : worker[w] \in {"idle", "dead"} /\ judged[w] = None
    BY DEF ApartInv
  <1>4. CASE HourPasses
    BY <1>4, <1>2 DEF HourPasses
  <1>5. ASSUME NEW w \in Workers, Rounds(w) PROVE StartWorker(w)
    BY <1>5, <1>2, <1>3
       DEF Rounds, ListRunning, RequestThere, Judge, RecordTimeout, LookAtTarget, MoveStale, ListPending,
           Claim, WriteClaim, Begin, Executes, WriteResult, Complete, WriteFailure, Fail
  <1>6. ASSUME NEW w \in Workers, StartWorker(w) \/ KillWorker(w)
        PROVE  /\ dir' = dir
               /\ \A v \in Workers : worker'[v] \in {"idle", "dead"} /\ judged'[v] = None
    BY <1>6, <1>3 DEF StartWorker, KillWorker, Goes, TypeOK, QueueTypeOK
  <1> QED
    BY <1>4, <1>5, <1>6 DEF QueueNext, ApartInv
-----------------------------------------------------------------------------
Endless == {None, "running", "blocked", "failed"}

(* What anybody knows comes from what somebody knew, save what a poll finds *)
(* in the queue and what the provider answers the thread.                   *)
LEMMA SettlesKnown ==
  ASSUME TypeOK, NEW p \in Processes, NEW status, NEW left, Settles(p, status, left)
  PROVE  \A q \in Processes : plan'[q].status \in Known \cup {status}
  BY DEF Settles, TypeOK, Known

LEMMA KnownFrom ==
  ASSUME NEW S, Known \subseteq S,
         job' \in S, files'["task"] \in S, files'["manifest"] \in S,
         \A c \in Clients : seen'[c] \in S,
         \A p \in Processes : plan'[p].status \in S
  PROVE  Known' \subseteq S
  BY DEF Known

LEMMA KnownGrows ==
  ASSUME TypeOK, Next, ~CallProvider, \A c \in Clients : ~Look(c)
  PROVE  Known' \subseteq Known \cup Endless
  <1> DEFINE S == Known \cup Endless
  <1>0. /\ job \in S /\ files["task"] \in S /\ files["manifest"] \in S
        /\ \A c \in Clients : seen[c] \in S
        /\ \A p \in Processes : plan[p].status \in S
    BY DEF Known
  <1>1. CASE Queue
    BY <1>1 DEF Queue, taskVars, Known
  <1>2. CASE Restart
    <2>1. \A p \in Processes : plan'[p].status \in S
      BY <1>2 DEF Restart, NoPlan, Endless
    <2> QED
      BY <1>2, <1>0, <2>1, KnownFrom DEF Restart
  <1>3. CASE Submit
    <2>1. \A p \in Processes : plan'[p].status \in S
      BY <1>3, SettlesKnown DEF Submit, Processes, Endless
    <2> QED
      BY <1>3, <1>0, <2>1, KnownFrom DEF Submit
  <1>4. CASE Enqueue \/ ThreadEnds
    BY <1>4 DEF Enqueue, ThreadEnds, Known
  <1>5. CASE AnswerSubmit
    <2>1. job' \in S /\ \A c \in Clients : seen'[c] \in S
      BY <1>5, <1>0 DEF AnswerSubmit, Processes
    <2> QED
      BY <1>5, <1>0, <2>1, KnownFrom DEF AnswerSubmit
  <1>6. CASE BreakOff
    <2>1. \A p \in Processes : plan'[p].status \in S
      BY <1>6, SettlesKnown DEF BreakOff, Processes, Endless
    <2> QED
      BY <1>6, <1>0, <2>1, KnownFrom DEF BreakOff
  <1>7. ASSUME NEW p \in Processes, WriteFile(p) PROVE Known' \subseteq S
    <2>1. \A q \in Processes : plan'[q].status \in S
      BY <1>7, <1>0, SettlesKnown DEF WriteFile
    <2>2. files'["task"] \in S /\ files'["manifest"] \in S
      BY <1>7, <1>0 DEF WriteFile, TypeOK
    <2> QED
      BY <1>7, <1>0, <2>1, <2>2, KnownFrom DEF WriteFile
  <1>8. ASSUME NEW c \in Clients, Ask(c) PROVE Known' \subseteq S
    <2>1. \A q \in Processes : plan'[q].status \in S
      BY <1>8, <1>0, SettlesKnown DEF Ask, Processes
    <2> QED
      BY <1>8, <1>0, <2>1, KnownFrom DEF Ask
  <1>9. ASSUME NEW c \in Clients, ReadManifest(c) PROVE Known' \subseteq S
    <2>1. \A q \in Processes : plan'[q].status \in S
      BY <1>9, <1>0, SettlesKnown DEF ReadManifest, Processes
    <2> QED
      BY <1>9, <1>0, <2>1, KnownFrom DEF ReadManifest
  <1>10. ASSUME NEW c \in Clients, Answer(c) PROVE Known' \subseteq S
    <2>1. \A q \in Processes : plan'[q].status \in S
      BY <1>10, <1>0 DEF Answer, NoPlan, Endless, TypeOK
    <2>2. job' \in S /\ \A d \in Clients : seen'[d] \in S
      BY <1>10, <1>0 DEF Answer, TypeOK, Processes
    <2> QED
      BY <1>10, <1>0, <2>1, <2>2, KnownFrom DEF Answer
  <1> QED
    BY <1>1, <1>2, <1>3, <1>4, <1>5, <1>6, <1>7, <1>8, <1>9, <1>10, NextCases

LEMMA LookKnown ==
  ASSUME TypeOK, NEW c \in Clients, Look(c)
  PROVE  /\ UNCHANGED <<queueVars, mode>> /\ pc'["thread"] = pc["thread"]
         /\ \/ Known' \subseteq Known \cup Endless
            \/ dir["completed"] # None /\ Known' \subseteq Known \cup {"succeeded"}
  <1>1. pc[c] \in Places /\ UNCHANGED <<queueVars, mode, job, files, seen>>
    BY DEF Look
  <1>2. pc'["thread"] = pc["thread"]
    BY NamesAssumption DEF Look, Concludes, Turns, TypeOK, Processes
  <1>3. CASE UNCHANGED plan
    <2>1. Known' = Known
      BY <1>1, <1>3 DEF Known
    <2> QED
      BY <1>1, <1>2, <2>1
  <1>4. ASSUME NEW place \in Places \cup {None},
               Settles(c, Told(place), <<"task", "manifest">>),
               place \in Places => dir[place] # None
        PROVE  \/ Known' \subseteq Known \cup Endless
               \/ dir["completed"] # None /\ Known' \subseteq Known \cup {"succeeded"}
    <2>1. \/ Told(place) \in {"running", "failed"}
          \/ dir["completed"] # None /\ Told(place) = "succeeded"
      BY <1>4 DEF Told, Places
    <2>2. Known' \subseteq Known \cup {Told(place)}
      <3>1. \A q \in Processes : plan'[q].status \in Known \cup {Told(place)}
        BY <1>4, SettlesKnown DEF Processes
      <3> QED
        BY <1>1, <3>1 DEF Known
    <2> QED
      BY <2>1, <2>2 DEF Endless
  <1>5. \/ UNCHANGED plan
        \/ \E place \in Places \cup {None} :
             /\ Settles(c, Told(place), <<"task", "manifest">>)
             /\ place \in Places => dir[place] # None
    <2>1. \/ Concludes(c, None)
          \/ \E place \in Places : dir[place] # None /\ Concludes(c, place)
          \/ UNCHANGED plan
      BY <1>1 DEF Look
    <2> QED
      BY <2>1, NamesAssumption DEF Concludes
  <1> QED
    BY <1>1, <1>2, <1>3, <1>4, <1>5

(* The other steps of the service touch the queue by a new request alone,   *)
(* and a thread is enqueued for a job of its mode alone.                    *)
LEMMA OtherSteps ==
  ASSUME TypeOK, Next, ~Queue, ~CallProvider, \A c \in Clients : ~Look(c)
  PROVE  /\ UNCHANGED <<mode, images, worker, judged>>
         /\ dir' = dir \/ (mode = "task" /\ PutRequest)
         /\ pc'["thread"] \in {"none", "queued"} => pc["thread"] \in {"none", "queued"}
         /\ pc'["thread"] = "queued" => pc["thread"] = "queued" \/ mode = "thread"
  <1> USE NamesAssumption DEF Processes
  <1>1. ASSUME NEW p \in Processes \ {"thread"}, NEW place, Turns(p, place)
        PROVE  pc'["thread"] = pc["thread"]
    BY <1>1 DEF TypeOK, Turns
  <1>2. CASE Restart
    BY <1>2 DEF Restart, queueVars
  <1>3. CASE Submit
    BY <1>3, <1>1 DEF Submit, queueVars, PutRequest
  <1>4. CASE Enqueue
    BY <1>4 DEF Enqueue, queueVars, Turns, TypeOK
  <1>5. CASE AnswerSubmit
    BY <1>5, <1>1 DEF AnswerSubmit, queueVars
  <1>6. CASE BreakOff \/ ThreadEnds
    BY <1>6 DEF BreakOff, ThreadEnds, queueVars, Turns, TypeOK
  <1>7. ASSUME NEW p \in Processes, WriteFile(p)
        PROVE  UNCHANGED <<mode, images, worker, judged, dir, pc>>
    BY <1>7 DEF WriteFile, queueVars
  <1>8. ASSUME NEW c \in Clients, Ask(c) \/ ReadManifest(c) \/ Answer(c)
        PROVE  UNCHANGED <<mode, images, worker, judged, dir>> /\ pc'["thread"] = pc["thread"]
    BY <1>8, <1>1 DEF Ask, ReadManifest, Answer, queueVars
  <1> QED
    BY <1>2, <1>3, <1>4, <1>5, <1>6, <1>7, <1>8, NextCases

HonestInv == ApartInv /\ ImagesBehind /\ KnownHonest /\ NothingYet

(* An honest status stays honest while images are not taken away.           *)
LEMMA HonestStays ==
  ASSUME TypeOK, [Next]_vars, NEW told, Honest(told), mode' = mode, images' = images \/ images' = All
  PROVE  Honest(told)'
  <1>1. images \in 0 .. 2
    BY DEF TypeOK, QueueTypeOK, Images
  <1> QED
    BY <1>1, CompletedStays DEF Honest, All, Some

LEMMA EndlessHonest ==
  ASSUME NEW told \in Endless
  PROVE  told # "succeeded" /\ told # "partially_complete"
  BY NamesAssumption DEF Endless, Statuses, Ended

LEMMA HonestKept ==
  ASSUME TypeOK, HonestInv, [Next]_vars
  PROVE  HonestInv'
  <1> USE DEF HonestInv
  <1>0. CASE UNCHANGED vars
    BY <1>0 DEF vars, taskVars, queueVars, ApartInv, ImagesBehind, KnownHonest, Known, Honest, NothingYet
  <1>1. CASE Queue
    <2>1. QueueNext /\ UNCHANGED <<mode, pc>> /\ Known' = Known
      BY <1>1 DEF Queue, taskVars, Known
    <2>2. KnownHonest'
      BY <2>1, QueueImages, HonestStays DEF KnownHonest
    <2>3. NothingYet'
      BY <2>1 DEF NothingYet
    <2> QED
      BY <2>1, <2>2, <2>3, QueueKeepsApart, QueueKeepsImages
  <1>2. CASE CallProvider
    <2>1. PICK outcome \in Outcomes :
            images' = outcome.images /\ Settles("thread", outcome.status, <<"manifest", "task">>)
      BY <1>2 DEF CallProvider
    <2>2. /\ pc["thread"] = "queued" /\ pc'["thread"] = "writing"
          /\ UNCHANGED <<mode, dir, worker, judged, job, files, seen>>
      BY <1>2 DEF CallProvider, Turns, TypeOK, Processes
    <2>3. mode = "thread"
      BY <2>2 DEF ApartInv
    <2>4. ApartInv'
      BY <2>2, <2>3 DEF ApartInv
    <2>5. ImagesBehind'
      <3>1. \A w \in Workers : worker'[w] \in {"idle", "dead"} /\ judged'[w] # "succeeded"
        BY <2>2, <2>3, NamesAssumption DEF ApartInv, Statuses, Ended
      <3>2. \A p \in Places : dir'[p] = None
        BY <2>2, <2>3 DEF ApartInv, NoDirectories
      <3> QED
        BY <3>1, <3>2 DEF ImagesBehind
    <2>6. Known' \subseteq Known \cup {outcome.status}
      <3>1. \A q \in Processes : plan'[q].status \in Known \cup {outcome.status}
        BY <2>1, SettlesKnown DEF Processes
      <3> QED
        BY <2>2, <3>1 DEF Known
    <2>7. Known \cap {"succeeded", "partially_complete"} = {}
      BY <2>2, <2>3 DEF NothingYet
    <2>8. /\ outcome.status = "succeeded" => images' = All
          /\ outcome.status = "partially_complete" => images' >= Some
      BY <2>1 DEF Outcomes, All, Some
    <2>9. KnownHonest'
      BY <2>2, <2>3, <2>6, <2>7, <2>8 DEF KnownHonest, Honest
    <2> QED
      BY <2>2, <2>4, <2>5, <2>9 DEF NothingYet
  <1>3. ASSUME NEW c \in Clients, Look(c) PROVE HonestInv'
    <2>1. UNCHANGED <<dir, images, worker, judged, mode>> /\ pc'["thread"] = pc["thread"]
      BY <1>3, LookKnown DEF queueVars
    <2>2. ApartInv' /\ ImagesBehind'
      BY <2>1 DEF ApartInv, ImagesBehind
    <2>3. \A told \in Known : Honest(told)'
      BY <2>1 DEF KnownHonest, Honest
    <2>4. CASE Known' \subseteq Known \cup Endless
      <3>1. KnownHonest'
        BY <2>3, <2>4, EndlessHonest DEF KnownHonest, Honest
      <3>2. NothingYet'
        BY <2>1, <2>4, EndlessHonest DEF NothingYet
      <3> QED
        BY <2>2, <3>1, <3>2
    <2>5. CASE dir["completed"] # None /\ Known' \subseteq Known \cup {"succeeded"}
      <3>1. images = All
        BY <2>5 DEF ImagesBehind, Places
      <3>2. KnownHonest'
        BY <2>1, <2>3, <2>5, <3>1 DEF KnownHonest, Honest
      <3>3. mode # "thread"
        BY <2>5 DEF ApartInv, NoDirectories, Places
      <3>4. NothingYet'
        BY <2>1, <3>3 DEF NothingYet
      <3> QED
        BY <2>2, <3>2, <3>4
    <2> QED
      BY <1>3, <2>4, <2>5, LookKnown
  <1>4. ASSUME Next, ~Queue, ~CallProvider, \A c \in Clients : ~Look(c)
        PROVE  HonestInv'
    <2>1. /\ UNCHANGED <<mode, images, worker, judged>>
          /\ dir' = dir \/ (mode = "task" /\ PutRequest)
          /\ pc'["thread"] \in {"none", "queued"} => pc["thread"] \in {"none", "queued"}
          /\ pc'["thread"] = "queued" => pc["thread"] = "queued" \/ mode = "thread"
      BY <1>4, OtherSteps
    <2>2. Known' \subseteq Known \cup Endless
      BY <1>4, KnownGrows
    <2>3. ApartInv'
      BY <2>1 DEF ApartInv
    <2>4. ImagesBehind'
      <3>1. CASE dir' = dir
        BY <2>1, <3>1 DEF ImagesBehind
      <3>2. CASE PutRequest
        <4>1. dir' = [dir EXCEPT !["pending"] = [request |-> TRUE, result |-> None]]
          BY <3>2 DEF PutRequest
        <4>2. \A p \in Places : dir'[p] = IF p = "pending" THEN [request |-> TRUE, result |-> None] ELSE dir[p]
          BY <4>1 DEF TypeOK, QueueTypeOK
        <4>3. None # "succeeded"
          BY NamesAssumption DEF Statuses, Ended
        <4> QED
          BY <2>1, <4>2, <4>3 DEF ImagesBehind
      <3> QED
        BY <2>1, <3>1, <3>2
    <2>5. \A told \in Known : Honest(told)'
      BY <1>4, <2>1, HonestStays DEF KnownHonest
    <2>6. KnownHonest'
      BY <2>2, <2>5, EndlessHonest DEF KnownHonest, Honest
    <2>7. NothingYet'
      BY <2>1, <2>2, EndlessHonest DEF NothingYet
    <2> QED
      BY <2>3, <2>4, <2>6, <2>7
  <1> QED
    BY <1>0, <1>1, <1>2, <1>3, <1>4

LEMMA HonestInit ==
  ASSUME Init
  PROVE  HonestInv
  <1>1. ApartInv
    BY DEF Init, QueueInit, ApartInv, Processes
  <1>2. Known \subseteq {None}
    BY DEF Init, Known, NoPlan
  <1>3. None # "succeeded" /\ None # "partially_complete"
    BY NamesAssumption DEF Statuses, Ended
  <1>4. ImagesBehind
    BY <1>3 DEF Init, QueueInit, ImagesBehind, NoDirectories
  <1> QED
    BY <1>1, <1>2, <1>3, <1>4 DEF HonestInv, KnownHonest, Honest, NothingYet

(* Nobody is ever told of images that are not there, for any number of      *)
(* clients, workers and killed processes (poll_keyframe_generation and what *)
(* it reads: task state, manifest and the four places of the queue).        *)
THEOREM NobodyIsMisled == Spec => []AnswersHonest
  <1>1. HonestInv => AnswersHonest
    BY DEF HonestInv, KnownHonest, Known, Honest, AnswersHonest
  <1> QED
    BY <1>1, TypeInit, TypeKept, HonestInit, HonestKept, PTL DEF Spec
=============================================================================
