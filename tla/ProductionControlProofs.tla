----------------------- MODULE ProductionControlProofs -----------------------
(***************************************************************************)
(* What ProductionControl keeps for any clients, keys, runs and requests,  *)
(* wherever the jobs stop and however often a request is sent again.       *)
(***************************************************************************)
EXTENDS ProductionControl, TLAPS

-----------------------------------------------------------------------------
(* The steps of the actions.                                               *)

Actions == PlanActions \cup RunActions

(* The steps of the actions on a run other than the writeback.              *)
Plain == {To(t) : t \in ExecutionStates} \cup {Control(t) : t \in ControlStates}
         \cup {Record("decision"), Record("gate")}

LEMMA StepsAre ==
  ASSUME NEW a \in Actions
  PROVE  \/ a \in PlanActions /\ Steps(a) = <<Record(a)>>
         \/ a = "writeback" /\ Steps(a) = WritebackSteps
         \/ a \in RunActions \ {"writeback"} /\ \E s \in Plain : Steps(a) = <<s>>
         \/ a \in RunActions \ {"writeback"} /\ \E s, t \in Plain : Steps(a) = <<s, t>>
  <1>1. CASE a \in PlanActions
    BY <1>1, Zenon DEF Steps, PlanActions
  <1>2. CASE a = "writeback"
    BY <1>2, Zenon DEF Steps
  <1>3. CASE a \in {"progress", "clear_blocker", "complete", "waiting_human", "block"}
    <2>1. \E t \in {"running", "completed", "waiting-human", "blocked"} : Steps(a) = <<To(t)>>
      BY <1>3, Zenon DEF Steps
    <2>2. \E t \in ExecutionStates : Steps(a) = <<To(t)>>
      BY <2>1 DEF ExecutionStates
    <2>3. \E s \in Plain : Steps(a) = <<s>>
      BY <2>2, Zenon DEF Plain
    <2> QED
      BY <1>3, <2>3 DEF RunActions
  <1>4. CASE a = "provider_gate"
    <2>1. Steps(a) = <<Record("gate")>>
      BY <1>4, Zenon DEF Steps
    <2>2. \E s \in Plain : Steps(a) = <<s>>
      BY <2>1, Zenon DEF Plain
    <2> QED
      BY <1>4, <2>2 DEF RunActions
  <1>5. CASE a \in {"pause", "resume"}
    <2>1. \/ Steps(a) = <<Control("pause-requested"), Control("paused")>>
          \/ Steps(a) = <<Control("resume-requested"), Control("active")>>
      BY <1>5, Zenon DEF Steps
    <2>2. {"pause-requested", "paused", "resume-requested", "active"} \subseteq ControlStates
      BY DEF ControlStates
    <2>3. \E s, t \in Plain : Steps(a) = <<s, t>>
      BY <2>1, <2>2, Zenon DEF Plain
    <2> QED
      BY <1>5, <2>3 DEF RunActions
  <1>6. CASE a \in {"cancel", "retry", "decide_human"}
    <2>1. \/ Steps(a) = <<Control("cancel-requested"), To("cancelled")>>
          \/ Steps(a) = <<To("retrying"), To("running")>>
          \/ Steps(a) = <<Record("decision"), To("running")>>
      BY <1>6, Zenon DEF Steps
    <2>2. "cancel-requested" \in ControlStates /\ {"cancelled", "retrying", "running"} \subseteq ExecutionStates
      BY DEF ControlStates, ExecutionStates
    <2>3. \E s, t \in Plain : Steps(a) = <<s, t>>
      BY <2>1, <2>2, Zenon DEF Plain
    <2> QED
      BY <1>6, <2>3 DEF RunActions
  <1> QED
    BY <1>1, <1>2, <1>3, <1>4, <1>5, <1>6 DEF Actions, RunActions

LEMMA StepsKnown ==
  ASSUME NEW a \in Actions
  PROVE  /\ Len(Steps(a)) \in 1 .. 6 /\ DOMAIN Steps(a) = 1 .. Len(Steps(a))
         /\ a \in PlanActions => Len(Steps(a)) = 1 /\ Steps(a)[1] = Record(a)
         /\ a = "writeback" => Steps(a) = WritebackSteps /\ Len(Steps(a)) = 6
  <1>1. "writeback" \notin PlanActions /\ RunActions \cap PlanActions = {}
    BY DEF RunActions, PlanActions
  <1>2. CASE a \in PlanActions /\ Steps(a) = <<Record(a)>>
    BY <1>1, <1>2
  <1>3. CASE a = "writeback" /\ Steps(a) = WritebackSteps
    BY <1>1, <1>3 DEF WritebackSteps
  <1>4. CASE a \in RunActions \ {"writeback"} /\ \E s \in Plain : Steps(a) = <<s>>
    BY <1>1, <1>4
  <1>5. CASE a \in RunActions \ {"writeback"} /\ \E s, t \in Plain : Steps(a) = <<s, t>>
    BY <1>1, <1>5
  <1> QED
    BY <1>2, <1>3, <1>4, <1>5, StepsAre

KnownStep(a, i, s) ==
  /\ s.kind = "transition" => s.target \in ExecutionStates
  /\ s.kind = "control" => s.target \in ControlStates
  /\ s.target = "waiting-human" => s.kind = "transition"
  /\ a \in RunActions => s.kind \notin PlanActions
  /\ s.kind \in {"draft", "finalize"} =>
       a = "writeback" /\ (s.kind = "draft" => i = 1) /\ (s.kind = "finalize" => i = 6)

LEMMA StepKnown ==
  ASSUME NEW a \in Actions, NEW i \in 1 .. Len(Steps(a))
  PROVE  KnownStep(a, i, Steps(a)[i])
  <1>1. ASSUME NEW s \in Plain PROVE KnownStep(a, i, s)
    <2>1. ASSUME NEW t \in ExecutionStates, s = To(t) PROVE KnownStep(a, i, s)
      <3>1. s.kind = "transition" /\ s.target = t
        BY <2>1 DEF To
      <3> QED
        BY <3>1 DEF KnownStep, PlanActions
    <2>2. ASSUME NEW t \in ControlStates, s = Control(t) PROVE KnownStep(a, i, s)
      <3>1. s.kind = "control" /\ s.target = t
        BY <2>2 DEF Control
      <3> QED
        BY <3>1 DEF KnownStep, PlanActions, ControlStates
    <2>3. ASSUME s = Record("decision") \/ s = Record("gate") PROVE KnownStep(a, i, s)
      BY <2>3 DEF KnownStep, PlanActions, Record
    <2> QED
      BY <2>1, <2>2, <2>3 DEF Plain
  <1>2. CASE a \in PlanActions /\ Steps(a) = <<Record(a)>>
    BY <1>2 DEF KnownStep, Record, PlanActions, RunActions
  <1>3. CASE a = "writeback" /\ Steps(a) = WritebackSteps
    <2>1. i \in 1 .. 6
      BY <1>3, StepsKnown
    <2>2. PICK kind : /\ Steps(a)[i] = Record(kind)
                      /\ kind \in {"draft", "register", "writeback", "revision", "impact", "finalize"}
                      /\ (kind = "draft" => i = 1) /\ (kind = "finalize" => i = 6)
      BY <1>3, <2>1 DEF WritebackSteps
    <2>3. Steps(a)[i].kind = kind /\ Steps(a)[i].target = "none"
      BY <2>2 DEF Record
    <2> QED
      BY <1>3, <2>2, <2>3 DEF KnownStep, PlanActions
  <1>4. CASE \E s \in Plain : Steps(a) = <<s>>
    BY <1>1, <1>4
  <1>5. CASE \E s, t \in Plain : Steps(a) = <<s, t>>
    BY <1>1, <1>5
  <1> QED
    BY <1>2, <1>3, <1>4, <1>5, StepsAre
(* Only the first step of an action of its own decides or evaluates.        *)
LEMMA StepKinds ==
  ASSUME NEW a \in Actions, NEW i \in 1 .. Len(Steps(a))
  PROVE  \/ a = "writeback" /\ i \in 1 .. 6 /\ Steps(a)[i] = WritebackSteps[i]
         \/ Steps(a)[i].kind \in PlanActions \cup {"transition", "control"}
         \/ i = 1 /\ a \in {"decide_human", "provider_gate"}
  <1> DEFINE Goal == \/ a = "writeback" /\ i \in 1 .. 6 /\ Steps(a)[i] = WritebackSteps[i]
                     \/ Steps(a)[i].kind \in PlanActions \cup {"transition", "control"}
                     \/ i = 1 /\ a \in {"decide_human", "provider_gate"}
  <1>0. \A t : To(t).kind = "transition" /\ Control(t).kind = "control" /\ Record(t).kind = t
    BY DEF To, Control, Record
  <1>1. CASE a \in PlanActions
    <2>1. Len(Steps(a)) = 1 /\ Steps(a)[1] = Record(a)
      BY <1>1, StepsKnown
    <2>2. i = 1
      BY <2>1
    <2> QED
      BY <1>0, <1>1, <2>1, <2>2
  <1>2. CASE a = "writeback"
    BY <1>2, StepsKnown
  <1>3. CASE a \in {"progress", "clear_blocker", "complete", "waiting_human", "block"}
    <2>1. PICK t : Steps(a) = <<To(t)>>
      BY <1>3, Zenon DEF Steps
    <2> QED
      BY <1>0, <2>1
  <1>4. CASE a = "provider_gate"
    <2>1. Steps(a) = <<Record("gate")>>
      BY <1>4, Zenon DEF Steps
    <2> QED
      BY <1>4, <2>1
  <1>5. CASE a \in {"pause", "resume"}
    <2>1. PICK t, u : Steps(a) = <<Control(t), Control(u)>>
      BY <1>5, Zenon DEF Steps
    <2> QED
      BY <1>0, <2>1
  <1>6. CASE a = "cancel"
    <2>1. Steps(a) = <<Control("cancel-requested"), To("cancelled")>>
      BY <1>6, Zenon DEF Steps
    <2> QED
      BY <1>0, <2>1
  <1>7. CASE a = "retry"
    <2>1. Steps(a) = <<To("retrying"), To("running")>>
      BY <1>7, Zenon DEF Steps
    <2> QED
      BY <1>0, <2>1
  <1>8. CASE a = "decide_human"
    <2>1. Steps(a) = <<Record("decision"), To("running")>>
      BY <1>8, Zenon DEF Steps
    <2> QED
      BY <1>0, <1>8, <2>1
  <1> QED
    BY <1>1, <1>2, <1>3, <1>4, <1>5, <1>6, <1>7, <1>8 DEF Actions, RunActions
-----------------------------------------------------------------------------
(* The inductive invariant.                                                *)

RequestType == [key : Keys, run : Runs, action : Actions]

JobType == [request : Requests, expected : Nat, datum : Nat, step : Nat]

(* The ledger rs has command i of request q.                                *)
IsOf(c, q, i) ==
  /\ c.key = q.key /\ c.slot = Slot(q.action, i)
  /\ c.digest.run = q.run
  /\ c.digest.kind = Steps(q.action)[i].kind /\ c.digest.target = Steps(q.action)[i].target

Has(rs, q, i) == \E c \in rs : IsOf(c, q, i)

(* A job has the receipts of the commands it has played, its own or those   *)
(* of an earlier job of the same request.                                   *)
Played ==
  job # Idle =>
    /\ job \in JobType
    /\ \A i \in CommandSteps(job.request.action) : i < job.step => Has(receipts, job.request, i)

Answered == \A q \in done : \A i \in CommandSteps(q.action) : Has(receipts, q, i)

(* The commands of an action are committed in their order, whichever jobs   *)
(* of whichever requests with the same key commit them.                     *)
InSequence ==
  \A d \in receipts : \A a \in RunActions : \A j \in CommandSteps(a) :
    d.slot = <<a, j>> =>
      \A i \in CommandSteps(a) : i < j =>
        \E c \in receipts : c.key = d.key /\ c.slot = <<a, i>> /\ c.version < d.version

(* Runs start when the plan is approved, once.                              *)
Human(d) == d.target = "waiting-human" \/ d.kind = "decision"

Planned ==
  plan.status # "approved" =>
    /\ \A r \in Runs : runs[r] = NotStarted
    /\ \A c \in receipts : ~Human(c.digest)
    /\ job # Idle => job.request.action \in PlanActions

(* The latest ask or decision of a run says whether a request is open.      *)
Latest(rs, r, c) ==
  /\ c.digest.run = r /\ Human(c.digest)
  /\ \A d \in rs : d.digest.run = r /\ Human(d.digest) => d.version <= c.version

Opened(rs, r, run) ==
  /\ \A c \in rs : Latest(rs, r, c) =>
       run.open = IF c.digest.kind = "decision" THEN NoKey ELSE c.key
  /\ (\A c \in rs : ~Latest(rs, r, c)) => run.open = NoKey

Open ==
  /\ \A c \in receipts : c.digest.kind = "decision" => c.digest.target # "waiting-human"
  /\ \A r \in Runs : Opened(receipts, r, runs[r])

(* A plan has its mission, already when a job is about to propose it.       *)
MissionFirst ==
  /\ plan.status # "none" => plan.mission
  /\ job # Idle /\ job.request.action = "plan" => plan.mission

(* A job on a run that has ended, by its own command or before it began,    *)
(* decides nothing and evaluates no gate, and as a writeback it follows an  *)
(* earlier one with its key.                                                *)
Rests ==
  Plays(job) /\ runs[job.request.run].execution \in Terminal =>
    /\ Current.kind \notin {"decision", "gate"}
    /\ job.request.action = "writeback" => Found(job.request.key, Slot("writeback", 3)) # {}

Inv == /\ TypeOK /\ Played /\ Answered /\ CommandsCommitOnce /\ InSequence
       /\ Planned /\ MissionFirst /\ Rests /\ Open /\ FinalHasProvenance
-----------------------------------------------------------------------------
(* What is known of the job.                                               *)

LEMMA RequestsKnown ==
  ASSUME NEW q \in Requests
  PROVE  q \in RequestType /\ q.key \in Keys /\ q.run \in Runs /\ q.action \in Actions
  BY ControlConstants DEF RequestType, Actions

LEMMA JobKnown ==
  ASSUME Inv, job # Idle
  PROVE  /\ job \in JobType /\ job.request \in RequestType
         /\ job.request.key \in Keys /\ job.request.run \in Runs /\ job.request.action \in Actions
         /\ job.step \in 1 .. Len(Steps(job.request.action)) + 1
  <1>1. job \in JobType /\ job.request \in Requests
    BY DEF Inv, Played, JobType
  <1> QED
    BY <1>1, RequestsKnown DEF Inv, TypeOK

LEMMA PlayKnown ==
  ASSUME Inv, Plays(job)
  PROVE  /\ job # Idle /\ job.step \in 1 .. Len(Steps(job.request.action)) /\ job.step \in 1 .. 6
         /\ KnownStep(job.request.action, job.step, Current)
         /\ job.request.action \in PlanActions => job.step = 1 /\ Current = Record(job.request.action)
  <1>1. job # Idle /\ job.step <= Len(Steps(job.request.action))
    BY DEF Plays
  <1>2. PICK a \in Actions : a = job.request.action
    BY <1>1, JobKnown
  <1>3. Len(Steps(a)) \in 1 .. 6
    BY StepsKnown
  <1>4. PICK i \in 1 .. Len(Steps(a)) : i = job.step
    BY <1>1, <1>2, <1>3, JobKnown
  <1>5. KnownStep(a, i, Steps(a)[i]) /\ i \in 1 .. 6
    BY <1>3, StepKnown
  <1>7. a \in PlanActions => Len(Steps(a)) = 1 /\ Steps(a)[1] = Record(a)
    BY StepsKnown
  <1>8. \A n \in Nat : n = 1 /\ i \in 1 .. n => i = 1
    OBVIOUS
  <1>6. a \in PlanActions => i = 1 /\ Steps(a)[1] = Record(a)
    BY <1>3, <1>7, <1>8
  <1> QED
    BY <1>1, <1>2, <1>4, <1>5, <1>6 DEF Current

LEMMA CommandKnown ==
  ASSUME NEW a \in Actions, NEW i
  PROVE  i \in CommandSteps(a) <=> i \in 1 .. Len(Steps(a)) /\ Steps(a)[i].kind \notin {"draft", "finalize"}
  BY StepsKnown DEF CommandSteps

LEMMA SlotKnown ==
  ASSUME NEW a \in Actions, NEW i \in 1 .. 6
  PROVE  /\ Slot(a, i) \in Slots
         /\ a \in RunActions => Slot(a, i) = <<a, i>>
         /\ a \in PlanActions => \A b \in RunActions : \A j : Slot(a, i) # <<b, j>>
  <1>1. RunActions \cap PlanActions = {} /\ "bare" \notin RunActions
    BY DEF RunActions, PlanActions
  <1>2. CASE a \in PlanActions
    <2>1. Slot(a, i) = <<"bare", 1>>
      BY <1>2 DEF Slot
    <2> QED
      BY <1>1, <1>2, <2>1 DEF Slots
  <1>3. CASE a \in RunActions
    <2>1. Slot(a, i) = <<a, i>>
      BY <1>1, <1>3 DEF Slot
    <2> QED
      BY <1>1, <1>3, <2>1 DEF Slots
  <1> QED
    BY <1>2, <1>3 DEF Actions
-----------------------------------------------------------------------------
(* How a step changes the ledger and the job.                              *)

(* The receipt of a commit.                                                 *)
IsNew(c) ==
  /\ job # Idle /\ receipts' = receipts \cup {c} /\ version' = version + 1 /\ c.version = version + 1
  /\ c.digest.datum = job.datum
  /\ IsOf(c, job.request, job.step)
  /\ \A d \in receipts : d.key = c.key => d.slot # c.slot

LEMMA CommitWrites ==
  ASSUME Inv, Commit
  PROVE  \E c : IsNew(c)
  <1>1. PICK c : c = [key |-> job.request.key, slot |-> CurrentSlot, digest |-> CurrentDigest,
                      version |-> version + 1]
    OBVIOUS
  <1>2. receipts' = receipts \cup {c} /\ version' = version + 1 /\ Prior = {} /\ job # Idle
    BY <1>1 DEF Commit, IsCommand, Plays
  <1>3. c.key = job.request.key /\ c.slot = CurrentSlot /\ c.digest = CurrentDigest /\ c.version = version + 1
    BY <1>1
  <1>4. IsOf(c, job.request, job.step) /\ c.digest.datum = job.datum
    BY <1>3 DEF IsOf, CurrentSlot, CurrentDigest, Current
  <1>5. \A d \in receipts : d.key = c.key => d.slot # c.slot
    BY <1>2, <1>3 DEF Prior, Found
  <1> QED
    BY <1>2, <1>3, <1>4, <1>5 DEF IsNew

LEMMA LedgerMoves ==
  ASSUME [Next]_vars
  PROVE  UNCHANGED ledger \/ Commit
  BY DEF Next, vars, ledger, Begin, Replay, Refuse, Fail, Draft, Finalize, SaveFails, ReviseShot, Respond, Crash

LEMMA ReceiptsGrow ==
  ASSUME [Next]_vars, NEW q, NEW i, Has(receipts, q, i)
  PROVE  Has(receipts', q, i)
  <1>1. receipts \subseteq receipts'
    BY LedgerMoves DEF Commit, ledger
  <1> QED
    BY <1>1 DEF Has

(* A job goes on by a step, once the ledger has the command of that step.   *)
GoesOn ==
  /\ Plays(job)
  /\ job' \in JobType /\ job'.request = job.request /\ job'.step = job.step + 1
  /\ Current.kind \notin {"draft", "finalize"} => Has(receipts', job.request, job.step)

Begins ==
  /\ job = Idle /\ job' \in JobType /\ job'.step = 1
  /\ \/ job'.request.action \in PlanActions
     \/ /\ runs[job'.request.run].execution # "none"
        /\ Allowed(job'.request.run, job'.request.action) \/ WritebackReplay(job'.request)
  /\ job'.request.action = "plan" => plan.mission
  /\ UNCHANGED ledger

LEMMA DatumType ==
  ASSUME TypeOK, NEW q \in RequestType, NEW expected
  PROVE  Datum(q, expected) \in Nat
  <1>1. version + 1 \in Nat /\ plan.revision \in Nat /\ runs[q.run].attempts \in Nat
    BY DEF TypeOK, RequestType
  <1> QED
    BY <1>1 DEF Datum

LEMMA JobMoves ==
  ASSUME Inv, [Next]_vars
  PROVE  UNCHANGED job \/ job' = Idle \/ GoesOn \/ Begins
  <1>1. ASSUME NEW q \in Requests, NEW v \in 0 .. version, Begin(q, v) PROVE Begins
    <2>1. /\ job = Idle /\ UNCHANGED ledger /\ Accepts(q, v)
          /\ job' = [request |-> q, expected |-> v, datum |-> Datum(q, v), step |-> 1]
      BY <1>1 DEF Begin
    <2>2. Datum(q, v) \in Nat /\ v \in Nat
      BY RequestsKnown, DatumType DEF Inv, TypeOK
    <2>3. /\ \/ q.action \in PlanActions
             \/ /\ runs[q.run].execution # "none"
                /\ Allowed(q.run, q.action) \/ WritebackReplay(q)
          /\ q.action = "plan" => plan.mission
      BY <2>1 DEF Accepts, PlanActions
    <2> QED
      BY <2>1, <2>2, <2>3 DEF Begins, JobType
  <1>2. ASSUME Plays(job), job' = [job EXCEPT !.step = @ + 1, !.expected = @ + 1]
                           \/ job' = [job EXCEPT !.step = @ + 1]
        PROVE  job' \in JobType /\ job'.request = job.request /\ job'.step = job.step + 1
    <2>1. job \in JobType
      BY <1>2, JobKnown DEF Plays
    <2>2. job.step \in Nat /\ job.expected \in Nat
      BY <2>1 DEF JobType
    <2>5. PICK s \in Nat, e \in Nat : s = job.step + 1 /\ e = job.expected + 1
      BY <2>2
    <2>3. CASE job' = [job EXCEPT !.step = @ + 1, !.expected = @ + 1]
      <3>1. job' = [job EXCEPT !.step = s, !.expected = e]
        BY <2>1, <2>3, <2>5 DEF JobType
      <3> QED
        BY <2>1, <2>5, <3>1 DEF JobType
    <2>4. CASE job' = [job EXCEPT !.step = @ + 1]
      BY <2>1, <2>4 DEF JobType
    <2> QED
      BY <1>2, <2>3, <2>4
  <1>3. ASSUME Replay PROVE GoesOn
    <2>1. PICK c \in Prior : c.digest = CurrentDigest
      BY <1>3 DEF Replay
    <2>2. Plays(job) /\ UNCHANGED receipts /\ Advance
      BY <1>3 DEF Replay, IsCommand, ledger
    <2>3. c \in receipts /\ IsOf(c, job.request, job.step)
      BY <2>1 DEF Prior, Found, IsOf, CurrentSlot, CurrentDigest, Current
    <2>4. Has(receipts', job.request, job.step)
      BY <2>2, <2>3 DEF Has
    <2> QED
      BY <1>2, <2>2, <2>4 DEF GoesOn, Advance
  <1>4. ASSUME Commit PROVE GoesOn
    <2>1. PICK c : IsNew(c)
      BY <1>4, CommitWrites
    <2>2. Has(receipts', job.request, job.step)
      BY <2>1 DEF IsNew, Has
    <2>3. Plays(job) /\ Advance
      BY <1>4 DEF Commit, IsCommand
    <2> QED
      BY <1>2, <2>2, <2>3 DEF GoesOn, Advance
  <1>5. ASSUME Draft \/ Finalize PROVE GoesOn
    <2>1. Plays(job) /\ StepOn /\ Current.kind \in {"draft", "finalize"}
      BY <1>5 DEF Draft, Finalize
    <2> QED
      BY <1>2, <2>1 DEF GoesOn, StepOn
  <1>6. ASSUME Refuse \/ SaveFails \/ Respond \/ Crash PROVE job' = Idle
    BY <1>6 DEF Refuse, Fail, SaveFails, Respond, Crash
  <1>7. ASSUME ReviseShot \/ UNCHANGED vars PROVE UNCHANGED job
    BY <1>7 DEF ReviseShot, vars
  <1> QED
    BY <1>1, <1>3, <1>4, <1>5, <1>6, <1>7 DEF Next
-----------------------------------------------------------------------------
(* The receipts.                                                           *)

LEMMA KeepsPlayed ==
  ASSUME Inv, [Next]_vars
  PROVE  Played'
  <1>1. CASE UNCHANGED job
    BY <1>1, ReceiptsGrow DEF Inv, Played
  <1>2. CASE job' = Idle
    BY <1>2 DEF Played, Idle
  <1>3. CASE GoesOn
    <2>1. PICK q \in Requests, s \in Nat : q = job.request /\ s = job.step
      BY <1>3, JobKnown DEF GoesOn, Plays, JobType
    <2>2. job # Idle /\ job' \in JobType /\ job'.request = q /\ job'.step = s + 1
      BY <1>3, <2>1 DEF GoesOn, Plays
    <2>3. ASSUME NEW i \in CommandSteps(q.action), i < s + 1 PROVE Has(receipts', q, i)
      <3>1. q.action \in Actions
        BY RequestsKnown
      <3>2. i \in Nat /\ Steps(q.action)[i].kind \notin {"draft", "finalize"}
        BY <2>3, <3>1, CommandKnown, StepsKnown
      <3>3. CASE i < s
        <4>1. Has(receipts, q, i)
          BY <2>1, <2>2, <3>3 DEF Inv, Played
        <4> QED
          BY <4>1, ReceiptsGrow
      <3>4. CASE i = s
        BY <1>3, <2>1, <3>2, <3>4 DEF GoesOn, Current
      <3> QED
        BY <2>3, <3>2, <3>3, <3>4
    <2> QED
      BY <2>2, <2>3 DEF Played
  <1>4. CASE Begins
    <2>1. PICK q \in Requests : q = job'.request
      BY <1>4 DEF Begins, JobType
    <2>2. \A i \in CommandSteps(q.action) : ~(i < 1)
      BY RequestsKnown, CommandKnown, StepsKnown
    <2> QED
      BY <1>4, <2>1, <2>2 DEF Begins, Played
  <1> QED
    BY <1>1, <1>2, <1>3, <1>4, JobMoves

LEMMA KeepsAnswered ==
  ASSUME Inv, [Next]_vars
  PROVE  Answered'
  <1>1. SUFFICES ASSUME NEW q \in done', NEW i \in CommandSteps(q.action) PROVE Has(receipts', q, i)
    BY DEF Answered
  <1>2. CASE q \in done
    BY <1>1, <1>2, ReceiptsGrow DEF Inv, Answered
  <1>3. CASE q \notin done
    <2>1. Respond /\ q = job.request
      BY <1>1, <1>3 DEF Next, vars, Begin, Replay, Commit, Refuse, Fail, Draft, Finalize, SaveFails,
                        ReviseShot, Respond, Crash
    <2>2. job # Idle /\ ~Plays(job) /\ q.action \in Actions /\ job.step \in 1 .. Len(Steps(q.action)) + 1
      BY <2>1, JobKnown DEF Respond
    <2>3. Len(Steps(q.action)) \in Nat /\ i \in 1 .. Len(Steps(q.action))
      BY <1>1, <2>2, StepsKnown, CommandKnown
    <2>4. i < job.step
      BY <2>1, <2>2, <2>3 DEF Plays
    <2>5. Has(receipts, q, i)
      BY <1>1, <2>1, <2>2, <2>4 DEF Inv, Played
    <2> QED
      BY <2>5, ReceiptsGrow
  <1> QED
    BY <1>2, <1>3

LEMMA KeepsCommandsOnce ==
  ASSUME Inv, [Next]_vars
  PROVE  CommandsCommitOnce'
  <1>0. CommandsCommitOnce /\ version \in Nat /\ \A c \in receipts : c.version \in 1 .. version
    BY DEF Inv, TypeOK
  <1>1. CASE UNCHANGED ledger
    BY <1>0, <1>1 DEF CommandsCommitOnce, ledger
  <1>2. CASE Commit
    <2>1. PICK c : IsNew(c)
      BY <1>2, CommitWrites
    <2>2. receipts' = receipts \cup {c} /\ version' = version + 1 /\ c.version = version + 1
          /\ \A d \in receipts : d.key = c.key => d.slot # c.slot
      BY <2>1 DEF IsNew
    <2>3. {d.version : d \in receipts'} = 1 .. version'
      <3>1. {d.version : d \in receipts'} = {d.version : d \in receipts} \cup {version + 1}
        BY <2>2
      <3> QED
        BY <1>0, <2>2, <3>1 DEF CommandsCommitOnce
    <2>4. \A d \in receipts : d.version # c.version
      BY <1>0, <2>2
    <2> QED
      BY <1>0, <2>2, <2>3, <2>4 DEF CommandsCommitOnce
  <1> QED
    BY <1>1, <1>2, LedgerMoves

LEMMA KeepsInSequence ==
  ASSUME Inv, [Next]_vars
  PROVE  InSequence'
  <1>0. InSequence /\ version \in Nat /\ \A c \in receipts : c.version \in 1 .. version
    BY DEF Inv, TypeOK
  <1>1. CASE UNCHANGED ledger
    BY <1>0, <1>1 DEF InSequence, ledger
  <1>2. CASE Commit
    <2>1. PICK n : IsNew(n)
      BY <1>2, CommitWrites
    <2>2. receipts' = receipts \cup {n} /\ n.version = version + 1
      BY <2>1 DEF IsNew
    <2>3. SUFFICES ASSUME NEW d \in receipts', NEW a \in RunActions, NEW j \in CommandSteps(a),
                          d.slot = <<a, j>>, NEW i \in CommandSteps(a), i < j
          PROVE \E c \in receipts' : c.key = d.key /\ c.slot = <<a, i>> /\ c.version < d.version
      BY DEF InSequence
    <2>4. CASE d \in receipts
      BY <1>0, <2>2, <2>3, <2>4 DEF InSequence
    <2>5. CASE d = n
      <3>1. PICK q \in Requests, s \in 1 .. 6 : q = job.request /\ s = job.step /\ job # Idle
        BY <1>2, JobKnown, PlayKnown DEF Commit, IsCommand, Plays, JobType
      <3>2. n.key = q.key /\ n.slot = Slot(q.action, s)
        BY <2>1, <3>1 DEF IsNew, IsOf
      <3>3. q.action = a /\ s = j
        BY <2>3, <2>5, <3>2, RequestsKnown, SlotKnown DEF Actions
      <3>4. Has(receipts, q, i)
        BY <2>3, <3>1, <3>3 DEF Inv, Played
      <3>5. PICK c \in receipts : c.key = q.key /\ c.slot = Slot(q.action, i)
        BY <3>4 DEF Has, IsOf
      <3>6. i \in 1 .. 6
        BY <2>3, <3>3, RequestsKnown, CommandKnown, StepsKnown
      <3>7. c.slot = <<a, i>>
        BY <3>3, <3>5, <3>6, RequestsKnown, SlotKnown
      <3> QED
        BY <1>0, <2>2, <2>5, <3>2, <3>5, <3>7
    <2> QED
      BY <2>2, <2>4, <2>5
  <1> QED
    BY <1>1, <1>2, LedgerMoves
-----------------------------------------------------------------------------
(* The runs.                                                               *)

RunType == [execution : ExecutionStates \cup {"none"}, control : ControlStates,
            attempts : Nat, open : Keys \cup {NoKey}, blocked : BOOLEAN]

(* What a commit may make of a run.                                         *)
RunMoves(r, next) ==
  \/ next = r
  \/ Current.kind = "approve" /\ next = Started
  \/ /\ Current.kind \in {"transition", "control"} /\ Current.target # "waiting-human"
     /\ next \in RunType /\ next.open = r.open
  \/ /\ Current.kind = "transition" /\ Current.target = "waiting-human"
     /\ next \in RunType /\ next.open = job.request.key
  \/ /\ Current.kind = "decision" /\ next \in RunType /\ next.open = NoKey
     /\ next.execution = r.execution /\ next.control = r.control

RunsMove ==
  /\ Current.kind = "approve" => \A r \in Runs : runs'[r] = Started
  /\ Current.kind \notin {"approve", "transition", "control", "decision"} => runs' = runs
  /\ runs' \in [Runs -> RunType]
  /\ \A r \in Runs \ {job.request.run} : runs'[r] = runs[r] \/ Current.kind = "approve"
  /\ RunMoves(runs[job.request.run], runs'[job.request.run])
  /\ Current.kind = "decision" => runs'[job.request.run].open = NoKey
  /\ Current.kind = "transition" /\ Current.target = "waiting-human" =>
       runs'[job.request.run].open = job.request.key

LEMMA StartedType ==
  Started \in RunType /\ NotStarted \in RunType /\ Started.open = NoKey
  BY DEF Started, NotStarted, RunType, ExecutionStates, ControlStates

LEMMA MovedType ==
  ASSUME NEW r \in RunType, NEW target \in ExecutionStates, NEW key \in Keys
  PROVE  /\ Moved(r, target, key) \in RunType
         /\ Moved(r, target, key).open = IF target = "waiting-human" THEN key ELSE r.open
  <1>1. PICK attempts \in Nat : attempts = IF target = "retrying" THEN r.attempts + 1 ELSE r.attempts
    BY DEF RunType
  <1>2. PICK open \in Keys \cup {NoKey} : open = IF target = "waiting-human" THEN key ELSE r.open
    BY DEF RunType
  <1>3. PICK blocked \in BOOLEAN : blocked = (IF target = "blocked" THEN TRUE
                        ELSE IF r.execution = "blocked" /\ target \in {"queued", "running"}
                             THEN FALSE ELSE r.blocked)
    BY DEF RunType
  <1>4. Moved(r, target, key) =
          [r EXCEPT !.execution = target, !.attempts = attempts, !.open = open, !.blocked = blocked]
    BY <1>1, <1>2, <1>3 DEF Moved, RunType
  <1>5. Moved(r, target, key) \in RunType
    BY <1>4 DEF RunType
  <1>6. Moved(r, target, key).open = open
    BY <1>4 DEF RunType
  <1> QED
    BY <1>2, <1>5, <1>6

LEMMA CommitMovesRuns ==
  ASSUME Inv, Commit
  PROVE  RunsMove
  <1>0. Plays(job) /\ Legal /\ runs' = RunsAfter /\ runs \in [Runs -> RunType] /\ job # Idle
    BY DEF Commit, IsCommand, Inv, TypeOK, RunType, Plays
  <1>1. PICK r \in Runs, key \in Keys : r = job.request.run /\ key = job.request.key
    BY <1>0, JobKnown
  <1>2. PICK kind, target : kind = Current.kind /\ target = Current.target
    OBVIOUS
  <1>3. /\ kind = "transition" => target \in ExecutionStates
        /\ kind = "control" => target \in ControlStates /\ target # "waiting-human"
    BY <1>0, <1>2, PlayKnown DEF KnownStep, ControlStates
  <1>4. CASE kind = "approve"
    <2>1. runs' = [x \in Runs |-> Started]
      BY <1>0, <1>2, <1>4 DEF RunsAfter
    <2> HIDE DEF RunType
    <2>2. runs' \in [Runs -> RunType] /\ \A x \in Runs : runs'[x] = Started
      BY <2>1, StartedType
    <2> QED
      BY <1>1, <1>2, <1>4, <2>2 DEF RunsMove, RunMoves
  <1>5. CASE kind = "transition"
    <2>1. PICK m : m = Moved(runs[r], target, key)
      OBVIOUS
    <2>2. runs' = [runs EXCEPT ![r] = m]
      BY <1>0, <1>1, <1>2, <1>5, <2>1 DEF RunsAfter
    <2>4. runs[r] \in RunType
      BY <1>0
    <2>5. m \in RunType /\ m.open = IF target = "waiting-human" THEN key ELSE runs[r].open
      BY <1>3, <1>5, <2>1, <2>4, MovedType
    <2> HIDE DEF RunType
    <2>6. runs' \in [Runs -> RunType] /\ runs'[r] = m /\ \A x \in Runs \ {r} : runs'[x] = runs[x]
      BY <1>0, <2>2, <2>5
    <2> QED
      BY <1>1, <1>2, <1>5, <2>5, <2>6 DEF RunsMove, RunMoves
  <1>6. CASE kind = "control"
    <2>0. runs[r] \in RunType
      BY <1>0
    <2>1. PICK m : m = [runs[r] EXCEPT !.control = target]
      OBVIOUS
    <2>2. runs' = [runs EXCEPT ![r] = m]
      BY <1>0, <1>1, <1>2, <1>6, <2>1 DEF RunsAfter
    <2>4. m \in RunType /\ m.open = runs[r].open
      BY <1>3, <1>6, <2>0, <2>1 DEF RunType
    <2> HIDE DEF RunType
    <2>6. runs' \in [Runs -> RunType] /\ runs'[r] = m /\ \A x \in Runs \ {r} : runs'[x] = runs[x]
      BY <1>0, <2>2, <2>4
    <2> QED
      BY <1>1, <1>2, <1>3, <1>6, <2>4, <2>6 DEF RunsMove, RunMoves
  <1>7. CASE kind = "decision"
    <2>0. runs[r] \in RunType
      BY <1>0
    <2>1. PICK m : m = [runs[r] EXCEPT !.open = NoKey]
      OBVIOUS
    <2>2. runs' = [runs EXCEPT ![r] = m]
      BY <1>0, <1>1, <1>2, <1>7, <2>1 DEF RunsAfter
    <2>4. m \in RunType /\ m.open = NoKey /\ m.execution = runs[r].execution /\ m.control = runs[r].control
      BY <2>0, <2>1 DEF RunType
    <2> HIDE DEF RunType
    <2>6. runs' \in [Runs -> RunType] /\ runs'[r] = m /\ \A x \in Runs \ {r} : runs'[x] = runs[x]
      BY <1>0, <2>2, <2>4
    <2> QED
      BY <1>1, <1>2, <1>7, <2>4, <2>6 DEF RunsMove, RunMoves
  <1>8. CASE kind \notin {"approve", "transition", "control", "decision"}
    <2>1. runs' = runs
      BY <1>0, <1>2, <1>8 DEF RunsAfter
    <2> QED
      BY <1>0, <1>1, <1>2, <1>8, <2>1 DEF RunsMove, RunMoves
  <1> QED
    BY <1>4, <1>5, <1>6, <1>7, <1>8

LEMMA CommitPlans ==
  ASSUME Inv, Commit
  PROVE  /\ plan' \in [mission : BOOLEAN, status : {"none", "proposed", "approved"}, revision : Nat]
         /\ plan.status = "approved" => plan'.status = "approved" /\ Current.kind # "approve"
         /\ plan'.status # "approved" => Current.kind # "approve"
  <1>0. /\ plan \in [mission : BOOLEAN, status : {"none", "proposed", "approved"}, revision : Nat]
        /\ plan' = PlanAfter /\ Legal /\ job.datum \in Nat
    BY JobKnown DEF Inv, TypeOK, Commit, IsCommand, Plays, JobType
  <1>1. CASE Current.kind = "mission"
    BY <1>0, <1>1 DEF PlanAfter
  <1>2. CASE Current.kind = "plan"
    BY <1>0, <1>2 DEF PlanAfter, Legal
  <1>3. CASE Current.kind = "approve"
    BY <1>0, <1>3 DEF PlanAfter, Legal
  <1>4. CASE Current.kind \notin {"mission", "plan", "approve"}
    BY <1>0, <1>4 DEF PlanAfter
  <1> QED
    BY <1>1, <1>2, <1>3, <1>4

LEMMA KeepsPlanned ==
  ASSUME Inv, [Next]_vars
  PROVE  Planned'
  <1>0. Planned /\ TypeOK
    BY DEF Inv
  <1>1. CASE UNCHANGED ledger
    <2>1. SUFFICES ASSUME plan.status # "approved", job' # Idle PROVE job'.request.action \in PlanActions
      BY <1>0, <1>1 DEF Planned, ledger, Idle
    <2>2. \A r \in Runs : runs[r] = NotStarted
      BY <1>0, <2>1 DEF Planned
    <2>3. CASE UNCHANGED job \/ GoesOn
      BY <1>0, <2>1, <2>3 DEF Planned, GoesOn, Plays
    <2>4. CASE Begins
      <3>1. PICK q \in Requests : q = job'.request
        BY <2>4 DEF Begins, JobType
      <3>2. runs[q.run].execution = "none"
        BY <2>2, RequestsKnown DEF NotStarted
      <3> QED
        BY <2>4, <3>1, <3>2 DEF Begins
    <2> QED
      BY <2>1, <2>3, <2>4, JobMoves
  <1>2. CASE Commit
    <2>1. SUFFICES ASSUME plan'.status # "approved" PROVE Planned'
      BY DEF Planned
    <2>2. plan.status # "approved" /\ Plays(job) /\ job # Idle /\ Current.kind # "approve"
      BY <1>2, <2>1, CommitPlans DEF Commit, IsCommand, Plays
    <2>3. job.request.action \in {"mission", "plan"} /\ Current = Record(job.request.action)
      BY <1>0, <2>2, PlayKnown DEF Planned, PlanActions, Record
    <2>4. Current.kind \in {"mission", "plan"} /\ Current.target = "none"
      BY <2>3 DEF Record
    <2>5. runs' = runs
      BY <1>2, <2>4, CommitMovesRuns DEF RunsMove
    <2>6. PICK c : IsNew(c)
      BY <1>2, CommitWrites
    <2>7. receipts' = receipts \cup {c} /\ ~Human(c.digest)
      BY <2>4, <2>6 DEF IsNew, IsOf, Human, Current
    <2>8. job' # Idle => job'.request = job.request
      BY <1>2, <2>2, JobMoves DEF GoesOn, Begins, Commit, Advance
    <2> QED
      BY <1>0, <2>2, <2>3, <2>5, <2>7, <2>8 DEF Planned, PlanActions
  <1> QED
    BY <1>1, <1>2, LedgerMoves

LEMMA KeepsMissionFirst ==
  ASSUME Inv, [Next]_vars
  PROVE  MissionFirst'
  <1>0. MissionFirst /\ plan \in [mission : BOOLEAN, status : {"none", "proposed", "approved"}, revision : Nat]
    BY DEF Inv, TypeOK
  <1>1. ASSUME plan.mission => plan'.mission, job' # Idle, job'.request.action = "plan" PROVE plan'.mission
    BY <1>0, <1>1, JobMoves DEF MissionFirst, GoesOn, Plays, Begins
  <1>2. CASE UNCHANGED ledger
    BY <1>0, <1>1, <1>2 DEF MissionFirst, ledger
  <1>3. CASE Commit
    <2>1. plan' = PlanAfter /\ Legal /\ Plays(job) /\ job # Idle
      BY <1>3 DEF Commit, IsCommand, Plays
    <2>2. CASE Current.kind = "mission"
      BY <1>0, <1>1, <2>1, <2>2 DEF PlanAfter, MissionFirst
    <2>3. CASE Current.kind = "plan"
      <3>1. job.request.action = "plan"
        BY <2>1, <2>3, PlayKnown, JobKnown DEF KnownStep, Record, PlanActions, Actions
      <3> QED
        BY <1>0, <1>1, <2>1, <2>3, <3>1 DEF PlanAfter, MissionFirst
    <2>4. CASE Current.kind = "approve"
      BY <1>0, <1>1, <2>1, <2>4 DEF PlanAfter, Legal, MissionFirst
    <2>5. CASE Current.kind \notin {"mission", "plan", "approve"}
      BY <1>0, <1>1, <2>1, <2>5 DEF PlanAfter, MissionFirst
    <2> QED
      BY <2>2, <2>3, <2>4, <2>5
  <1> QED
    BY <1>2, <1>3, LedgerMoves

(* The step a job has come to, past its first one.                          *)
LEMMA LaterSteps ==
  ASSUME Inv, [Next]_vars, GoesOn, Plays(job')
  PROVE  Current'.kind \notin {"decision", "gate"}
  <1>0. PICK a \in Actions : a = job.request.action /\ job.step \in 1 .. Len(Steps(a))
    BY PlayKnown, JobKnown DEF GoesOn
  <1>1. PICK s \in 1 .. Len(Steps(a)) : s = job.step
    BY <1>0
  <1>2. job'.request.action = a /\ job'.step = s + 1 /\ s + 1 <= Len(Steps(a)) /\ Len(Steps(a)) \in 1 .. 6
    BY <1>0, <1>1, StepsKnown DEF GoesOn, Plays
  <1>3. PICK i \in 1 .. Len(Steps(a)) : i = s + 1 /\ i # 1
    BY <1>2
  <1>4. Current' = Steps(a)[i]
    BY <1>2, <1>3 DEF Current
  <1>5. CASE i \in 1 .. 6 /\ Steps(a)[i] = WritebackSteps[i]
    BY <1>4, <1>5 DEF WritebackSteps, Record
  <1>6. CASE Steps(a)[i].kind \in PlanActions \cup {"transition", "control"}
    BY <1>4, <1>6 DEF PlanActions
  <1> QED
    BY <1>3, <1>5, <1>6, StepKinds

LEMMA KeepsRests ==
  ASSUME Inv, [Next]_vars
  PROVE  Rests'
  <1>1. SUFFICES ASSUME Plays(job'), runs'[job'.request.run].execution \in Terminal
        PROVE /\ Current'.kind \notin {"decision", "gate"}
              /\ job'.request.action = "writeback" =>
                   \E c \in receipts' : c.key = job'.request.key /\ c.slot = Slot("writeback", 3)
    BY DEF Rests, Found
  <1>2. receipts \subseteq receipts'
    BY LedgerMoves DEF Commit, ledger
  <1>3. job' # Idle
    BY <1>1 DEF Plays
  <1>4. CASE GoesOn
    <2>1. job'.request = job.request /\ Plays(job)
      BY <1>4 DEF GoesOn
    <2>2. ASSUME job.request.action = "writeback"
          PROVE  \E c \in receipts' : c.key = job.request.key /\ c.slot = Slot("writeback", 3)
      <3>1. Current = WritebackSteps[job.step] /\ job.step \in 1 .. 6
        BY <2>1, <2>2, PlayKnown, StepsKnown DEF Current, Actions, RunActions
      <3>2. Current.kind \notin {"approve", "transition", "control", "decision"}
        BY <3>1 DEF WritebackSteps, Record
      <3>3. runs' = runs
        BY <3>2, LedgerMoves, CommitMovesRuns DEF RunsMove, ledger
      <3> QED
        BY <1>1, <1>2, <2>1, <2>2, <3>3 DEF Inv, Rests, Found
    <2> QED
      BY <1>1, <1>4, <2>1, <2>2, LaterSteps
  <1>5. CASE UNCHANGED job
    <2>1. UNCHANGED ledger
      <3>1. ASSUME Commit PROVE FALSE
        <4>1. job \in JobType /\ job' = [job EXCEPT !.step = @ + 1, !.expected = @ + 1]
          BY <3>1, JobKnown DEF Commit, IsCommand, Plays, Advance
        <4>2. job.step \in Nat /\ job'.step = job.step + 1
          BY <4>1 DEF JobType
        <4> QED
          BY <1>5, <4>2
      <3> QED
        BY <3>1, LedgerMoves
    <2>2. Current' = Current
      BY <1>5 DEF Current
    <2> QED
      BY <1>1, <1>5, <2>1, <2>2 DEF Inv, Rests, Found, ledger
  <1>6. CASE Begins
    <2>1. PICK q \in Requests : q = job'.request /\ q.action \in Actions /\ job'.step = 1
      BY <1>6, RequestsKnown DEF Begins, JobType
    <2>2. runs[q.run].execution \in Terminal /\ receipts' = receipts
      BY <1>1, <1>6, <2>1 DEF Begins, ledger
    <2>3. q.action \in PlanActions \/ Allowed(q.run, q.action) \/ WritebackReplay(q)
      BY <1>6, <2>1 DEF Begins
    <2>4. q.action \notin {"decide_human", "provider_gate"} /\ (q.action = "writeback" => WritebackReplay(q))
      BY <2>2, <2>3 DEF Allowed, WritebackReplay, PlanActions, Terminal
    <2>5. Current' = Steps(q.action)[1] /\ 1 \in 1 .. Len(Steps(q.action))
      BY <2>1, StepsKnown DEF Current
    <2>6. Current'.kind \notin {"decision", "gate"}
      BY <2>1, <2>4, <2>5, StepKinds DEF WritebackSteps, Record, PlanActions
    <2> QED
      BY <2>1, <2>2, <2>4, <2>6 DEF WritebackReplay, Found
  <1> QED
    BY <1>3, <1>4, <1>5, <1>6, JobMoves

LEMMA KeepsOpen ==
  ASSUME Inv, [Next]_vars
  PROVE  Open'
  <1>0. Open /\ Planned /\ version \in Nat /\ \A c \in receipts : c.version \in 1 .. version
    BY DEF Inv, TypeOK
  <1>1. CASE UNCHANGED ledger
    BY <1>0, <1>1 DEF Open, ledger, Opened, Latest, Human
  <1>2. CASE Commit
    <2>1. PICK n : IsNew(n)
      BY <1>2, CommitWrites
    <2>2. /\ receipts' = receipts \cup {n} /\ n.version = version + 1 /\ n.key = job.request.key
          /\ n.digest.run = job.request.run
          /\ n.digest.kind = Current.kind /\ n.digest.target = Current.target
      BY <2>1 DEF IsNew, IsOf, Current
    <2>3. Plays(job) /\ RunsMove
      BY <1>2, CommitMovesRuns DEF Commit, IsCommand
    <2>4. n.digest.target = "waiting-human" => n.digest.kind = "transition"
      BY <2>2, <2>3, PlayKnown DEF KnownStep
    <2>5. \A c \in receipts' : c.digest.kind = "decision" => c.digest.target # "waiting-human"
      BY <1>0, <2>2, <2>4 DEF Open
    <2>6. ASSUME NEW r \in Runs PROVE Opened(receipts', r, runs'[r])
      <3>1. CASE Human(n.digest) /\ n.digest.run = r
        <4>1. Latest(receipts', r, n)
          BY <1>0, <2>2, <3>1 DEF Latest
        <4>2. \A c \in receipts' : Latest(receipts', r, c) => c = n
          BY <1>0, <2>2, <3>1 DEF Latest
        <4>3. runs'[r].open = IF n.digest.kind = "decision" THEN NoKey ELSE n.key
          BY <2>2, <2>3, <2>4, <3>1 DEF RunsMove, Human
        <4> QED
          BY <2>2, <4>1, <4>2, <4>3 DEF Opened
      <3>2. CASE ~(Human(n.digest) /\ n.digest.run = r)
        <4>1. \A c \in receipts' : Latest(receipts', r, c) <=> c \in receipts /\ Latest(receipts, r, c)
          BY <2>2, <3>2 DEF Latest
        <4>2. Opened(receipts, r, runs[r])
          BY <1>0 DEF Open
        <4>3. CASE Current.kind # "approve"
          <5>1. runs'[r].open = runs[r].open
            BY <2>2, <2>3, <3>2, <4>3 DEF RunsMove, RunMoves, Human
          <5> QED
            BY <2>2, <4>1, <4>2, <5>1 DEF Opened
        <4>4. CASE Current.kind = "approve"
          <5>1. runs'[r].open = NoKey
            BY <2>3, <4>4, StartedType DEF RunsMove
          <5>2. plan.status # "approved"
            BY <1>2, <4>4, CommitPlans
          <5>3. \A c \in receipts : ~Human(c.digest)
            BY <1>0, <5>2 DEF Planned
          <5>4. \A c \in receipts' : ~Latest(receipts', r, c)
            BY <4>1, <5>3 DEF Latest
          <5> QED
            BY <5>1, <5>4 DEF Opened
        <4> QED
          BY <4>3, <4>4
      <3> QED
        BY <3>1, <3>2
    <2> QED
      BY <2>5, <2>6 DEF Open
  <1> QED
    BY <1>1, <1>2, LedgerMoves
-----------------------------------------------------------------------------
(* The candidates of the episode.                                          *)

LEMMA KeepsFinal ==
  ASSUME Inv, [Next]_vars
  PROVE  FinalHasProvenance' /\ candidates' \in [Runs \X Keys -> {"none", "draft", "final"}]
  <1> DEFINE Proven(rs, r, k) == \A i \in 2 .. 5 : \E c \in rs : /\ c.key = k /\ c.slot = Slot("writeback", i)
                                                               /\ c.digest.run = r
  <1>0. /\ candidates \in [Runs \X Keys -> {"none", "draft", "final"}]
        /\ \A r \in Runs, k \in Keys : candidates[<<r, k>>] = "final" => Proven(receipts, r, k)
    BY DEF Inv, TypeOK, FinalHasProvenance, Found
  <1>1. receipts \subseteq receipts'
    BY LedgerMoves DEF Commit, ledger
  <1>2. CASE UNCHANGED candidates
    BY <1>0, <1>1, <1>2 DEF FinalHasProvenance, Found
  <1>3. CASE Draft \/ Finalize
    <2>0. Plays(job) /\ job # Idle
      BY <1>3 DEF Draft, Finalize, Plays
    <2>1. PICK q \in Requests : q = job.request /\ q.run \in Runs /\ q.key \in Keys
      BY <2>0, JobKnown, RequestsKnown DEF JobType
    <2>2. PICK state \in {"draft", "final"} :
            /\ candidates' = [candidates EXCEPT ![<<q.run, q.key>>] = state] \/ UNCHANGED candidates
            /\ state = "final" => Current.kind = "finalize"
      BY <1>3, <2>1 DEF Draft, Finalize, Candidate
    <2>3. CASE candidates' = [candidates EXCEPT ![<<q.run, q.key>>] = state]
      <3>1. /\ candidates' \in [Runs \X Keys -> {"none", "draft", "final"}]
            /\ \A r \in Runs, k \in Keys : candidates'[<<r, k>>] = "final" =>
                 candidates[<<r, k>>] = "final" \/ (r = q.run /\ k = q.key /\ state = "final")
        BY <1>0, <2>1, <2>3
      <3>2. ASSUME state = "final" PROVE Proven(receipts, q.run, q.key)
        <4>1. q.action = "writeback" /\ job.step = 6
          BY <2>0, <2>1, <2>2, <3>2, PlayKnown DEF KnownStep
        <4>2. ASSUME NEW i \in 2 .. 5 PROVE Has(receipts, q, i)
          <5>1. Steps("writeback") = WritebackSteps /\ Len(Steps("writeback")) = 6 /\ "writeback" \in Actions
            BY StepsKnown DEF Actions, RunActions
          <5>2. WritebackSteps[i].kind \notin {"draft", "finalize"}
            BY DEF WritebackSteps, Record
          <5>3. i \in CommandSteps("writeback")
            BY <5>1, <5>2, CommandKnown
          <5> QED
            BY <2>0, <2>1, <4>1, <5>3 DEF Inv, Played
        <4> QED
          BY <4>1, <4>2 DEF Has, IsOf
      <3>3. \A r \in Runs, k \in Keys : candidates'[<<r, k>>] = "final" => Proven(receipts, r, k)
        BY <1>0, <3>1, <3>2
      <3>4. \A r \in Runs, k \in Keys : candidates'[<<r, k>>] = "final" => Proven(receipts', r, k)
        BY <1>1, <3>3
      <3> QED
        BY <3>1, <3>4 DEF FinalHasProvenance, Found
    <2> QED
      BY <1>2, <2>2, <2>3
  <1>4. ASSUME ~Draft, ~Finalize PROVE UNCHANGED candidates
    BY <1>4 DEF Next, vars, Begin, Replay, Commit, Refuse, Fail, SaveFails, ReviseShot, Respond, Crash
  <1> QED
    BY <1>2, <1>3, <1>4
-----------------------------------------------------------------------------
(* Types.                                                                  *)

LEMMA LedgerKeepsType ==
  ASSUME Inv, [Next]_vars
  PROVE  /\ version' \in Nat
         /\ \A c \in receipts' : /\ c.key \in Keys /\ c.slot \in Slots /\ c.digest.run \in Runs
                                 /\ c.digest.datum \in Nat /\ c.version \in 1 .. version'
         /\ plan' \in [mission : BOOLEAN, status : {"none", "proposed", "approved"}, revision : Nat]
         /\ runs' \in [Runs -> RunType]
  <1>0. /\ version \in Nat
        /\ \A c \in receipts : /\ c.key \in Keys /\ c.slot \in Slots /\ c.digest.run \in Runs
                               /\ c.digest.datum \in Nat /\ c.version \in 1 .. version
        /\ plan \in [mission : BOOLEAN, status : {"none", "proposed", "approved"}, revision : Nat]
        /\ runs \in [Runs -> RunType]
    BY DEF Inv, TypeOK, RunType
  <1>1. CASE UNCHANGED ledger
    BY <1>0, <1>1 DEF ledger
  <1>2. CASE Commit
    <2>1. PICK n : IsNew(n)
      BY <1>2, CommitWrites
    <2>2. /\ receipts' = receipts \cup {n} /\ version' = version + 1 /\ n.version = version + 1
          /\ n.key = job.request.key /\ n.digest.run = job.request.run /\ n.digest.datum = job.datum
          /\ n.slot = Slot(job.request.action, job.step) /\ job # Idle
      BY <2>1 DEF IsNew, IsOf
    <2>3. n.key \in Keys /\ n.digest.run \in Runs /\ n.digest.datum \in Nat
      BY <2>2, JobKnown DEF JobType
    <2>4. Plays(job)
      BY <1>2 DEF Commit, IsCommand
    <2>5. n.slot \in Slots
      BY <2>2, <2>4, JobKnown, PlayKnown, SlotKnown
    <2>6. version' \in Nat /\ n.version \in 1 .. version' /\ \A c \in receipts : c.version \in 1 .. version'
      BY <1>0, <2>2
    <2>7. \A c \in receipts' : /\ c.key \in Keys /\ c.slot \in Slots /\ c.digest.run \in Runs
                               /\ c.digest.datum \in Nat /\ c.version \in 1 .. version'
      BY <1>0, <2>2, <2>3, <2>5, <2>6
    <2> QED
      BY <1>2, <2>6, <2>7, CommitPlans, CommitMovesRuns DEF RunsMove
  <1> QED
    BY <1>1, <1>2, LedgerMoves

LEMMA JobKeepsType ==
  ASSUME Inv, [Next]_vars, job' # Idle
  PROVE  /\ job'.request \in Requests /\ {job'.expected, job'.datum} \subseteq Nat
         /\ job'.step \in 1 .. Len(Steps(job'.request.action)) + 1
  <1>1. job' \in JobType
    BY KeepsPlayed DEF Played
  <1>2. PICK q \in Requests : q = job'.request /\ Len(Steps(q.action)) \in 1 .. 6
    BY <1>1, RequestsKnown, StepsKnown DEF JobType
  <1>3. CASE UNCHANGED job
    BY <1>3 DEF Inv, TypeOK
  <1>4. CASE Begins
    BY <1>1, <1>2, <1>4 DEF Begins, JobType
  <1>5. CASE GoesOn
    <2>1. job'.request = job.request /\ job'.step = job.step + 1 /\ Plays(job)
      BY <1>5 DEF GoesOn
    <2>2. PICK s \in 1 .. Len(Steps(q.action)) : s = job.step
      BY <1>2, <2>1, PlayKnown
    <2> QED
      BY <1>1, <1>2, <2>1, <2>2 DEF JobType
  <1> QED
    BY <1>3, <1>4, <1>5, JobMoves

LEMMA KeepsType ==
  ASSUME Inv, [Next]_vars
  PROVE  TypeOK'
  <1>1. shotsFresh' \in BOOLEAN
    BY DEF Inv, TypeOK, Next, vars, Begin, Replay, Commit, Refuse, Fail, Draft, Finalize, SaveFails,
           ReviseShot, Respond, Crash
  <1>2. done' \subseteq Requests
    <2>1. done' = done \/ (Respond /\ done' = done \cup {job.request})
      BY DEF Next, vars, Begin, Replay, Commit, Refuse, Fail, Draft, Finalize, SaveFails,
             ReviseShot, Respond, Crash
    <2>2. Respond => job.request \in Requests
      BY JobKnown DEF Respond, JobType
    <2> QED
      BY <2>1, <2>2 DEF Inv, TypeOK
  <1> QED
    BY <1>1, <1>2, LedgerKeepsType, JobKeepsType, KeepsFinal DEF TypeOK, RunType
-----------------------------------------------------------------------------
(* The invariant holds at first, and every step keeps it.                   *)

LEMMA InitInv ==
  ASSUME Init
  PROVE  Inv
  <1>1. TypeOK
    <2>1. runs \in [Runs -> RunType]
      BY StartedType DEF Init
    <2>2. candidates \in [Runs \X Keys -> {"none", "draft", "final"}]
      BY DEF Init
    <2> QED
      BY <2>1, <2>2 DEF Init, TypeOK, RunType
  <1>2. Played /\ Answered /\ InSequence /\ Planned
    BY DEF Init, Played, Answered, InSequence, Planned
  <1>3. CommandsCommitOnce
    BY DEF Init, CommandsCommitOnce
  <1>4. Open
    BY DEF Init, Open, Opened, NotStarted
  <1>5. MissionFirst /\ Rests
    BY DEF Init, MissionFirst, Rests, Plays
  <1>6. FinalHasProvenance
    BY DEF Init, FinalHasProvenance
  <1> QED
    BY <1>1, <1>2, <1>3, <1>4, <1>5, <1>6 DEF Inv

LEMMA StepInv ==
  ASSUME Inv, [Next]_vars
  PROVE  Inv'
  BY KeepsType, KeepsPlayed, KeepsAnswered, KeepsCommandsOnce, KeepsInSequence, KeepsPlanned, KeepsOpen,
     KeepsMissionFirst, KeepsRests, KeepsFinal
     DEF Inv

(* The ledger, the runs and the job stand as described above, wherever jobs *)
(* stop and however often a request is sent again.                          *)
THEOREM SpecInv == Spec => []Inv
  <1>1. Inv /\ [Next]_vars => Inv'
    BY StepInv
  <1> QED
    BY <1>1, InitInv, PTL DEF Spec

(* The ledger, the candidates and the job have their types.                 *)
THEOREM SpecTypeOK == Spec => []TypeOK
  BY SpecInv, PTL DEF Inv

(* A command is committed once, and every version of the ledger is one      *)
(* command.                                                                 *)
THEOREM SpecCommandsCommitOnce == Spec => []CommandsCommitOnce
  BY SpecInv, PTL DEF Inv

(* A candidate that is up for review has its whole provenance in the        *)
(* ledger, for its own run.                                                 *)
THEOREM SpecFinalHasProvenance == Spec => []FinalHasProvenance
  BY SpecInv, PTL DEF Inv

LEMMA InvAnsweredInFull ==
  ASSUME Inv
  PROVE  AnsweredInFull
  <1>1. SUFFICES ASSUME NEW q \in done
        PROVE /\ \A i \in CommandSteps(q.action) : CommandIn(q, i) # {}
              /\ \A i, j \in CommandSteps(q.action) :
                   i < j => \A c \in CommandIn(q, i), d \in CommandIn(q, j) : c.version < d.version
    BY DEF AnsweredInFull
  <1>2. q \in Requests /\ q.action \in Actions
    BY RequestsKnown DEF Inv, TypeOK
  <1>3. ASSUME NEW i \in CommandSteps(q.action) PROVE CommandIn(q, i) # {}
    BY DEF Inv, Answered, Has, IsOf, CommandIn, Found
  <1>4. ASSUME NEW i \in CommandSteps(q.action), NEW j \in CommandSteps(q.action), i < j,
               NEW c \in CommandIn(q, i), NEW d \in CommandIn(q, j)
        PROVE  c.version < d.version
    <2>1. /\ c \in receipts /\ c.key = q.key /\ c.slot = Slot(q.action, i)
          /\ d \in receipts /\ d.key = q.key /\ d.slot = Slot(q.action, j)
      BY <1>4 DEF CommandIn, Found
    <2>2. i \in 1 .. Len(Steps(q.action)) /\ j \in 1 .. Len(Steps(q.action)) /\ i \in 1 .. 6 /\ j \in 1 .. 6
      BY <1>2, <1>4, CommandKnown, StepsKnown
    <2>3. q.action \in RunActions
      <3>1. q.action \in PlanActions => Len(Steps(q.action)) = 1
        BY <1>2, StepsKnown
      <3>2. \A n : n = 1 => ~(i \in 1 .. n /\ j \in 1 .. n)
        BY <1>4
      <3>3. q.action \notin PlanActions
        BY <2>2, <3>1, <3>2
      <3> QED
        BY <1>2, <3>3 DEF Actions
    <2>4. c.slot = <<q.action, i>> /\ d.slot = <<q.action, j>>
      BY <1>2, <2>1, <2>2, <2>3, SlotKnown
    <2>5. PICK e \in receipts : e.key = q.key /\ e.slot = c.slot /\ e.version < d.version
      BY <1>4, <2>1, <2>3, <2>4 DEF Inv, InSequence
    <2>6. e = c
      BY <2>1, <2>5 DEF Inv, CommandsCommitOnce
    <2> QED
      BY <2>5, <2>6
  <1> QED
    BY <1>3, <1>4

(* An answered request has every one of its commands in the ledger, for its *)
(* own run and in their order.                                              *)
THEOREM SpecAnsweredInFull == Spec => []AnsweredInFull
  BY SpecInv, InvAnsweredInFull, PTL

LEMMA InvOpenUntilDecided ==
  ASSUME Inv
  PROVE  OpenUntilDecided
  <1> DEFINE asked(r) == {c \in receipts : c.digest.run = r /\ c.digest.target = "waiting-human"}
  <1> DEFINE decided(r) == {c \in receipts : c.digest.run = r /\ c.digest.kind = "decision"}
  <1> DEFINE Last(r, c) == \A d \in asked(r) \cup decided(r) : d.version <= c.version
  <1>1. ASSUME NEW r \in Runs, NEW c \in asked(r) \cup decided(r) PROVE Last(r, c) <=> Latest(receipts, r, c)
    BY DEF Latest, Human
  <1>2. ASSUME NEW r \in Runs
        PROVE  runs[r].open = (IF \E c \in asked(r) : Last(r, c)
                               THEN (CHOOSE c \in asked(r) : Last(r, c)).key ELSE NoKey)
    <2>0. Opened(receipts, r, runs[r]) /\ \A c \in receipts : c.digest.kind = "decision" => c.digest.target # "waiting-human"
      BY DEF Inv, Open
    <2>1. CASE \E c \in asked(r) : Last(r, c)
      <3>1. PICK c : c \in asked(r) /\ Last(r, c) /\ c = (CHOOSE x \in asked(r) : Last(r, x))
        BY <2>1
      <3>2. Latest(receipts, r, c)
        BY <1>1, <3>1
      <3>3. runs[r].open = c.key
        BY <2>0, <3>1, <3>2 DEF Opened
      <3> QED
        BY <2>1, <3>1, <3>3
    <2>2. CASE ~\E c \in asked(r) : Last(r, c)
      <3>1. runs[r].open = NoKey
        <4>1. CASE \A c \in receipts : ~Latest(receipts, r, c)
          BY <2>0, <4>1 DEF Opened
        <4>2. ASSUME NEW c \in receipts, Latest(receipts, r, c) PROVE runs[r].open = NoKey
          <5>1. c \in asked(r) \cup decided(r)
            BY <4>2 DEF Latest, Human
          <5>2. c \in decided(r)
            BY <1>1, <2>2, <4>2, <5>1
          <5> QED
            BY <2>0, <4>2, <5>2 DEF Opened
        <4> QED
          BY <4>1, <4>2
      <3> QED
        BY <2>2, <3>1
    <2> QED
      BY <2>1, <2>2
  <1> QED
    BY <1>2 DEF OpenUntilDecided

(* The open human request of a run is its latest one, until a decision on   *)
(* it is in the ledger.                                                     *)
THEOREM SpecOpenUntilDecided == Spec => []OpenUntilDecided
  BY SpecInv, InvOpenUntilDecided, PTL
-----------------------------------------------------------------------------
(* Runs that have ended.                                                   *)

LEMMA EndedStep ==
  ASSUME Inv, [Next]_vars, NEW r \in Runs, runs[r].execution \in Terminal
  PROVE  /\ runs'[r] = runs[r]
         /\ \A c \in receipts' \ receipts : c.digest.run = r =>
              /\ c.digest.kind \in {"revision", "impact"}
              /\ \E d \in Found(c.key, Slot("writeback", 3)) : d.digest.run = r
  <1>1. CASE UNCHANGED ledger
    BY <1>1 DEF ledger
  <1>2. CASE Commit
    <2>1. plan.status = "approved" /\ plan.mission
      BY DEF Inv, Planned, MissionFirst, NotStarted, Terminal
    <2>2. RunsMove /\ Legal /\ Plays(job) /\ IsCommand /\ Current.kind # "approve"
      BY <1>2, <2>1, CommitMovesRuns, CommitPlans DEF Commit, IsCommand
    <2>3. CASE job.request.run # r
      <3>1. runs'[r] = runs[r]
        BY <2>2, <2>3 DEF RunsMove
      <3>2. \A c \in receipts' \ receipts : c.digest.run # r
        BY <1>2, <2>3, CommitWrites DEF IsNew, IsOf
      <3> QED
        BY <3>1, <3>2
    <2>4. CASE job.request.run = r
      <3>1. Current.kind \notin {"mission", "plan", "approve", "transition", "control", "decision", "gate"}
        BY <2>1, <2>2, <2>4 DEF Legal, CanMove, CanSteer, Inv, Rests
      <3>2. PICK q \in Requests, i \in 1 .. 6 : /\ q = job.request /\ i = job.step /\ q.action \in Actions
                                               /\ i \in 1 .. Len(Steps(q.action))
        BY <2>2, JobKnown, PlayKnown DEF JobType
      <3>3. i = 1 => q.action \notin {"decide_human", "provider_gate"}
        <4>1. CASE q.action = "decide_human"
          <5>1. Steps(q.action) = <<Record("decision"), To("running")>>
            BY <4>1, Zenon DEF Steps
          <5> QED
            BY <3>1, <3>2, <5>1 DEF Current, Record
        <4>2. CASE q.action = "provider_gate"
          <5>1. Steps(q.action) = <<Record("gate")>>
            BY <4>2, Zenon DEF Steps
          <5> QED
            BY <3>1, <3>2, <5>1 DEF Current, Record
        <4> QED
          BY <4>1, <4>2
      <3>4. q.action = "writeback" /\ Current = WritebackSteps[i]
        BY <3>1, <3>2, <3>3, StepKinds DEF Current, PlanActions
      <3>5. i \in 2 .. 5
        BY <2>2, <3>2, <3>4 DEF IsCommand, WritebackSteps, Record
      <3>6. {2, 3, 4, 5} \subseteq CommandSteps("writeback")
        <4>1. Steps("writeback") = WritebackSteps /\ Len(Steps("writeback")) = 6 /\ "writeback" \in Actions
          BY StepsKnown DEF Actions, RunActions
        <4>2. \A j \in 2 .. 5 : WritebackSteps[j].kind \notin {"draft", "finalize"}
          BY DEF WritebackSteps, Record
        <4> QED
          BY <4>1, <4>2, CommandKnown
      <3>7. /\ Slot("writeback", 2) = <<"writeback", 2>> /\ Slot("writeback", 3) = <<"writeback", 3>>
            /\ "writeback" \in RunActions
        BY DEF Slot, PlanActions, RunActions
      <3>8. PICK d \in receipts : d.key = q.key /\ d.slot = <<"writeback", 3>>
        BY <2>2, <2>4, <3>2, <3>4, <3>7 DEF Inv, Rests, Found
      <3>9. \E e \in receipts : e.key = q.key /\ e.slot = <<"writeback", 2>>
        <4>1. "writeback" \in RunActions /\ 2 \in CommandSteps("writeback") /\ 3 \in CommandSteps("writeback")
          BY <3>6, <3>7
        <4>2. \A b \in RunActions : \A j \in CommandSteps(b) : d.slot = <<b, j>> =>
                \A k \in CommandSteps(b) : k < j =>
                  \E c \in receipts : c.key = d.key /\ c.slot = <<b, k>>
          BY DEF Inv, InSequence
        <4>3. \A k \in CommandSteps("writeback") : k < 3 =>
                \E c \in receipts : c.key = d.key /\ c.slot = <<"writeback", k>>
          BY <3>8, <4>1, <4>2
        <4> QED
          BY <3>8, <4>1, <4>3
      <3>10. PICK n : IsNew(n)
        BY <1>2, CommitWrites
      <3>11. n.key = q.key /\ n.slot = Slot("writeback", i) /\ receipts' = receipts \cup {n}
             /\ n.digest.kind = Current.kind /\ \A e \in receipts : e.key = n.key => e.slot # n.slot
        BY <3>2, <3>4, <3>10 DEF IsNew, IsOf, Current
      <3>12. i \in 4 .. 5
        BY <3>5, <3>7, <3>8, <3>9, <3>11
      <3>13. n.digest.kind \in {"revision", "impact"}
        BY <3>4, <3>11, <3>12 DEF WritebackSteps, Record
      <3>14. Has(receipts, q, 3)
        BY <2>2, <3>2, <3>4, <3>6, <3>12 DEF Inv, Played, Plays
      <3>15. \E e \in Found(n.key, Slot("writeback", 3)) : e.digest.run = r
        BY <2>4, <3>2, <3>4, <3>11, <3>14 DEF Has, IsOf, Found
      <3>16. runs' = runs
        BY <2>2, <3>1 DEF RunsMove
      <3> QED
        BY <3>11, <3>13, <3>15, <3>16
    <2> QED
      BY <2>3, <2>4
  <1> QED
    BY <1>1, <1>2, LedgerMoves

(* A run that has ended keeps its state, and the ledger gains nothing about *)
(* it but the end of the provenance of an artifact written back before.     *)
THEOREM SpecEndedRunsRest == Spec => EndedRunsRest
  <1>1. Inv /\ [Next]_vars =>
          [\A r \in Runs : runs[r].execution \in Terminal =>
             /\ runs'[r] = runs[r]
             /\ \A c \in receipts' \ receipts : c.digest.run = r =>
                  /\ c.digest.kind \in {"revision", "impact"}
                  /\ \E d \in Found(c.key, Slot("writeback", 3)) : d.digest.run = r]_vars
    BY EndedStep
  <1> QED
    BY <1>1, SpecInv, PTL DEF Spec, EndedRunsRest
=============================================================================
