-------------------------- MODULE CreatorSagaProofs --------------------------
(***************************************************************************)
(* What CreatorSaga keeps for any number of requests and tokens, whatever  *)
(* jobs were cut short and however the creator meddles with the runs.      *)
(***************************************************************************)
EXTENDS CreatorSaga, TLAPS

USE SagaConstants

-----------------------------------------------------------------------------
(* The inductive invariant.                                                *)

(* A run's facts are recorded in their order, each for a key of its token;  *)
(* who completed it is told of a completed run only.                        *)
InOrder(t, run) ==
  /\ run.written # None => tokenOf[run.written] = t
  /\ run.revised => run.written # None
  /\ run.assessed => run.revised
  /\ run.completedBy # None => run.state = "completed"

(* What the phase of a request says of the other two files.                 *)
Right(run, shown, k, e) ==
  /\ e.phase \in {"control_applied", "episode_applied", "confirmed"} => run.assessed
  /\ e.phase \in {"episode_applied", "confirmed"} => e.episode = run.written /\ run.written \in shown
  /\ e.phase = "confirmed" => run.state = "completed"
  /\ e # NoEnvelope /\ e.completed => e.phase = "confirmed" /\ run.completedBy = k

Envelopes == [Keys -> Envelope \cup {NoEnvelope}]

Todos == SUBSET Keys

JobType == [mode : {"send", "reconcile"}, key : Keys \cup {None}, todo : Todos,
            envelopes : Envelopes, locked : BOOLEAN, seen : 0 .. MaxShot]

(* A job works on requests that were made.  The one in hand was loaded for  *)
(* saving when its candidate was not in the episode yet, and no other job   *)
(* saves candidates.                                                        *)
Working ==
  job # Idle =>
    /\ job \in JobType
    /\ \A k \in job.todo \cup ({job.key} \ {None}) : job.envelopes[k] # NoEnvelope
    /\ job.seen # 0 => Busy /\ Current.phase = "control_applied" /\ Run.written \notin candidates

RunsInOrder == \A t \in Tokens : InOrder(t, runs[t])

(* A candidate in the episode is the one that its run has written back.     *)
Candidates == \A c \in candidates : runs[tokenOf[c]].written = c

(* The file and the copy of the job: each phase has its facts.              *)
Backed ==
  \A k \in Keys :
    /\ Right(runs[tokenOf[k]], candidates, k, stored[k])
    /\ job # Idle => Right(runs[tokenOf[k]], candidates, k, job.envelopes[k])

Inv == TypeOK /\ shot \in 1 .. MaxShot /\ Working /\ RunsInOrder /\ Candidates /\ Backed
-----------------------------------------------------------------------------
(* The ledger and the episode only gain facts.                             *)

RunType == [state : RunStates, registered : Keys \cup {None}, written : Keys \cup {None},
            revised : BOOLEAN, assessed : BOOLEAN, completedBy : Keys \cup {None}]

Grows(run, next) ==
  /\ run.written # None => next.written = run.written
  /\ run.assessed => next.assessed
  /\ run.state = "completed" => next.state = "completed"
  /\ run.completedBy # None => next.completedBy = run.completedBy

LedgerGrows ==
  /\ tokenOf' = tokenOf
  /\ runs' \in [Tokens -> RunType]
  /\ \A t \in Tokens : Grows(runs[t], runs'[t]) /\ InOrder(t, runs'[t])
  /\ candidates \subseteq candidates' /\ candidates' \subseteq Keys
  /\ \A c \in candidates' : runs'[tokenOf[c]].written = c

LEMMA Tokened ==
  ASSUME TypeOK, NEW k \in Keys
  PROVE  tokenOf[k] \in Tokens /\ runs[tokenOf[k]] \in RunType
  BY DEF TypeOK, RunType

LEMMA LedgerKept ==
  ASSUME Inv, UNCHANGED <<runs, candidates, tokenOf>>
  PROVE  LedgerGrows
  <1>1. runs \in [Tokens -> RunType] /\ candidates \subseteq Keys
    BY DEF Inv, TypeOK, RunType
  <1> QED
    BY <1>1 DEF Inv, RunsInOrder, Candidates, LedgerGrows, Grows

(* One run grows.                                                           *)
LEMMA RunGrows ==
  ASSUME Inv, NEW t \in Tokens, NEW run \in RunType,
         Grows(runs[t], run), InOrder(t, run),
         runs' = [runs EXCEPT ![t] = run], UNCHANGED <<candidates, tokenOf>>
  PROVE  LedgerGrows
  <1>1. runs \in [Tokens -> RunType] /\ candidates \subseteq Keys
    BY DEF Inv, TypeOK, RunType
  <1> HIDE DEF RunType
  <1>2. runs' \in [Tokens -> RunType] /\ runs'[t] = run /\ \A u \in Tokens \ {t} : runs'[u] = runs[u]
    BY <1>1
  <1>3. ASSUME NEW u \in Tokens PROVE Grows(runs[u], runs'[u]) /\ InOrder(u, runs'[u])
    BY <1>2 DEF Inv, RunsInOrder, Grows
  <1>4. ASSUME NEW c \in candidates PROVE runs'[tokenOf[c]].written = c
    <2>1. tokenOf[c] \in Tokens /\ c \in Keys
      BY <1>1, Tokened DEF Inv
    <2>2. runs[tokenOf[c]].written = c /\ c # None
      BY <2>1 DEF Inv, Candidates
    <2> QED
      BY <1>3, <2>1, <2>2 DEF Grows
  <1> QED
    BY <1>1, <1>2, <1>3, <1>4 DEF LedgerGrows

(* The request in hand.                                                     *)
LEMMA InHand ==
  ASSUME Inv, Busy
  PROVE  /\ job \in JobType /\ job.key \in Keys /\ Current \in Envelope
         /\ tokenOf[job.key] \in Tokens /\ Run \in RunType
         /\ Run = runs[tokenOf[job.key]] /\ InOrder(tokenOf[job.key], Run)
         /\ Right(Run, candidates, job.key, Current)
  <1>1. job \in JobType /\ job.key \in Keys /\ job.envelopes[job.key] # NoEnvelope
    BY DEF Inv, Busy, Working, JobType
  <1>2. Current \in Envelope
    BY <1>1 DEF JobType, Envelopes, Current
  <1> QED
    BY <1>1, <1>2, Tokened DEF Inv, Run, RunsInOrder, Backed, Busy, Current

LEMMA StepsGrowLedger ==
  ASSUME Inv, [Next]_vars
  PROVE  LedgerGrows
  <1>1. ASSUME RecordFact PROVE LedgerGrows
    <2>1. CASE UNCHANGED runs
      BY <1>1, <2>1, LedgerKept DEF RecordFact
    <2>2. Busy
      BY <1>1 DEF RecordFact, At
    <2>3. PICK k \in Keys, t \in Tokens : k = job.key /\ t = tokenOf[k] /\ InOrder(t, runs[t]) /\ Run = runs[t]
      BY <2>2, InHand
    <2>4. PICK r \in RunType : r = runs[t]
      BY <2>2, <2>3, InHand
    <2>5. CASE ~UNCHANGED runs
      <3>1. PICK run : /\ runs' = [runs EXCEPT ![t] = run]
                       /\ \/ r.state = "none" /\ run = [r EXCEPT !.state = "running"]
                          \/ r.state # "none" /\ r.registered = None /\ run = [r EXCEPT !.registered = k]
                          \/ r.registered = k /\ r.written = None /\ run = [r EXCEPT !.written = k]
                          \/ r.written # None /\ ~r.revised /\ run = [r EXCEPT !.revised = TRUE]
                          \/ r.revised /\ ~r.assessed /\ run = [r EXCEPT !.assessed = TRUE]
        BY <1>1, <2>3, <2>4, <2>5 DEF RecordFact, Record
      <3>2. run \in RunType
        BY <3>1 DEF RunType, RunStates
      <3>3. Grows(r, run) /\ InOrder(t, run)
        BY <2>3, <2>4, <3>1 DEF RunType, Grows, InOrder
      <3>4. UNCHANGED <<candidates, tokenOf>>
        BY <1>1 DEF RecordFact
      <3> QED
        BY <2>4, <3>1, <3>2, <3>3, <3>4, RunGrows
    <2> QED
      BY <2>1, <2>5
  <1>2. ASSUME EpisodeSave PROVE LedgerGrows
    <2>2. At("control_applied") /\ Busy
      BY <1>2 DEF EpisodeSave, At
    <2>3. PICK k \in Keys, t \in Tokens : k = job.key /\ t = tokenOf[k] /\ InOrder(t, runs[t]) /\ Run = runs[t]
      BY <2>2, InHand
    <2>4. runs[t].assessed /\ runs[t].written \in Keys \cup {None}
      BY <2>2, <2>3, InHand DEF At, Right, RunType
    <2>5. PICK w \in Keys : w = runs[t].written /\ tokenOf[w] = t
      BY <2>3, <2>4 DEF InOrder
    <2>6. candidates' = candidates \cup {w} /\ UNCHANGED <<runs, tokenOf>>
      BY <1>2, <2>3, <2>5 DEF EpisodeSave, Successor
    <2>7. runs \in [Tokens -> RunType] /\ candidates \subseteq Keys
      BY DEF Inv, TypeOK, RunType
    <2> QED
      BY <2>5, <2>6, <2>7 DEF Inv, RunsInOrder, Candidates, LedgerGrows, Grows
  <1>3. ASSUME Confirm PROVE LedgerGrows
    <2>2. Busy
      BY <1>3 DEF Confirm, At
    <2>3. PICK k \in Keys, t \in Tokens : k = job.key /\ t = tokenOf[k] /\ InOrder(t, runs[t]) /\ Run = runs[t]
      BY <2>2, InHand
    <2>4. PICK r \in RunType : r = runs[t]
      BY <2>2, <2>3, InHand
    <2>5. PICK by : by = IF r.state = "running" THEN k ELSE r.completedBy
      OBVIOUS
    <2>6. PICK run : run = [r EXCEPT !.state = "completed", !.completedBy = by]
      OBVIOUS
    <2>7. /\ r.state \in {"running", "completed"} /\ UNCHANGED <<candidates, tokenOf>>
          /\ runs' = [runs EXCEPT ![t] = run]
      BY <1>3, <2>3, <2>4, <2>5, <2>6 DEF Confirm, Record
    <2>8. by \in Keys \cup {None}
      BY <2>5 DEF RunType
    <2>9. run \in RunType
      BY <2>6, <2>8 DEF RunType, RunStates
    <2>10. Grows(r, run) /\ InOrder(t, run)
      BY <2>3, <2>4, <2>5, <2>6, <2>7 DEF RunType, Grows, InOrder
    <2> QED
      BY <2>4, <2>7, <2>9, <2>10, RunGrows
  <1>4. ASSUME NEW t \in Tokens, ActOnRun(t) PROVE LedgerGrows
    <2>1. PICK next \in {"running", "stalled", "completed", "cancelled"} :
            /\ runs[t].state \in {"running", "stalled"}
            /\ runs' = [runs EXCEPT ![t].state = next]
      BY <1>4 DEF ActOnRun
    <2>2. PICK r \in RunType : r = runs[t]
      BY DEF Inv, TypeOK, RunType
    <2>3. PICK run : run = [r EXCEPT !.state = next]
      OBVIOUS
    <2>4. runs' = [runs EXCEPT ![t] = run] /\ UNCHANGED <<candidates, tokenOf>>
      BY <1>4, <2>1, <2>2, <2>3 DEF ActOnRun
    <2>5. run \in RunType
      BY <2>3 DEF RunType, RunStates
    <2>6. InOrder(t, r)
      BY <2>2 DEF Inv, RunsInOrder
    <2>7. Grows(r, run) /\ InOrder(t, run)
      BY <2>1, <2>2, <2>3, <2>6 DEF RunType, Grows, InOrder
    <2> QED
      BY <2>2, <2>4, <2>5, <2>7, RunGrows
  <1>5. ASSUME UNCHANGED vars PROVE UNCHANGED <<runs, candidates, tokenOf>>
    BY <1>5 DEF vars
  <1>6. ASSUME Next, ~RecordFact, ~EpisodeSave, ~Confirm, \A t \in Tokens : ~ActOnRun(t)
        PROVE  UNCHANGED <<runs, candidates, tokenOf>>
    BY <1>6 DEF Next, JobStep, Send, Reconcile, Pick, Persist, Finish, Crash, Manifest, ControlApplied,
                ControlRefuses, EpisodeLoad, EpisodeRaises, EpisodeRefuses, ConfirmRefuses, ReviseShot
  <1> QED
    BY <1>1, <1>2, <1>3, <1>4, <1>5, <1>6, LedgerKept
-----------------------------------------------------------------------------
(* A phase that had its facts has them after the step.                     *)
LEMMA RightStays ==
  ASSUME Inv, LedgerGrows, NEW k \in Keys, NEW e, Right(runs[tokenOf[k]], candidates, k, e)
  PROVE  Right(runs'[tokenOf[k]], candidates', k, e)
  <1>1. PICK t \in Tokens : t = tokenOf[k]
    BY Tokened DEF Inv
  <1>2. InOrder(t, runs[t]) /\ Grows(runs[t], runs'[t]) /\ candidates \subseteq candidates'
    BY DEF Inv, RunsInOrder, LedgerGrows
  <1> QED
    BY <1>1, <1>2 DEF Right, InOrder, Grows
-----------------------------------------------------------------------------
(* What a step makes of the saga file and of the copy a job has of it.     *)

(* Every envelope has, after the step, the facts of its phase.              *)
Fits(envelopes) ==
  /\ envelopes \in Envelopes
  /\ \A k \in Keys : Right(runs'[tokenOf[k]], candidates', k, envelopes[k])

Made(j) ==
  /\ j \in JobType /\ Fits(j.envelopes)
  /\ \A k \in j.todo \cup ({j.key} \ {None}) : j.envelopes[k] # NoEnvelope

Sound ==
  /\ Fits(stored')
  /\ job' # Idle =>
       /\ Made(job')
       /\ job'.seen # 0 =>
            /\ job'.key # None /\ job'.envelopes[job'.key].phase = "control_applied"
            /\ runs'[tokenOf[job'.key]].written \notin candidates'

LEMMA OldFits ==
  ASSUME Inv, LedgerGrows
  PROVE  Fits(stored) /\ (job # Idle => Made(job))
  <1>1. stored \in Envelopes /\ (job # Idle => job \in JobType /\ job.envelopes \in Envelopes)
    BY DEF Inv, TypeOK, Working, Envelopes, JobType
  <1>2. ASSUME NEW k \in Keys
        PROVE  /\ Right(runs'[tokenOf[k]], candidates', k, stored[k])
               /\ job # Idle => Right(runs'[tokenOf[k]], candidates', k, job.envelopes[k])
    BY RightStays DEF Inv, Backed
  <1> QED
    BY <1>1, <1>2 DEF Fits, Made, Inv, Working

LEMMA EnvelopeIsMade ==
  ASSUME NEW e \in Envelope
  PROVE  e # NoEnvelope
  BY DEF Envelope, NoEnvelope, Phases

(* A job replaces the envelope in hand.                                     *)
LEMMA BecomesSound ==
  ASSUME Inv, LedgerGrows, Busy, NEW e \in Envelope, Becomes(e),
         Right(runs'[tokenOf[job.key]], candidates', job.key, e)
  PROVE  Sound
  <1>0. job \in JobType /\ job.key \in Keys /\ Made(job) /\ Fits(stored) /\ job # Idle
    BY InHand, OldFits DEF Busy
  <1>1. PICK k \in Keys : k = job.key
    BY <1>0
  <1>2. PICK envelopes : envelopes = [job.envelopes EXCEPT ![k] = e]
    OBVIOUS
  <1>3. PICK key \in {k, None} : key = IF e.phase \in Terminal THEN None ELSE k
    OBVIOUS
  <1>4. /\ job' = [job EXCEPT !.envelopes = envelopes, !.locked = FALSE, !.seen = 0, !.key = key]
        /\ stored' = stored
    BY <1>1, <1>2, <1>3 DEF Becomes
  <1>5. Fits(job.envelopes) /\ job.envelopes \in Envelopes
    BY <1>0 DEF Made, Fits
  <1>6. envelopes \in Envelopes /\ envelopes[k] = e /\ \A i \in Keys \ {k} : envelopes[i] = job.envelopes[i]
    BY <1>2, <1>5 DEF Envelopes
  <1>7. Fits(envelopes)
    BY <1>1, <1>5, <1>6 DEF Fits
  <1>8. job' \in JobType /\ job'.envelopes = envelopes /\ job'.todo = job.todo /\ job'.key = key /\ job'.seen = 0
    <2> DEFINE S == 0 .. MaxShot
    <2> DEFINE K == Keys \cup {None}
    <2> DEFINE T == [mode : {"send", "reconcile"}, key : K, todo : Todos,
                     envelopes : Envelopes, locked : BOOLEAN, seen : S]
    <2>1. 0 \in S /\ key \in K /\ envelopes \in Envelopes /\ job \in T
      BY <1>0, <1>6 DEF JobType
    <2> HIDE DEF S, K
    <2>2. [job EXCEPT !.envelopes = envelopes, !.locked = FALSE, !.seen = 0, !.key = key] \in T
      BY <2>1
    <2>3. /\ job'.envelopes = envelopes /\ job'.todo = job.todo
          /\ job'.key = key /\ job'.seen = 0
      BY <1>4, <2>1
    <2> USE DEF S, K
    <2> QED
      BY <1>4, <2>2, <2>3 DEF JobType
  <1>9. ASSUME NEW i \in job.todo \cup ({key} \ {None}) PROVE envelopes[i] # NoEnvelope
    <2>1. i \in Keys /\ (i # k => job.envelopes[i] # NoEnvelope)
      BY <1>0, <1>3 DEF JobType, Todos, Made
    <2> QED
      BY <1>6, <2>1, EnvelopeIsMade
  <1> HIDE DEF Fits
  <1> QED
    BY <1>0, <1>4, <1>7, <1>8, <1>9 DEF Sound, Made

LEMMA FailsSound ==
  ASSUME Inv, LedgerGrows, Busy, Current.phase \notin Terminal, Fails
  PROVE  Sound
  <1>1. CASE job' = Idle /\ stored' = stored
    BY <1>1, OldFits DEF Sound
  <1>2. CASE Becomes([Current EXCEPT !.phase = "failed"])
    <2>0. Current \in Envelope /\ Right(Run, candidates, job.key, Current) /\ Current # NoEnvelope
      BY InHand, EnvelopeIsMade
    <2>1. PICK e : e = [Current EXCEPT !.phase = "failed"]
      OBVIOUS
    <2>2. e \in Envelope /\ e.phase = "failed" /\ e.completed = Current.completed
      BY <2>0, <2>1 DEF Envelope, Phases
    <2>3. ~Current.completed
      BY <2>0 DEF Right, Terminal
    <2>4. Right(runs'[tokenOf[job.key]], candidates', job.key, e)
      BY <2>2, <2>3 DEF Right
    <2> QED
      BY <1>2, <2>1, <2>2, <2>4, BecomesSound
  <1> QED
    BY <1>1, <1>2 DEF Fails

(* The job goes on to the next phase.                                       *)
LEMMA AppliedSound ==
  ASSUME Inv, LedgerGrows, At("control_applied"), Becomes(Applied), Successor \in candidates',
         UNCHANGED runs
  PROVE  Sound
  <1>0. Busy
    BY DEF At
  <1>1. /\ Current \in Envelope /\ Right(Run, candidates, job.key, Current) /\ Current # NoEnvelope
        /\ Run \in RunType /\ Run = runs[tokenOf[job.key]]
    BY <1>0, InHand, EnvelopeIsMade
  <1>2. PICK e : e = Applied
    OBVIOUS
  <1>3. Run.written \in Keys \cup {None} /\ Run.assessed /\ ~Current.completed
    BY <1>1 DEF RunType, At, Right
  <1>4. e \in Envelope /\ e.phase = "episode_applied" /\ e.episode = Run.written /\ ~e.completed
    BY <1>1, <1>2, <1>3 DEF Envelope, Phases, Applied, Successor
  <1>5. Right(Run, candidates', job.key, e)
    BY <1>3, <1>4 DEF Right, Successor
  <1>6. Right(runs'[tokenOf[job.key]], candidates', job.key, e)
    BY <1>1, <1>5
  <1> QED
    BY <1>0, <1>2, <1>4, <1>6, BecomesSound

LEMMA StepsSound ==
  ASSUME Inv, [Next]_vars
  PROVE  Sound
  <1>0. LedgerGrows /\ Fits(stored) /\ (job # Idle => Made(job)) /\ shot \in 1 .. MaxShot
    BY StepsGrowLedger, OldFits DEF Inv
  <1>1. ASSUME UNCHANGED <<job, candidates>>, Fits(stored') PROVE Sound
    <2>1. CASE job = Idle
      BY <1>0, <1>1, <2>1 DEF Sound
    <2>2. CASE job # Idle /\ job.seen = 0
      BY <1>0, <1>1, <2>2 DEF Sound
    <2>3. CASE job # Idle /\ job.seen # 0
      <3>1. Busy /\ Current.phase = "control_applied" /\ Run.written \notin candidates
        BY <2>3 DEF Inv, Working
      <3>2. PICK t \in Tokens : t = tokenOf[job.key] /\ Run = runs[t] /\ Run.written # None
        BY <3>1, InHand DEF Right, InOrder
      <3>3. runs'[t].written = Run.written
        BY <1>0, <3>2 DEF LedgerGrows, Grows
      <3>4. runs'[tokenOf[job.key]].written \notin candidates'
        BY <1>1, <3>1, <3>2, <3>3
      <3>5. job.key # None /\ job.envelopes[job.key].phase = "control_applied"
        BY <3>1 DEF Busy, Current
      <3>6. job' = job /\ Fits(stored')
        BY <1>1
      <3> HIDE DEF Fits, Made
      <3> QED
        BY <1>0, <2>3, <3>4, <3>5, <3>6 DEF Sound
    <2> QED
      BY <2>1, <2>2, <2>3
  <1>2. ASSUME NEW k \in Keys, Send(k) PROVE Sound
    <2>9. shot \in Nat
      BY <1>0
    <2>10. Prepared \in Envelope
      BY <2>9 DEF Prepared, Envelope, Phases
    <2>1. PICK p \in Envelope : p = Prepared
      BY <2>10
    <2>2. p.phase = "prepared" /\ ~p.completed
      BY <2>1 DEF Prepared
    <2>3. PICK envelopes : /\ envelopes = IF stored[k] = NoEnvelope THEN [stored EXCEPT ![k] = p] ELSE stored
                           /\ stored' = envelopes
                           /\ job' = [mode |-> "send", key |-> k, todo |-> {}, envelopes |-> envelopes,
                                      locked |-> FALSE, seen |-> 0]
      BY <1>2, <2>1 DEF Send, NewJob
    <2>4. /\ envelopes \in Envelopes /\ envelopes[k] # NoEnvelope
          /\ \A i \in Keys : envelopes[i] = stored[i] \/ (i = k /\ envelopes[i] = p)
      BY <1>0, <2>3, EnvelopeIsMade DEF Fits, Envelopes
    <2>5. ASSUME NEW i \in Keys PROVE Right(runs'[tokenOf[i]], candidates', i, p)
      BY <2>2 DEF Right
    <2>6. Fits(envelopes)
      BY <1>0, <2>4, <2>5 DEF Fits
    <2>7. job' \in JobType
      BY <2>3, <2>4 DEF JobType, Todos
    <2>8. /\ job'.envelopes = envelopes /\ job'.key = k /\ job'.todo = {} /\ job'.seen = 0
      BY <2>3
    <2> HIDE DEF Fits
    <2> QED
      BY <2>3, <2>4, <2>6, <2>7, <2>8 DEF Sound, Made
  <1>3. ASSUME Reconcile PROVE Sound
    <2>1. job' = [mode |-> "reconcile", key |-> None, todo |-> Pending(stored), envelopes |-> stored,
                  locked |-> FALSE, seen |-> 0] /\ stored' = stored
      BY <1>3 DEF Reconcile, NewJob
    <2>2. Pending(stored) \in Todos /\ \A k \in Pending(stored) : stored[k] # NoEnvelope
      BY DEF Pending, Todos
    <2>3. job' \in JobType
      BY <1>0, <2>1, <2>2 DEF JobType, Fits
    <2>4. job'.envelopes = stored /\ job'.key = None /\ job'.todo = Pending(stored) /\ job'.seen = 0
      BY <2>1
    <2> HIDE DEF Fits
    <2> QED
      BY <1>0, <2>1, <2>2, <2>3, <2>4 DEF Sound, Made
  <1>4. ASSUME NEW k \in Keys, Pick(k) PROVE Sound
    <2>1. /\ job # Idle /\ job.key = None /\ k \in job.todo /\ stored' = stored
          /\ job' = [job EXCEPT !.key = k, !.todo = @ \ {k}]
      BY <1>4 DEF Pick
    <2>2. job \in JobType
      BY <1>0, <2>1 DEF Made
    <2>3. job.todo \ {k} \in Todos
      BY <2>2 DEF JobType, Todos
    <2>4. /\ job' \in JobType /\ job'.envelopes = job.envelopes /\ job'.key = k
          /\ job'.todo = job.todo \ {k} /\ job'.seen = job.seen
      BY <2>1, <2>2, <2>3 DEF JobType
    <2>5. job.seen = 0
      BY <2>1 DEF Inv, Working, Busy
    <2> HIDE DEF Fits
    <2> QED
      BY <1>0, <2>1, <2>4, <2>5 DEF Sound, Made
  <1>5. ASSUME Finish \/ Crash \/ EpisodeRaises PROVE Sound
    <2>1. job' = Idle /\ job # Idle /\ (stored' = job.envelopes \/ stored' = stored)
      BY <1>5 DEF Finish, Crash, EpisodeRaises, At, Busy
    <2> QED
      BY <1>0, <2>1 DEF Sound, Made
  <1>6. ASSUME Manifest PROVE Sound
    <2>1. At("prepared") /\ Busy /\ Becomes([Current EXCEPT !.phase = "artifact_prepared"])
      BY <1>6 DEF Manifest, At
    <2>2. Current \in Envelope /\ Right(Run, candidates, job.key, Current) /\ Current # NoEnvelope
      BY <2>1, InHand, EnvelopeIsMade
    <2>3. PICK e : e = [Current EXCEPT !.phase = "artifact_prepared"]
      OBVIOUS
    <2>4. e \in Envelope /\ e.phase = "artifact_prepared" /\ e.completed = Current.completed
      BY <2>2, <2>3 DEF Envelope, Phases
    <2>5. ~Current.completed
      BY <2>1, <2>2 DEF Right, At
    <2>6. Right(runs'[tokenOf[job.key]], candidates', job.key, e)
      BY <2>4, <2>5 DEF Right
    <2> QED
      BY <1>0, <2>1, <2>3, <2>4, <2>6, BecomesSound
  <1>7. ASSUME RecordFact PROVE Sound
    <2>1. At("artifact_prepared") /\ Busy /\ stored' = stored /\ job' = [job EXCEPT !.locked = TRUE]
      BY <1>7 DEF RecordFact, At
    <2>2. job \in JobType /\ job.seen = 0 /\ job # Idle
      BY <2>1 DEF Inv, Working, At, Busy
    <2>3. /\ job' \in JobType /\ job'.envelopes = job.envelopes /\ job'.key = job.key
          /\ job'.todo = job.todo /\ job'.seen = job.seen
      BY <2>1, <2>2 DEF JobType
    <2> HIDE DEF Fits
    <2> QED
      BY <1>0, <2>1, <2>2, <2>3 DEF Sound, Made
  <1>8. ASSUME ControlApplied PROVE Sound
    <2>1. /\ At("artifact_prepared") /\ Busy /\ Becomes([Current EXCEPT !.phase = "control_applied"])
          /\ Run.assessed /\ UNCHANGED <<runs, candidates>>
      BY <1>8 DEF ControlApplied, At
    <2>2. /\ Current \in Envelope /\ Right(Run, candidates, job.key, Current) /\ Current # NoEnvelope
          /\ Run = runs[tokenOf[job.key]]
      BY <2>1, InHand, EnvelopeIsMade
    <2>3. PICK e : e = [Current EXCEPT !.phase = "control_applied"]
      OBVIOUS
    <2>4. e \in Envelope /\ e.phase = "control_applied" /\ e.completed = Current.completed
      BY <2>2, <2>3 DEF Envelope, Phases
    <2>5. ~Current.completed
      BY <2>1, <2>2 DEF Right, At
    <2>6. Right(Run, candidates, job.key, e)
      BY <2>1, <2>4, <2>5 DEF Right
    <2>7. Right(runs'[tokenOf[job.key]], candidates', job.key, e)
      BY <2>1, <2>2, <2>6
    <2> QED
      BY <1>0, <2>1, <2>3, <2>4, <2>7, BecomesSound
  <1>9. ASSUME ControlRefuses \/ EpisodeRefuses \/ ConfirmRefuses PROVE Sound
    <2>1. Busy /\ Current.phase \notin Terminal /\ Fails
      BY <1>9 DEF ControlRefuses, EpisodeRefuses, ConfirmRefuses, At, Terminal
    <2> QED
      BY <1>0, <2>1, FailsSound
  <1>10. ASSUME EpisodeLoad PROVE Sound
    <2>1. /\ At("control_applied") /\ Busy /\ UNCHANGED <<runs, candidates>>
          /\ Successor \notin candidates /\ job' = [job EXCEPT !.seen = shot] /\ stored' = stored
      BY <1>10 DEF EpisodeLoad, At
    <2>2. job \in JobType /\ job # Idle /\ Run = runs[tokenOf[job.key]]
      BY <2>1, InHand DEF Busy
    <2>3. job' \in JobType /\ job'.envelopes = job.envelopes /\ job'.key = job.key /\ job'.todo = job.todo
      BY <1>0, <2>1, <2>2 DEF JobType
    <2> HIDE DEF Fits
    <2> QED
      BY <1>0, <2>1, <2>2, <2>3 DEF Sound, Made, At, Busy, Current, Successor
  <1>11. ASSUME EpisodeSave PROVE Sound
    BY <1>0, <1>11, AppliedSound DEF EpisodeSave
  <1>12. ASSUME Confirm PROVE Sound
    <2>1. At("episode_applied") /\ Busy
      BY <1>12 DEF Confirm, At
    <2>2. /\ Current \in Envelope /\ Right(Run, candidates, job.key, Current) /\ Current # NoEnvelope
          /\ Run \in RunType /\ Run = runs[tokenOf[job.key]]
          /\ job.key \in Keys /\ tokenOf[job.key] \in Tokens
      BY <2>1, InHand, EnvelopeIsMade
    <2>3. PICK by : by = IF Run.state = "running" THEN job.key ELSE Run.completedBy
      OBVIOUS
    <2>4. /\ runs' = [runs EXCEPT ![tokenOf[job.key]] = [Run EXCEPT !.state = "completed", !.completedBy = by]]
          /\ Becomes([Current EXCEPT !.phase = "confirmed", !.completed = (by = job.key)])
          /\ UNCHANGED candidates
      BY <1>12, <2>3 DEF Confirm, Record
    <2>5. PICK completed \in BOOLEAN : completed <=> by = job.key
      OBVIOUS
    <2>6. PICK e : e = [Current EXCEPT !.phase = "confirmed", !.completed = completed]
      OBVIOUS
    <2>7. Becomes(e)
      BY <2>4, <2>5, <2>6
    <2>8. e \in Envelope /\ e.phase = "confirmed" /\ e.episode = Current.episode /\ e.completed = completed
      BY <2>2, <2>6 DEF Envelope, Phases
    <2>9. PICK run : run = [Run EXCEPT !.state = "completed", !.completedBy = by]
      OBVIOUS
    <2>10. /\ run.state = "completed" /\ run.completedBy = by /\ run.written = Run.written
           /\ run.assessed = Run.assessed
      BY <2>2, <2>9 DEF RunType
    <2>11. Right(run, candidates, job.key, e)
      BY <2>1, <2>2, <2>5, <2>8, <2>10 DEF Right, At
    <2>12. runs'[tokenOf[job.key]] = run
      BY <2>2, <2>4, <2>9 DEF Inv, TypeOK
    <2>13. Right(runs'[tokenOf[job.key]], candidates', job.key, e)
      BY <2>4, <2>11, <2>12
    <2> QED
      BY <1>0, <2>1, <2>7, <2>8, <2>13, BecomesSound
  <1>13. ASSUME NEW t \in Tokens, ActOnRun(t) PROVE UNCHANGED <<job, candidates>> /\ Fits(stored')
    BY <1>0, <1>13 DEF ActOnRun
  <1>14. ASSUME ReviseShot \/ UNCHANGED vars PROVE UNCHANGED <<job, candidates>> /\ Fits(stored')
    BY <1>0, <1>14 DEF ReviseShot, vars
  <1>15. ASSUME Persist PROVE UNCHANGED <<job, candidates>> /\ Fits(stored')
    BY <1>0, <1>15 DEF Persist, Busy, Made
  <1> HIDE DEF Sound
  <1> QED
    BY <1>1, <1>2, <1>3, <1>4, <1>5, <1>6, <1>7, <1>8, <1>9, <1>10, <1>11, <1>12, <1>13, <1>14, <1>15
       DEF Next, JobStep
-----------------------------------------------------------------------------
(* The invariant holds at first, and every step keeps it.                   *)

LEMMA InitInv ==
  ASSUME Init
  PROVE  Inv
  <1>1. \A t \in Tokens : runs[t] = NoRun
    BY DEF Init
  <1>2. NoRun \in RunType
    BY DEF NoRun, RunType, RunStates
  <1>3. TypeOK
    <2>1. runs \in [Tokens -> RunType]
      BY <1>2 DEF Init
    <2>2. stored \in [Keys -> Envelope \cup {NoEnvelope}]
      BY DEF Init
    <2> QED
      BY <2>1, <2>2 DEF Init, TypeOK, RunType
  <1>4. RunsInOrder
    BY <1>1 DEF RunsInOrder, InOrder, NoRun
  <1>5. Backed
    BY DEF Init, Backed, Right, NoEnvelope
  <1> QED
    BY <1>3, <1>4, <1>5 DEF Init, Inv, Working, Candidates

LEMMA RestKeepsType ==
  ASSUME Inv, [Next]_vars
  PROVE  planned' \in 0 .. 3 /\ shot' \in 1 .. MaxShot /\ crashes' \in 0 .. MaxCrashes
  <1>0. planned \in 0 .. 3 /\ shot \in 1 .. MaxShot /\ crashes \in 0 .. MaxCrashes
    BY DEF Inv, TypeOK
  <1>1. ASSUME RecordFact PROVE planned' \in 0 .. 3 /\ UNCHANGED <<shot, crashes>>
    BY <1>0, <1>1 DEF RecordFact
  <1>2. ASSUME Crash PROVE crashes' \in 0 .. MaxCrashes /\ UNCHANGED <<shot, planned>>
    BY <1>0, <1>2 DEF Crash
  <1>3. ASSUME ReviseShot PROVE shot' \in 1 .. MaxShot /\ UNCHANGED <<planned, crashes>>
    BY <1>0, <1>3 DEF ReviseShot
  <1>4. ASSUME [Next]_vars, ~RecordFact, ~Crash, ~ReviseShot PROVE UNCHANGED <<planned, shot, crashes>>
    BY <1>4 DEF vars, Next, JobStep, Send, Reconcile, Pick, Persist, Finish, Manifest, ControlApplied,
                ControlRefuses, EpisodeLoad, EpisodeRaises, EpisodeSave, EpisodeRefuses, Confirm, ConfirmRefuses, ActOnRun
  <1> QED
    BY <1>0, <1>1, <1>2, <1>3, <1>4

LEMMA StepInv ==
  ASSUME Inv, [Next]_vars
  PROVE  Inv'
  <1>0. LedgerGrows /\ Sound
    BY StepsGrowLedger, StepsSound
  <1>1. tokenOf' = tokenOf /\ tokenOf \in TokenMaps
    BY <1>0 DEF LedgerGrows, Inv, TypeOK
  <1>2. Working'
    <2>1. SUFFICES ASSUME job' # Idle PROVE Working'
      BY DEF Working
    <2>2. Made(job') /\ (job'.seen # 0 => /\ job'.key # None
                                          /\ job'.envelopes[job'.key].phase = "control_applied"
                                          /\ runs'[tokenOf[job'.key]].written \notin candidates')
      BY <1>0, <2>1 DEF Sound
    <2> QED
      BY <1>1, <2>1, <2>2 DEF Working, Made, Busy, Current, Run
  <1>3. RunsInOrder' /\ Candidates'
    BY <1>0, <1>1 DEF LedgerGrows, RunsInOrder, Candidates, InOrder
  <1>4. Backed'
    BY <1>0, <1>1 DEF Sound, Made, Fits, Backed
  <1>5. TypeOK'
    <2>1. job' # Idle => job' \in JobType /\ (job'.key # None => job'.envelopes[job'.key] # NoEnvelope)
      BY <1>0 DEF Sound, Made
    <2>2. job' # Idle => /\ job'.mode \in {"send", "reconcile"}
                         /\ job'.envelopes \in [Keys -> Envelope \cup {NoEnvelope}]
                         /\ job'.todo \subseteq Keys
                         /\ job'.key = None \/ (job'.key \in Keys /\ job'.envelopes[job'.key] \in Envelope)
                         /\ job'.locked \in BOOLEAN
                         /\ job'.seen \in 0 .. MaxShot
      BY <2>1 DEF JobType, Envelopes, Todos
    <2>3. stored' \in [Keys -> Envelope \cup {NoEnvelope}]
      BY <1>0 DEF Sound, Fits, Envelopes
    <2>4. /\ runs' \in [Tokens -> [state : RunStates, registered : Keys \cup {None},
                          written : Keys \cup {None}, revised : BOOLEAN,
                          assessed : BOOLEAN, completedBy : Keys \cup {None}]]
          /\ candidates' \subseteq Keys
      BY <1>0 DEF LedgerGrows, RunType
    <2>5. planned' \in 0 .. 3 /\ shot' \in Nat /\ crashes' \in 0 .. MaxCrashes
      BY RestKeepsType
    <2> QED
      BY <1>1, <2>2, <2>3, <2>4, <2>5 DEF TypeOK
  <1> QED
    BY <1>2, <1>3, <1>4, <1>5, RestKeepsType DEF Inv

(* The three files stand to each other as the invariant says, wherever jobs *)
(* are cut short.                                                           *)
THEOREM SpecInv == Spec => []Inv
  <1>1. Inv /\ [Next]_vars => Inv'
    BY StepInv
  <1> QED
    BY <1>1, InitInv, PTL DEF Spec

(* Every file and the job have their type, and a job works on requests that *)
(* were made.                                                               *)
THEOREM SpecTypeOK == Spec => []TypeOK
  BY SpecInv, PTL DEF Inv

LEMMA InvConfirmedIsRecorded ==
  ASSUME Inv
  PROVE  ConfirmedIsRecorded
  BY DEF Inv, Backed, Right, ConfirmedIsRecorded

(* A confirmed request has its run completed with the whole provenance, and *)
(* the candidate of that writeback is in the episode.                       *)
THEOREM SpecConfirmedIsRecorded == Spec => []ConfirmedIsRecorded
  BY SpecInv, InvConfirmedIsRecorded, PTL

LEMMA InvVisibleIsRecorded ==
  ASSUME Inv
  PROVE  VisibleIsRecorded
  <1>1. SUFFICES ASSUME NEW k \in Keys, Visible(k)
        PROVE /\ runs[tokenOf[k]].written = k /\ runs[tokenOf[k]].revised /\ runs[tokenOf[k]].assessed
              /\ runs[tokenOf[k]].state = "completed" /\ runs[tokenOf[k]].completedBy = k
    BY DEF VisibleIsRecorded
  <1>2. tokenOf[k] \in Tokens
    BY Tokened DEF Inv
  <1>3. Right(runs[tokenOf[k]], candidates, k, stored[k]) /\ InOrder(tokenOf[k], runs[tokenOf[k]])
    BY <1>2 DEF Inv, Backed, RunsInOrder
  <1> QED
    BY <1>1, <1>3 DEF Right, InOrder, Visible

(* What the workspace shows, the ledger and the episode have: the writeback *)
(* and the completion are those of the very request.                        *)
THEOREM SpecVisibleIsRecorded == Spec => []VisibleIsRecorded
  BY SpecInv, InvVisibleIsRecorded, PTL
-----------------------------------------------------------------------------
(* Who may be failed.                                                      *)

LEMMA BecomesOnlyInHand ==
  ASSUME Inv, Busy, NEW e, Becomes(e), NEW k \in Keys
  PROVE  job'.envelopes[k] = job.envelopes[k] \/ (k = job.key /\ job'.envelopes[k] = e)
  <1>1. job \in JobType
    BY InHand
  <1>2. PICK envelopes : envelopes = [job.envelopes EXCEPT ![job.key] = e]
    OBVIOUS
  <1>3. job'.envelopes = envelopes
    BY <1>1, <1>2 DEF Becomes, JobType
  <1>4. job.envelopes \in Envelopes
    BY <1>1 DEF JobType
  <1> QED
    BY <1>2, <1>3, <1>4 DEF Envelopes

Excused(k) == \/ runs[tokenOf[k]].state \in {"stalled", "cancelled"}
              \/ job.envelopes[k].shot # shot

(* A step of a job that leaves the request in hand in another phase than    *)
(* failed fails nobody.                                                     *)
LEMMA GoesOn ==
  ASSUME Inv, Busy, NEW e, Becomes(e), e.phase # "failed", NEW k \in Keys, k \in Pending(job.envelopes)
  PROVE  job'.envelopes[k].phase # "failed"
  BY BecomesOnlyInHand DEF Pending, Terminal

LEMMA FailsOnlyInHand ==
  ASSUME Inv, Busy, Fails, job' # Idle, NEW k \in Keys, k \in Pending(job.envelopes),
         job'.envelopes[k].phase = "failed"
  PROVE  k = job.key
  <1>1. Becomes([Current EXCEPT !.phase = "failed"])
    BY DEF Fails
  <1>2. job.envelopes[k].phase # "failed"
    BY DEF Pending, Terminal
  <1> QED
    BY <1>1, <1>2, BecomesOnlyInHand

LEMMA StepsFail ==
  ASSUME Inv, Next, NEW k \in Keys, job # Idle, job' # Idle, k \in candidates,
         k \in Pending(job.envelopes), job'.envelopes[k].phase = "failed"
  PROVE  Excused(k)
  <1>0. job \in JobType /\ runs[tokenOf[k]].written = k
    BY DEF Inv, Working, Candidates
  <1>1. ASSUME job'.envelopes = job.envelopes PROVE FALSE
    BY <1>1 DEF Pending, Terminal
  <1>2. ASSUME NEW i \in Keys, Pick(i) PROVE FALSE
    BY <1>0, <1>1, <1>2 DEF Pick, JobType
  <1>3. ASSUME RecordFact PROVE FALSE
    BY <1>0, <1>1, <1>3 DEF RecordFact, JobType
  <1>4. ASSUME NEW phase, phase # "failed", Busy, Becomes([Current EXCEPT !.phase = phase]) PROVE FALSE
    <2>1. Current \in Envelope
      BY <1>4, InHand
    <2>2. PICK e : e = [Current EXCEPT !.phase = phase]
      OBVIOUS
    <2>3. e.phase = phase
      BY <2>1, <2>2 DEF Envelope
    <2> QED
      BY <1>4, <2>2, <2>3, GoesOn
  <1>5. ASSUME Manifest \/ ControlApplied PROVE FALSE
    BY <1>4, <1>5 DEF Manifest, ControlApplied, At
  <1>6. ASSUME Busy, Becomes(Applied) PROVE FALSE
    <2>1. Current \in Envelope
      BY <1>6, InHand
    <2>2. PICK e : e = Applied
      OBVIOUS
    <2>3. e.phase = "episode_applied"
      BY <2>1, <2>2 DEF Envelope, Applied
    <2> QED
      BY <1>6, <2>2, <2>3, GoesOn
  <1>7. ASSUME EpisodeLoad \/ EpisodeSave PROVE FALSE
    <2>1. Busy /\ (Becomes(Applied) \/ job' = [job EXCEPT !.seen = shot])
      BY <1>7 DEF EpisodeLoad, EpisodeSave, At
    <2> QED
      BY <1>0, <1>1, <1>6, <2>1 DEF JobType
  <1>8. ASSUME Confirm PROVE FALSE
    <2>1. PICK completed : Busy /\ Becomes([Current EXCEPT !.phase = "confirmed", !.completed = completed])
      BY <1>8 DEF Confirm, At
    <2>2. Current \in Envelope
      BY <2>1, InHand
    <2>3. PICK e : e = [Current EXCEPT !.phase = "confirmed", !.completed = completed]
      OBVIOUS
    <2>4. e.phase = "confirmed"
      BY <2>2, <2>3 DEF Envelope
    <2> QED
      BY <2>1, <2>3, <2>4, GoesOn
  <1>9. ASSUME ControlRefuses PROVE FALSE
    <2>1. Busy /\ Fails /\ Run.written = None
      BY <1>9 DEF ControlRefuses, At
    <2>2. k = job.key
      BY <2>1, FailsOnlyInHand
    <2> QED
      BY <1>0, <2>1, <2>2 DEF Run
  <1>10. ASSUME EpisodeRefuses PROVE Excused(k)
    <2>1. Busy /\ Fails /\ (job.seen # 0 \/ ~ShotsLatest)
      BY <1>10 DEF EpisodeRefuses, At
    <2>2. k = job.key /\ Run.written = k
      BY <1>0, <2>1, FailsOnlyInHand DEF Run
    <2>3. job.seen = 0
      BY <2>2 DEF Inv, Working
    <2> QED
      BY <2>1, <2>2, <2>3 DEF ShotsLatest, Successor, Excused
  <1>11. ASSUME ConfirmRefuses PROVE Excused(k)
    <2>1. Busy /\ Fails /\ Run.state \in {"stalled", "cancelled"}
      BY <1>11 DEF ConfirmRefuses, At
    <2>2. k = job.key
      BY <2>1, FailsOnlyInHand
    <2> QED
      BY <2>1, <2>2 DEF Run, Excused
  <1>12. ASSUME NEW i \in Keys, Send(i) PROVE FALSE
    BY <1>12 DEF Send
  <1>13. ASSUME Reconcile \/ Crash \/ Finish \/ EpisodeRaises PROVE FALSE
    BY <1>13 DEF Reconcile, Crash, Finish, EpisodeRaises
  <1>14. ASSUME NEW t \in Tokens, ActOnRun(t) PROVE FALSE
    BY <1>1, <1>14 DEF ActOnRun
  <1>15. ASSUME ReviseShot \/ Persist PROVE FALSE
    BY <1>1, <1>15 DEF ReviseShot, Persist
  <1> QED
    BY <1>2, <1>3, <1>5, <1>7, <1>8, <1>9, <1>10, <1>11, <1>12, <1>13, <1>14, <1>15 DEF Next, JobStep

(* A request whose candidate is in the episode is declared failed only when *)
(* the creator stopped its run or revised its shots, after whatever deaths. *)
THEOREM SpecSavedIsNotFailed == Spec => SavedIsNotFailed
  <1>1. Inv /\ [Next]_vars =>
          [\A k \in Keys :
             /\ job # Idle /\ job' # Idle /\ k \in candidates
             /\ k \in Pending(job.envelopes) /\ job'.envelopes[k].phase = "failed"
             => \/ runs[tokenOf[k]].state \in {"stalled", "cancelled"}
                \/ job.envelopes[k].shot # shot]_vars
    BY StepsFail DEF Excused
  <1> QED
    BY <1>1, SpecInv, PTL DEF Spec, SavedIsNotFailed
-----------------------------------------------------------------------------
(* What is saved, and for which shots.                                     *)

SameRequests(a, b) ==
  \A k \in Keys : /\ a[k] = NoEnvelope <=> b[k] = NoEnvelope
                  /\ a[k] # NoEnvelope => a[k].shot = b[k].shot

(* The copy of a job has the requests of the file, whose phases it may be   *)
(* ahead of; what was written back was requested; and a candidate loaded    *)
(* for saving is still the one for the shots that were loaded.              *)
Copied ==
  /\ \A t \in Tokens : runs[t].written # None => stored[runs[t].written] # NoEnvelope
  /\ job # Idle => SameRequests(stored, job.envelopes)
  /\ job # Idle /\ job.seen # 0 => job.envelopes[Run.written].shot = job.seen

LEMMA SameIsSymmetric ==
  ASSUME NEW a, NEW b, SameRequests(a, b)
  PROVE  SameRequests(b, a)
  BY DEF SameRequests

LEMMA SameIsTransitive ==
  ASSUME NEW a, NEW b, NEW c, SameRequests(a, b), SameRequests(b, c)
  PROVE  SameRequests(a, c)
  BY DEF SameRequests

(* What becomes of the requests and of what was loaded in a step.           *)
Copies ==
  /\ \A k \in Keys : stored[k] # NoEnvelope => stored'[k] # NoEnvelope
  /\ job' # Idle => SameRequests(stored', job'.envelopes)
  /\ job' # Idle /\ job'.seen # 0 =>
       \/ UNCHANGED job
       \/ job'.envelopes[runs'[tokenOf[job'.key]].written].shot = job'.seen

LEMMA BecomesCopies ==
  ASSUME Inv, Copied, Busy, NEW e \in Envelope, Becomes(e), e.shot = Current.shot
  PROVE  Copies
  <1>1. job \in JobType /\ Current # NoEnvelope /\ e # NoEnvelope /\ job # Idle
    BY InHand, EnvelopeIsMade DEF Busy
  <1>2. job.envelopes \in Envelopes /\ job.key \in Keys
    BY InHand DEF JobType
  <1>3. job'.envelopes = [job.envelopes EXCEPT ![job.key] = e] /\ job'.seen = 0 /\ stored' = stored
    BY <1>1 DEF Becomes, JobType
  <1>4. SameRequests(job.envelopes, job'.envelopes)
    BY <1>1, <1>2, <1>3 DEF SameRequests, Envelopes, Current
  <1> QED
    BY <1>1, <1>3, <1>4, SameIsTransitive DEF Copies, Copied

LEMMA FailsCopies ==
  ASSUME Inv, Copied, Busy, Fails
  PROVE  Copies
  <1>1. CASE job' = Idle /\ stored' = stored
    BY <1>1 DEF Copies
  <1>2. CASE Becomes([Current EXCEPT !.phase = "failed"])
    <2>1. Current \in Envelope
      BY InHand
    <2>2. PICK e : e = [Current EXCEPT !.phase = "failed"]
      OBVIOUS
    <2>3. e \in Envelope /\ e.shot = Current.shot
      BY <2>1, <2>2 DEF Envelope, Phases
    <2> QED
      BY <1>2, <2>2, <2>3, BecomesCopies
  <1> QED
    BY <1>1, <1>2 DEF Fails

LEMMA AppliedCopies ==
  ASSUME Inv, Copied, Busy, Becomes(Applied)
  PROVE  Copies
  <1>1. Current \in Envelope /\ Successor \in Keys \cup {None}
    BY InHand DEF RunType, Successor
  <1>2. PICK e : e = Applied
    OBVIOUS
  <1>3. e \in Envelope /\ e.shot = Current.shot
    BY <1>1, <1>2 DEF Envelope, Phases, Applied
  <1> QED
    BY <1>2, <1>3, BecomesCopies

(* Steps of a job that neither end it nor touch an envelope.                *)
LEMMA GoingCopies ==
  ASSUME Copied, job # Idle, job'.envelopes = job.envelopes, stored' = stored, job'.seen = 0
  PROVE  Copies
  BY DEF Copies, Copied

LEMMA StepsCopy ==
  ASSUME Inv, Copied, [Next]_vars
  PROVE  Copies
  <1>1. ASSUME UNCHANGED <<stored, job>> PROVE Copies
    BY <1>1 DEF Copies, Copied
  <1>2. ASSUME NEW k \in Keys, Send(k) PROVE Copies
    <2>1. stored \in Envelopes
      BY DEF Inv, TypeOK, Envelopes
    <2>2. shot \in Nat
      BY DEF Inv
    <2>3. Prepared # NoEnvelope
      BY <2>2, EnvelopeIsMade DEF Prepared, Envelope, Phases
    <2>4. /\ job'.envelopes = stored' /\ job'.seen = 0
          /\ stored' = stored \/ stored' = [stored EXCEPT ![k] = Prepared]
      BY <1>2 DEF Send, NewJob
    <2> QED
      BY <2>1, <2>3, <2>4 DEF Copies, SameRequests, Envelopes
  <1>3. ASSUME Reconcile PROVE Copies
    BY <1>3 DEF Reconcile, NewJob, Copies, SameRequests
  <1>4. ASSUME NEW k \in Keys, Pick(k) PROVE Copies
    <2>1. job \in JobType /\ job.seen = 0 /\ job # Idle
      BY <1>4 DEF Pick, Inv, Working, Busy
    <2>2. job'.envelopes = job.envelopes /\ job'.seen = 0 /\ stored' = stored
      BY <1>4, <2>1 DEF Pick, JobType
    <2> QED
      BY <2>1, <2>2, GoingCopies
  <1>5. ASSUME Crash \/ EpisodeRaises PROVE Copies
    BY <1>5 DEF Crash, EpisodeRaises, Copies
  <1>6. ASSUME Finish PROVE Copies
    BY <1>6 DEF Finish, Copies, Copied, SameRequests
  <1>7. ASSUME Persist PROVE Copies
    <2>1. stored' = job.envelopes /\ job' = job /\ job # Idle
      BY <1>7 DEF Persist, Busy
    <2> QED
      BY <2>1 DEF Copies, Copied, SameRequests
  <1>8. ASSUME RecordFact PROVE Copies
    <2>1. Busy /\ Current.phase = "artifact_prepared"
      BY <1>8 DEF RecordFact, At
    <2>2. job \in JobType /\ job.seen = 0 /\ job # Idle
      BY <2>1 DEF Inv, Working, Busy
    <2>3. job'.envelopes = job.envelopes /\ job'.seen = 0 /\ stored' = stored
      BY <1>8, <2>2 DEF RecordFact, JobType
    <2> QED
      BY <2>2, <2>3, GoingCopies
  <1>9. ASSUME NEW phase \in Phases, Busy, Becomes([Current EXCEPT !.phase = phase]) PROVE Copies
    <2>1. Current \in Envelope
      BY <1>9, InHand
    <2>2. PICK e : e = [Current EXCEPT !.phase = phase]
      OBVIOUS
    <2>3. e \in Envelope /\ e.shot = Current.shot
      BY <2>1, <2>2 DEF Envelope
    <2> QED
      BY <1>9, <2>2, <2>3, BecomesCopies
  <1>10. ASSUME Manifest \/ ControlApplied PROVE Copies
    BY <1>9, <1>10 DEF Manifest, ControlApplied, At, Phases
  <1>11. ASSUME ControlRefuses \/ EpisodeRefuses \/ ConfirmRefuses PROVE Copies
    BY <1>11, FailsCopies DEF ControlRefuses, EpisodeRefuses, ConfirmRefuses, At
  <1>12. ASSUME EpisodeLoad PROVE Copies
    <2>1. /\ Busy /\ job' = [job EXCEPT !.seen = shot] /\ UNCHANGED <<stored, runs>>
          /\ job.envelopes[Run.written].shot = shot
      BY <1>12 DEF EpisodeLoad, At, ShotsLatest, Successor
    <2>2. job \in JobType /\ job # Idle /\ Run = runs[tokenOf[job.key]]
      BY <2>1, InHand DEF Busy
    <2>3. job'.envelopes = job.envelopes /\ job'.key = job.key /\ job'.seen = shot
      BY <2>1, <2>2 DEF JobType
    <2> QED
      BY <2>1, <2>2, <2>3 DEF Copies, Copied
  <1>13. ASSUME EpisodeSave PROVE Copies
    BY <1>13, AppliedCopies DEF EpisodeSave, At
  <1>14. ASSUME Confirm PROVE Copies
    <2>1. PICK completed \in BOOLEAN :
            Busy /\ Becomes([Current EXCEPT !.phase = "confirmed", !.completed = completed])
      BY <1>14 DEF Confirm, At
    <2>2. Current \in Envelope
      BY <2>1, InHand
    <2>3. PICK e : e = [Current EXCEPT !.phase = "confirmed", !.completed = completed]
      OBVIOUS
    <2>4. e \in Envelope /\ e.shot = Current.shot
      BY <2>2, <2>3 DEF Envelope, Phases
    <2> QED
      BY <2>1, <2>3, <2>4, BecomesCopies
  <1>15. ASSUME NEW t \in Tokens, ActOnRun(t) PROVE UNCHANGED <<stored, job>>
    BY <1>15 DEF ActOnRun
  <1>16. ASSUME ReviseShot \/ UNCHANGED vars PROVE UNCHANGED <<stored, job>>
    BY <1>16 DEF ReviseShot, vars
  <1> HIDE DEF Copies
  <1> QED
    BY <1>1, <1>2, <1>3, <1>4, <1>5, <1>6, <1>7, <1>8, <1>10, <1>11, <1>12, <1>13, <1>14, <1>15, <1>16
       DEF Next, JobStep

(* What a run has written back is a request of the file.                    *)
LEMMA StepsWriteBackRequests ==
  ASSUME Inv, Copied, [Next]_vars, NEW t \in Tokens, runs'[t].written # None
  PROVE  \/ runs'[t].written = runs[t].written
         \/ runs'[t].written \in Keys /\ stored'[runs'[t].written] # NoEnvelope
  <1>1. runs \in [Tokens -> RunType]
    BY DEF Inv, TypeOK, RunType
  <1>2. ASSUME RecordFact
        PROVE  \/ runs'[t].written = runs[t].written
               \/ runs'[t].written \in Keys /\ stored'[runs'[t].written] # NoEnvelope
    <2>1. Busy /\ stored' = stored
      BY <1>2 DEF RecordFact, At
    <2>2. PICK k \in Keys, u \in Tokens : k = job.key /\ u = tokenOf[k] /\ Run = runs[u]
      BY <2>1, InHand
    <2>3. stored[k] # NoEnvelope
      BY <2>1, <2>2, InHand, EnvelopeIsMade DEF Copied, SameRequests, Busy, Current
    <2>4. CASE UNCHANGED runs
      BY <2>4
    <2>5. PICK r \in RunType : r = runs[u]
      BY <1>1, <2>2
    <2>6. CASE ~UNCHANGED runs
      <3>1. PICK run : /\ runs' = [runs EXCEPT ![u] = run]
                       /\ \/ run = [r EXCEPT !.state = "running"]
                          \/ run = [r EXCEPT !.registered = k]
                          \/ run = [r EXCEPT !.written = k]
                          \/ run = [r EXCEPT !.revised = TRUE]
                          \/ run = [r EXCEPT !.assessed = TRUE]
        BY <1>2, <2>2, <2>5, <2>6 DEF RecordFact, Record
      <3>2. run.written \in {r.written, k}
        BY <3>1 DEF RunType
      <3>3. runs'[t] = IF t = u THEN run ELSE runs[t]
        BY <1>1, <3>1
      <3> QED
        BY <2>1, <2>3, <2>5, <3>2, <3>3
    <2> QED
      BY <2>4, <2>6
  <1>3. ASSUME Confirm PROVE runs'[t].written = runs[t].written
    <2>1. PICK k \in Keys, u \in Tokens : k = job.key /\ u = tokenOf[k] /\ Run = runs[u]
      BY <1>3, InHand DEF Confirm, At
    <2>2. PICK r \in RunType : r = runs[u]
      BY <1>1
    <2>3. PICK by : runs' = [runs EXCEPT ![u] = [r EXCEPT !.state = "completed", !.completedBy = by]]
      BY <1>3, <2>1, <2>2 DEF Confirm, Record
    <2>4. PICK run : run = [r EXCEPT !.state = "completed", !.completedBy = by]
      OBVIOUS
    <2>5. run.written = r.written
      BY <2>4 DEF RunType
    <2> QED
      BY <1>1, <2>2, <2>3, <2>4, <2>5
  <1>4. ASSUME NEW u \in Tokens, ActOnRun(u) PROVE runs'[t].written = runs[t].written
    <2>1. PICK next : runs' = [runs EXCEPT ![u].state = next]
      BY <1>4 DEF ActOnRun
    <2>2. PICK r \in RunType : r = runs[u]
      BY <1>1
    <2>3. PICK run : run = [r EXCEPT !.state = next]
      OBVIOUS
    <2>4. run.written = r.written
      BY <2>3 DEF RunType
    <2> QED
      BY <1>1, <2>1, <2>2, <2>3, <2>4
  <1>5. ASSUME [Next]_vars, ~RecordFact, ~Confirm, \A u \in Tokens : ~ActOnRun(u) PROVE runs' = runs
    BY <1>5 DEF vars, Next, JobStep, Send, Reconcile, Pick, Persist, Finish, Crash, Manifest, ControlApplied,
                ControlRefuses, EpisodeLoad, EpisodeRaises, EpisodeSave, EpisodeRefuses, ConfirmRefuses, ReviseShot
  <1> QED
    BY <1>2, <1>3, <1>4, <1>5

LEMMA StepCopied ==
  ASSUME Inv, Copied, [Next]_vars
  PROVE  Copied'
  <1>0. Copies /\ LedgerGrows
    BY StepsCopy, StepsGrowLedger
  <1>1. ASSUME NEW t \in Tokens, runs'[t].written # None PROVE stored'[runs'[t].written] # NoEnvelope
    <2>1. CASE runs'[t].written = runs[t].written
      <3>1. runs[t].written \in Keys
        BY <1>1, <2>1 DEF Inv, TypeOK
      <3> QED
        BY <1>0, <1>1, <2>1, <3>1 DEF Copied, Copies
    <2> QED
      BY <1>1, <2>1, StepsWriteBackRequests
  <1>2. ASSUME job' # Idle, job'.seen # 0, UNCHANGED job
        PROVE  job'.envelopes[Run'.written].shot = job'.seen
    <2>1. Busy /\ Current.phase = "control_applied"
      BY <1>2 DEF Inv, Working
    <2>2. PICK t \in Tokens : t = tokenOf[job.key] /\ Run = runs[t] /\ Run.written # None
      BY <2>1, InHand DEF Right, InOrder
    <2>3. Run' = runs'[t] /\ runs'[t].written = Run.written
      BY <1>0, <1>2, <2>2 DEF LedgerGrows, Grows, Run
    <2> QED
      BY <1>2, <2>3 DEF Copied
  <1>3. ASSUME job' # Idle, job'.seen # 0 PROVE job'.envelopes[Run'.written].shot = job'.seen
    BY <1>0, <1>2, <1>3 DEF Copies, LedgerGrows, Run
  <1> QED
    BY <1>0, <1>1, <1>3 DEF Copied, Copies

LEMMA InitCopied ==
  ASSUME Init
  PROVE  Copied
  BY DEF Init, Copied, NoRun

LEMMA StepsSave ==
  ASSUME Inv, Copied, [Next]_vars, NEW k \in candidates' \ candidates
  PROVE  /\ runs[tokenOf[k]].written = k /\ runs[tokenOf[k]].assessed
         /\ stored[k] # NoEnvelope /\ stored[k].shot = shot
  <1>1. EpisodeSave
    BY DEF vars, Next, JobStep, Send, Reconcile, Pick, Persist, Finish, Crash, Manifest, RecordFact,
           ControlApplied, ControlRefuses, EpisodeLoad, EpisodeRaises, EpisodeRefuses, Confirm,
           ConfirmRefuses, ActOnRun, ReviseShot
  <1>2. Busy /\ Current.phase = "control_applied" /\ job.seen = shot /\ k = Run.written
    BY <1>1 DEF EpisodeSave, At, Successor
  <1>3. PICK t \in Tokens : t = tokenOf[job.key] /\ Run = runs[t] /\ InOrder(t, runs[t]) /\ runs[t].assessed
    BY <1>2, InHand DEF Right
  <1>4. k \in Keys /\ tokenOf[k] = t
    BY <1>2, <1>3, InHand DEF InOrder, RunType
  <1>5. stored[k] # NoEnvelope
    BY <1>2, <1>3, <1>4 DEF Copied
  <1>6. job.envelopes[k].shot = shot
    BY <1>2 DEF Copied, Busy, Inv
  <1> QED
    BY <1>2, <1>3, <1>4, <1>5, <1>6 DEF Copied, SameRequests, Busy

(* A candidate enters the episode only when its writeback and its impact    *)
(* are in the ledger and the shots its own request was made for are still   *)
(* the latest, whenever the job that saves it had loaded them.              *)
THEOREM SpecSavedForLatestShots == Spec => SavedForLatestShots
  <1>1. Inv /\ Copied /\ [Next]_vars => Copied'
    BY StepCopied
  <1>2. Inv /\ Copied /\ [Next]_vars =>
          [\A k \in candidates' \ candidates :
             /\ runs[tokenOf[k]].written = k /\ runs[tokenOf[k]].assessed
             /\ stored[k] # NoEnvelope /\ stored[k].shot = shot]_vars
    BY StepsSave
  <1> QED
    BY <1>1, <1>2, InitCopied, SpecInv, PTL DEF Spec, SavedForLatestShots
=============================================================================
