---------------------------- MODULE AdaptiveRun ----------------------------
(***************************************************************************)
(* A production of the adaptive canvas and its charge ledger               *)
(* (agentflow_studio/production/adaptive_canvas_v2.py).                    *)
(*                                                                         *)
(* One process makes the artifacts of a run one after the other: paid      *)
(* images (and scripts) in one call, paid videos by submitting a task and  *)
(* polling it, compositions with a local tool.  It may be killed at any    *)
(* point and started again: it then reuses what is on disk, and asks the   *)
(* ledger what else it may pay for.  The prompts of a run do not change,   *)
(* so an artifact has one charge fingerprint.                              *)
(***************************************************************************)
EXTENDS Naturals, Sequences, FiniteSets

CONSTANTS N,        \* number of artifacts; they are made in this order
          Kind,     \* "image", "video" or "composition"
          Starts,   \* max_provider_starts of each artifact
          MaxPaid,  \* max_paid_attempts of the profile
          MaxRuns   \* bound: how often the production is started

Items == 1 .. N

ASSUME AdaptiveConstants ==
  /\ N \in Nat \ {0}
  /\ Kind \in [Items -> {"image", "video", "composition"}]
  /\ Starts \in [Items -> Nat \ {0}]
  /\ MaxPaid \in Nat /\ MaxRuns \in Nat

VARIABLES
  attempts,  \* charge_ledger.json: the status of each attempt, by artifact
  paid,      \* its paid_attempt_count
  file,      \* the artifacts in the run's directory
  state,     \* status of run_state.json
  delivered, \* whether the delivery manifest is written
  pc, item, attempt,  \* the process: where it is, with which artifact and attempt
  calls,     \* calls of a provider that may be charged, by artifact (history)
  charged,   \* and in all (history)
  runs       \* how often it was started

ledger == <<attempts, paid>>
disk == <<file, state, delivered>>
process == <<pc, item, attempt>>
provider == <<calls, charged>>
vars == <<ledger, disk, process, provider, runs>>
-----------------------------------------------------------------------------
Statuses == {"reserved", "started", "submitted", "succeeded", "failed"}

Paid(i) == Kind[i] \in {"image", "video"}

(* Attempts whose provider call was started, as far as the ledger knows.    *)
Started(i) == {k \in DOMAIN attempts[i] : attempts[i][k] # "reserved"}

With(i, status) == {k \in DOMAIN attempts[i] : attempts[i][k] = status}

Init ==
  /\ attempts = [i \in Items |-> << >>] /\ paid = 0
  /\ file = [i \in Items |-> "none"]
  /\ state = "none" /\ delivered = FALSE
  /\ pc = "stopped" /\ item = 1 /\ attempt = 0
  /\ calls = [i \in Items |-> 0] /\ charged = 0
  /\ runs = 0

At(l) == pc = l
Goes(l) == pc' = l /\ UNCHANGED <<item, attempt>>
Marks(status) == attempts' = [attempts EXCEPT ![item][attempt] = status]
-----------------------------------------------------------------------------
(* run_adaptive_canvas_production: the ledger is read, the run goes on.     *)
Start ==
  /\ At("stopped")
  /\ runs < MaxRuns
  /\ runs' = runs + 1
  /\ state' = "running"
  /\ pc' = "look" /\ item' = 1 /\ attempt' = 0
  /\ UNCHANGED <<ledger, file, delivered, provider>>

NextItem == pc' = (IF item < N THEN "look" ELSE "qa")
            /\ item' = (IF item < N THEN item + 1 ELSE item) /\ attempt' = 0

(* What is on disk is used again, whatever the ledger says about it.        *)
Reuse ==
  /\ At("look") /\ file[item] # "none"
  /\ NextItem
  /\ UNCHANGED <<ledger, disk, provider, runs>>

(* It may be unreadable, or what is needed to make it may be missing.       *)
LookFails ==
  /\ At("look")
  /\ Goes("failed")
  /\ UNCHANGED <<ledger, disk, provider, runs>>

(* A composition is written in place by the tool, which may fail.           *)
Compose ==
  /\ At("look") /\ file[item] = "none" /\ ~Paid(item)
  /\ file' = [file EXCEPT ![item] = "partial"]
  /\ Goes("composing")
  /\ UNCHANGED <<ledger, state, delivered, provider, runs>>

Composed ==
  /\ At("composing")
  /\ file' = [file EXCEPT ![item] = "ready"]
  /\ NextItem
  /\ UNCHANGED <<ledger, state, delivered, provider, runs>>

ComposeFails ==
  /\ At("composing")
  /\ Goes("failed")
  /\ UNCHANGED <<ledger, disk, provider, runs>>

(* A video whose task is in the ledger is polled, and not paid for again.   *)
(* A faulty Resumes could look for started attempts, which have no task.    *)
ResumesStarted == Kind[item] = "video" /\ With(item, "started") # {}

Resumes == Kind[item] = "video" /\ With(item, "submitted") # {}

Resume ==
  /\ At("look") /\ file[item] = "none" /\ Paid(item)
  /\ Resumes
  /\ \E k \in With(item, "submitted") :
       (\A n \in With(item, "submitted") : n <= k) /\ attempt' = k
  /\ pc' = "polling" /\ UNCHANGED item
  /\ UNCHANGED <<ledger, disk, provider, runs>>

(* reserve: neither the artifact nor the run may have used up its calls,    *)
(* and the id of the attempt, which counts the started ones, must be free.  *)
MayReserve ==
  /\ Kind[item] = "image" => With(item, "succeeded") = {}
  /\ Cardinality(Started(item)) < Starts[item]
  /\ paid < MaxPaid
  /\ Cardinality(Started(item)) + 1 \notin DOMAIN attempts[item]

(* A faulty Reserve could count the attempts from zero.                     *)
ReservesFromZero ==
  /\ At("look") /\ file[item] = "none" /\ Paid(item) /\ ~Resumes
  /\ MayReserve
  /\ attempts' = [attempts EXCEPT ![item] = Append(@, "reserved")]
  /\ attempt' = Len(attempts[item])
  /\ pc' = "reserved" /\ UNCHANGED item
  /\ UNCHANGED <<paid, disk, provider, runs>>

Reserve ==
  /\ At("look") /\ file[item] = "none" /\ Paid(item) /\ ~Resumes
  /\ MayReserve
  /\ attempts' = [attempts EXCEPT ![item] = Append(@, "reserved")]
  /\ attempt' = Len(attempts[item]) + 1
  /\ pc' = "reserved" /\ UNCHANGED item
  /\ UNCHANGED <<paid, disk, provider, runs>>

Refuse ==
  /\ At("look") /\ file[item] = "none" /\ Paid(item) /\ ~Resumes
  /\ ~MayReserve
  /\ Goes("failed")
  /\ UNCHANGED <<ledger, disk, provider, runs>>

MarkStarted ==
  /\ At("reserved")
  /\ Marks("started")
  /\ paid' = paid + 1
  /\ Goes("calling")
  /\ UNCHANGED <<disk, provider, runs>>

(* dispatch or submit.                                                      *)
Call ==
  /\ At("calling")
  /\ calls' = [calls EXCEPT ![item] = @ + 1]
  /\ charged' = charged + 1
  /\ Goes("called")
  /\ UNCHANGED <<ledger, disk, runs>>

(* The image comes with the answer.                                         *)
ImageComes ==
  /\ At("called") /\ Kind[item] = "image"
  /\ Goes("copying")
  /\ UNCHANGED <<ledger, disk, provider, runs>>

MarkSubmitted ==
  /\ At("called") /\ Kind[item] = "video"
  /\ Marks("submitted")
  /\ Goes("polling")
  /\ UNCHANGED <<paid, disk, provider, runs>>

VideoComes ==
  /\ At("polling")
  /\ Goes("copying")
  /\ UNCHANGED <<ledger, disk, provider, runs>>

Copy ==
  /\ At("copying")
  /\ file' = [file EXCEPT ![item] = "ready"]
  /\ Goes("copied")
  /\ UNCHANGED <<ledger, state, delivered, provider, runs>>

MarkSucceeded ==
  /\ At("copied")
  /\ Marks("succeeded")
  /\ NextItem
  /\ UNCHANGED <<paid, disk, provider, runs>>

(* Any error after the call was started, a poll that times out among them,  *)
(* fails the attempt; so do a missing output and an unreadable copy.        *)
(* A faulty MarkFailed could give the charge back.                          *)
Refunds ==
  /\ pc \in {"calling", "called", "polling", "copying", "copied"}
  /\ Marks("failed")
  /\ paid' = paid - 1
  /\ Goes("failed")
  /\ UNCHANGED <<disk, provider, runs>>

MarkFailed ==
  /\ pc \in {"calling", "called", "polling", "copying", "copied"}
  /\ Marks("failed")
  /\ Goes("failed")
  /\ UNCHANGED <<paid, disk, provider, runs>>
-----------------------------------------------------------------------------
(* The end: technical checks, the delivery, the state of the run.           *)
(* A faulty check could be content with files that are there.              *)
Present == \A i \in Items : file[i] # "none"

Whole == \A i \in Items : file[i] = "ready"

Register ==
  /\ At("qa") /\ Whole
  /\ delivered' = TRUE
  /\ Goes("registered")
  /\ UNCHANGED <<ledger, file, state, provider, runs>>

ChecksFail ==
  /\ At("qa")
  /\ Goes("failed")
  /\ UNCHANGED <<ledger, disk, provider, runs>>

WriteSucceeded ==
  /\ At("registered")
  /\ state' = "succeeded"
  /\ Goes("stopped")
  /\ UNCHANGED <<ledger, file, delivered, provider, runs>>

WriteFailed ==
  /\ At("failed")
  /\ state' = "failed"
  /\ Goes("stopped")
  /\ UNCHANGED <<ledger, file, delivered, provider, runs>>

(* Killed, interrupted from the keyboard, or the machine stops.             *)
Kill ==
  /\ ~At("stopped")
  /\ Goes("stopped")
  /\ UNCHANGED <<ledger, disk, provider, runs>>
-----------------------------------------------------------------------------
Steps ==
  \/ Reuse \/ LookFails \/ Compose \/ Composed \/ ComposeFails \/ Resume \/ Reserve \/ Refuse
  \/ MarkStarted \/ Call \/ ImageComes \/ MarkSubmitted \/ VideoComes \/ Copy
  \/ MarkSucceeded \/ MarkFailed \/ Register \/ ChecksFail \/ WriteSucceeded \/ WriteFailed

Next == Start \/ Steps \/ Kill

Spec == Init /\ [][Next]_vars

-----------------------------------------------------------------------------
(* The places at which the process works on an attempt.                     *)
Working == {"reserved", "calling", "called", "polling", "copying", "copied"}

(* Every variable has its type, and the process works on a paid attempt     *)
(* that the ledger has.                                                     *)
TypeOK ==
  /\ attempts \in [Items -> Seq(Statuses)] /\ paid \in Nat
  /\ file \in [Items -> {"none", "partial", "ready"}]
  /\ state \in {"none", "running", "failed", "succeeded"} /\ delivered \in BOOLEAN
  /\ pc \in Working \cup {"stopped", "look", "composing", "qa", "registered", "failed"}
  /\ item \in Items /\ attempt \in Nat
  /\ calls \in [Items -> Nat] /\ charged \in Nat /\ runs \in Nat
  /\ pc \in Working => attempt \in DOMAIN attempts[item]

(* However often the process is killed and started again, every call that   *)
(* may be charged was in the ledger before it was made, so that neither the *)
(* limit of the profile nor that of the artifact is exceeded.               *)
SpendingBounded ==
  /\ charged <= paid /\ paid <= MaxPaid
  /\ \A i \in Items : calls[i] <= Cardinality(Started(i)) /\ calls[i] <= Starts[i]

(* Nothing is paid for that is on disk, that the ledger has as succeeded    *)
(* (an image), or whose task was submitted and can be polled.               *)
NoCallInVain ==
  [][\A i \in Items : calls'[i] # calls[i] =>
       /\ file[i] = "none"
       /\ With(i, "submitted") = {}
       /\ Kind[i] = "image" => With(i, "succeeded") = {}]_vars

(* Attempts are kept, and one that has failed or succeeded stays so.        *)
AttemptsKept ==
  [][\A i \in Items : \A k \in DOMAIN attempts[i] :
       /\ k \in DOMAIN attempts'[i]
       /\ attempts[i][k] \in {"failed", "succeeded"} => attempts'[i][k] = attempts[i][k]
       /\ attempts[i][k] # "reserved" => attempts'[i][k] # "reserved"]_vars

(* A run that says succeeded is delivered; what is delivered is complete,   *)
(* and the ledger has a started attempt for every paid artifact of it.      *)
DeliveryAccounted ==
  /\ state = "succeeded" => delivered
  /\ delivered => \A i \in Items : file[i] = "ready" /\ (Paid(i) => Started(i) # {})
=============================================================================
