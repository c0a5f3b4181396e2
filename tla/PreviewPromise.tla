-------------------------- MODULE PreviewPromise --------------------------
(***************************************************************************)
(* What a client of the preview runs may rely on, whatever restarts and    *)
(* expires: a request is planned once, ends once, and a plan reaches the   *)
(* production graph at most once and only while it is a candidate.         *)
(***************************************************************************)
EXTENDS Naturals

CONSTANT Runs

VARIABLES
  outcome,   \* how the run stands, for as long as anything is kept of it
  calls,     \* calls of the planner for the run
  committed  \* runs whose plan is in the production graph

vars == <<outcome, calls, committed>>

Init ==
  /\ outcome = [r \in Runs |-> "none"]
  /\ calls = [r \in Runs |-> 0]
  /\ committed = {}

Becomes(r, end) ==
  outcome' = [outcome EXCEPT ![r] = end] /\ UNCHANGED <<calls, committed>>

Ask(r) == outcome[r] = "none" /\ Becomes(r, "live")

(* The planner may still be called for a run that recovery has given up or  *)
(* a closed gate has failed, but never for the second time.                 *)
Plan(r) ==
  /\ outcome[r] \in {"live", "failed"}
  /\ calls[r] = 0
  /\ calls' = [calls EXCEPT ![r] = 1]
  /\ UNCHANGED <<outcome, committed>>

End(r) ==
  /\ outcome[r] = "live"
  /\ \/ calls[r] = 1 /\ Becomes(r, "succeeded")
     \/ Becomes(r, "failed")
     \/ Becomes(r, "cancelled")

Commit(r) ==
  /\ outcome[r] = "succeeded"
  /\ r \notin committed
  /\ committed' = committed \cup {r}
  /\ UNCHANGED <<outcome, calls>>

Decide(r) ==
  /\ outcome[r] = "succeeded"
  /\ \/ r \in committed /\ Becomes(r, "confirmed")
     \/ Becomes(r, "cancelled")

Next == \E r \in Runs : Ask(r) \/ Plan(r) \/ End(r) \/ Commit(r) \/ Decide(r)

Spec == Init /\ [][Next]_vars
=============================================================================
