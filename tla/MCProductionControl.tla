------------------------- MODULE MCProductionControl -------------------------
(* Small instances of ProductionControl.  A behaviour follows one scenario: *)
(* a set of requests, a bound on the version, and a ledger to start from,   *)
(* empty for the plan, with an approved plan for the actions on runs.       *)
EXTENDS ProductionControl

CONSTANTS r1, r2, k1, k2, km, kp, ka,
          Scenarios   \* the scenarios of this instance

VARIABLE scenario

Ask(keys, targets, actions) == [key : keys, run : targets, action : actions]

RequestsOf(s) ==
  CASE s = "plan"      -> Ask({k1, k2, ka}, {r1}, PlanActions)
                          \cup Ask({k1}, {r2}, {"provider_gate"})
    [] s = "steer"     -> Ask({k1, k2}, {r1}, {"pause", "resume", "retry", "block",
                                               "clear_blocker", "cancel"})
                          \cup Ask({k1}, {r2}, {"progress"})
    [] s = "human"     -> Ask({k1, k2}, {r1}, {"waiting_human", "decide_human", "block",
                                               "clear_blocker", "complete", "cancel"})
    [] s = "writeback" -> Ask({k1, k2}, {r1}, {"writeback"})
                          \cup Ask({k2}, {r1}, {"retry", "complete", "cancel"})
                          \cup Ask({k1}, {r2}, {"writeback"})

(* The version up to which requests begin.  The approved plan has three     *)
(* commands already; a writeback that was cut short after two of its four   *)
(* can be sent again after the two of a cancellation.                       *)
BoundOf(s) == CASE s = "plan"      -> MaxVersion - 3
                [] s = "writeback" -> MaxVersion
                [] OTHER           -> MaxVersion - 1

AllRequests == UNION {RequestsOf(s) : s \in {"plan", "steer", "human", "writeback"}}

(* The ledger after the mission, the plan and the approval.                 *)
Receipt(key, v, kind, datum) ==
  [key |-> key, slot |-> <<"bare", 1>>, version |-> v,
   digest |-> [run |-> r1, kind |-> kind, target |-> "none", datum |-> datum]]

ApprovedInit ==
  /\ version = 3
  /\ receipts = {Receipt(km, 1, "mission", 0), Receipt(kp, 2, "plan", 1),
                 Receipt(ka, 3, "approve", 1)}
  /\ plan = [mission |-> TRUE, status |-> "approved", revision |-> 1]
  /\ runs = [r \in Runs |-> Started]
  /\ candidates = [c \in Runs \X Keys |-> "none"]
  /\ shotsFresh = TRUE
  /\ job = Idle
  /\ done = {}

MCInit == /\ scenario \in Scenarios
          /\ IF scenario = "plan" THEN Init ELSE ApprovedInit

MCNext ==
  /\ Next
  /\ job = Idle /\ job' # Idle =>
        job'.request \in RequestsOf(scenario) /\ version < BoundOf(scenario)
  /\ UNCHANGED scenario

MCSpec == MCInit /\ [][MCNext]_<<vars, scenario>>
=============================================================================
