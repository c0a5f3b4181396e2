------------------------- MODULE AdaptiveRunProofs -------------------------
(***************************************************************************)
(* Proofs about AdaptiveRun: for every production, every limit and every   *)
(* number of restarts, the ledger bounds what may be charged, no provider  *)
(* call is made in vain, and a delivery is complete and accounted for.     *)
(***************************************************************************)
EXTENDS AdaptiveRun, FiniteSetTheorems, TLAPS

(* The attempts of an artifact whose provider call was started.             *)
StartedOf(s) == {k \in DOMAIN s : s[k] # "reserved"}

(* What a change of one attempt's status does to a ledger.                  *)
LEMMA MarkedLedger ==
  ASSUME TypeOK, attempt \in DOMAIN attempts[item],
         NEW v \in Statuses, Marks(v)
  PROVE  /\ attempts' \in [Items -> Seq(Statuses)]
         /\ \A i \in Items \ {item} : attempts'[i] = attempts[i]
         /\ DOMAIN attempts'[item] = DOMAIN attempts[item]
         /\ attempts'[item][attempt] = v
         /\ \A k \in DOMAIN attempts[item] : k # attempt => attempts'[item][k] = attempts[item][k]
<1> DEFINE s == attempts[item]
           t == [s EXCEPT ![attempt] = v]
<1>1. item \in Items /\ s \in Seq(Statuses) /\ attempts \in [Items -> Seq(Statuses)]
  BY DEF TypeOK
<1>2. attempts' = [attempts EXCEPT ![item] = t]
  BY DEF Marks
<1>3. t \in Seq(Statuses)
  BY <1>1
<1>4. DOMAIN t = DOMAIN s /\ t[attempt] = v /\ \A k \in DOMAIN s : k # attempt => t[k] = s[k]
  BY <1>1
<1>5. attempts'[item] = t /\ \A i \in Items \ {item} : attempts'[i] = attempts[i]
  BY <1>1, <1>2
<1> HIDE DEF s, t
<1>6. attempts' \in [Items -> Seq(Statuses)]
  BY <1>1, <1>2, <1>3
<1> QED
  BY <1>4, <1>5, <1>6 DEF s

(* A new reservation is the last attempt of its artifact.                   *)
LEMMA ReservedLedger ==
  ASSUME TypeOK, Reserve
  PROVE  /\ attempts' \in [Items -> Seq(Statuses)]
         /\ \A i \in Items \ {item} : attempts'[i] = attempts[i]
         /\ DOMAIN attempts'[item] = DOMAIN attempts[item] \cup {attempt'}
         /\ attempt' \notin DOMAIN attempts[item]
         /\ attempts'[item][attempt'] = "reserved"
         /\ \A k \in DOMAIN attempts[item] : attempts'[item][k] = attempts[item][k]
<1> DEFINE s == attempts[item]
           t == Append(s, "reserved")
<1>1. item \in Items /\ s \in Seq(Statuses) /\ attempts \in [Items -> Seq(Statuses)]
  BY DEF TypeOK
<1>2. attempts' = [attempts EXCEPT ![item] = t] /\ attempt' = Len(s) + 1
  BY DEF Reserve
<1>3. "reserved" \in Statuses
  BY DEF Statuses
<1>4. /\ t \in Seq(Statuses) /\ Len(s) \in Nat
      /\ DOMAIN s = 1 .. Len(s) /\ DOMAIN t = 1 .. Len(s) + 1
      /\ t[Len(s) + 1] = "reserved" /\ \A k \in DOMAIN s : t[k] = s[k]
  BY <1>1, <1>3
<1>5. attempts'[item] = t /\ \A i \in Items \ {item} : attempts'[i] = attempts[i]
  BY <1>1, <1>2
<1> HIDE DEF s, t
<1>6. attempts' \in [Items -> Seq(Statuses)]
  BY <1>1, <1>2, <1>4
<1> QED
  BY <1>2, <1>4, <1>5, <1>6 DEF s
(* The artifacts are made from the first to the last.                       *)
LEMMA FirstItem == 1 \in Items
BY AdaptiveConstants DEF Items

LEMMA FollowingItem ==
  ASSUME TypeOK, NextItem
  PROVE  item' \in Items /\ attempt' = 0 /\ pc' \in {"look", "qa"}
BY AdaptiveConstants DEF NextItem, Items, TypeOK
-----------------------------------------------------------------------------
(* The type invariant: a ledger, and a process whose attempt is in it.      *)
LEMMA TypeInit == Init => TypeOK
<1> SUFFICES ASSUME Init PROVE TypeOK
  OBVIOUS
<1>1. attempts \in [Items -> Seq(Statuses)]
  <2>1. << >> \in Seq(Statuses)
    OBVIOUS
  <2> QED
    BY <2>1 DEF Init
<1>2. file \in [Items -> {"none", "partial", "ready"}] /\ calls \in [Items -> Nat]
  BY DEF Init
<1>3. item \in Items
  BY FirstItem DEF Init
<1> QED
  BY <1>1, <1>2, <1>3 DEF Init, TypeOK, Working

LEMMA TypeStep ==
  ASSUME TypeOK, [Next]_vars PROVE TypeOK'
<1>1. CASE UNCHANGED vars
  BY <1>1 DEF vars, ledger, disk, process, provider, TypeOK
<1>2. CASE Start
  BY <1>2, FirstItem DEF Start, At, ledger, provider, TypeOK, Working
<1>3. CASE Reuse
  BY <1>3, FollowingItem DEF Reuse, At, ledger, disk, provider, TypeOK, Working
<1>4. CASE LookFails
  BY <1>4 DEF LookFails, At, Goes, ledger, disk, provider, TypeOK, Working
<1>5. CASE Compose
  BY <1>5 DEF Compose, At, Goes, ledger, provider, TypeOK, Working
<1>6. CASE Composed
  BY <1>6, FollowingItem DEF Composed, At, ledger, provider, TypeOK, Working
<1>7. CASE ComposeFails
  BY <1>7 DEF ComposeFails, At, Goes, ledger, disk, provider, TypeOK, Working
<1>8. CASE Resume
  BY <1>8 DEF Resume, At, With, ledger, disk, provider, TypeOK, Working
<1>9. CASE Reserve
  <2>1. attempts' \in [Items -> Seq(Statuses)] /\ attempt' \in DOMAIN attempts'[item]
    BY <1>9, ReservedLedger
  <2>2. attempt' \in Nat
    BY <1>9 DEF Reserve, TypeOK
  <2> QED
    BY <1>9, <2>1, <2>2 DEF Reserve, At, disk, provider, TypeOK, Working
<1>10. CASE Refuse
  BY <1>10 DEF Refuse, At, Goes, ledger, disk, provider, TypeOK, Working
<1>11. ASSUME NEW v \in Statuses, Marks(v), pc \in Working, UNCHANGED <<item, attempt>>
       PROVE  attempts' \in [Items -> Seq(Statuses)] /\ attempt' \in DOMAIN attempts'[item']
  BY <1>11, MarkedLedger DEF TypeOK
<1>12. CASE MarkStarted
  BY <1>12, <1>11 DEF MarkStarted, Statuses, At, Goes, disk, provider, TypeOK, Working
<1>13. CASE Call
  BY <1>13 DEF Call, At, Goes, ledger, disk, TypeOK, Working
<1>14. CASE ImageComes
  BY <1>14 DEF ImageComes, At, Goes, ledger, disk, provider, TypeOK, Working
<1>15. CASE MarkSubmitted
  BY <1>15, <1>11 DEF MarkSubmitted, Statuses, At, Goes, disk, provider, TypeOK, Working
<1>16. CASE VideoComes
  BY <1>16 DEF VideoComes, At, Goes, ledger, disk, provider, TypeOK, Working
<1>17. CASE Copy
  BY <1>17 DEF Copy, At, Goes, ledger, provider, TypeOK, Working
<1>18. CASE MarkSucceeded
  <2>1. attempts' \in [Items -> Seq(Statuses)]
    BY <1>18, MarkedLedger DEF MarkSucceeded, At, Statuses, TypeOK, Working
  <2> QED
    BY <1>18, <2>1, FollowingItem DEF MarkSucceeded, At, disk, provider, TypeOK, Working
<1>19. CASE MarkFailed
  BY <1>19, <1>11 DEF MarkFailed, Statuses, At, Goes, disk, provider, TypeOK, Working
<1>20. CASE Register
  BY <1>20 DEF Register, At, Goes, ledger, provider, TypeOK, Working
<1>21. CASE ChecksFail
  BY <1>21 DEF ChecksFail, At, Goes, ledger, disk, provider, TypeOK, Working
<1>22. CASE WriteSucceeded
  BY <1>22 DEF WriteSucceeded, At, Goes, ledger, provider, TypeOK, Working
<1>23. CASE WriteFailed
  BY <1>23 DEF WriteFailed, At, Goes, ledger, provider, TypeOK, Working
<1>24. CASE Kill
  BY <1>24 DEF Kill, At, Goes, ledger, disk, provider, TypeOK, Working
<1> QED
  BY <1>1, <1>2, <1>3, <1>4, <1>5, <1>6, <1>7, <1>8, <1>9, <1>10, <1>12, <1>13, <1>14, <1>15,
     <1>16, <1>17, <1>18, <1>19, <1>20, <1>21, <1>22, <1>23, <1>24 DEF Next, Steps

(* However the process is killed and started again, its files and its       *)
(* ledger have their types, and what it works on is in the ledger.          *)
THEOREM TypeCorrect == Spec => []TypeOK
<1>1. Init => TypeOK
  BY TypeInit
<1>2. TypeOK /\ [Next]_vars => TypeOK'
  BY TypeStep
<1> QED
  BY <1>1, <1>2, PTL DEF Spec
-----------------------------------------------------------------------------
(* What the places of the process mean.  Between the reservation and the    *)
(* provider call nothing is on disk and nothing can be polled; after the    *)
(* call the attempt is open; only compositions are composed.                *)
Unpaid(i) ==
  /\ Paid(i) /\ file[i] = "none"
  /\ With(i, "submitted") = {}
  /\ Kind[i] = "image" => With(i, "succeeded") = {}

Phases ==
  /\ pc = "reserved" =>
       Unpaid(item) /\ attempts[item][attempt] = "reserved"
  /\ pc = "calling" =>
       Unpaid(item) /\ attempts[item][attempt] = "started"
  /\ pc \in {"called", "polling", "copying", "copied"} =>
       Paid(item) /\ attempts[item][attempt] \in {"started", "submitted"}
  /\ pc = "called" => attempts[item][attempt] = "started"
  /\ pc = "composing" => ~Paid(item)

(* Only videos have tasks.                                                  *)
TasksAreVideos == \A i \in Items : Kind[i] = "image" => With(i, "submitted") = {}

PhaseInv == Phases /\ TasksAreVideos

LEMMA PhaseInit == Init => PhaseInv
BY DEF Init, PhaseInv, Phases, TasksAreVideos, With

LEMMA PhaseStep ==
  ASSUME TypeOK, PhaseInv, [Next]_vars PROVE PhaseInv'
<1> DEFINE Places == {"reserved", "calling", "called", "polling", "copying", "copied", "composing"}
<1>1. ASSUME UNCHANGED attempts
      PROVE  TasksAreVideos' /\ \A i, x : With(i, x)' = With(i, x)
  BY <1>1 DEF PhaseInv, TasksAreVideos, With
<1>2. ASSUME pc' \notin Places PROVE Phases'
  BY <1>2 DEF Phases
<1>3. CASE UNCHANGED vars
  BY <1>1, <1>3 DEF vars, ledger, disk, process, PhaseInv, Phases, Unpaid, Paid
<1>4. CASE \/ Start \/ Reuse \/ LookFails \/ ComposeFails \/ Composed \/ Refuse
           \/ Register \/ ChecksFail \/ WriteSucceeded \/ WriteFailed \/ Kill
  <2>1. UNCHANGED attempts
    BY <1>4 DEF Start, Reuse, LookFails, ComposeFails, Composed, Refuse, Register, ChecksFail,
                WriteSucceeded, WriteFailed, Kill, ledger
  <2>2. pc' \notin Places
    BY <1>4 DEF Start, Reuse, LookFails, ComposeFails, Composed, Refuse, Register, ChecksFail,
                WriteSucceeded, WriteFailed, Kill, NextItem, Goes
  <2> QED
    BY <1>1, <1>2, <2>1, <2>2 DEF PhaseInv
<1>5. CASE Compose
  BY <1>1, <1>5 DEF Compose, Goes, ledger, PhaseInv, Phases, Paid
<1>6. CASE Resume
  <2>1. attempts[item][attempt'] = "submitted" /\ UNCHANGED item /\ Paid(item)
    BY <1>6 DEF Resume, With
  <2> QED
    BY <1>1, <1>6, <2>1 DEF Resume, ledger, PhaseInv, Phases, Paid
<1>7. CASE Reserve
  <2>1. UNCHANGED item /\ file' = file /\ pc' = "reserved" /\ item \in Items
    BY <1>7 DEF Reserve, disk, TypeOK
  <2>2. \A i \in Items, x \in Statuses \ {"reserved"} : With(i, x)' = With(i, x)
    BY <1>7, ReservedLedger DEF With, TypeOK
  <2>3. TasksAreVideos'
    BY <2>2 DEF TasksAreVideos, PhaseInv, Statuses
  <2>4. With(item, "submitted") = {} /\ (Kind[item] = "image" => With(item, "succeeded") = {})
    BY <1>7, <2>1 DEF Reserve, Resumes, MayReserve, Paid, PhaseInv, TasksAreVideos
  <2>5. Unpaid(item)'
    BY <1>7, <2>1, <2>2, <2>4 DEF Reserve, Unpaid, Paid, Statuses
  <2> QED
    BY <1>7, ReservedLedger, <2>1, <2>3, <2>5 DEF PhaseInv, Phases
<1>8. ASSUME NEW v \in Statuses, Marks(v), pc \in Working
      PROVE  \A i \in Items, x \in Statuses \ {v} : With(i, x)' \subseteq With(i, x)
  BY <1>8, MarkedLedger DEF With, TypeOK
<1>9. CASE MarkStarted
  <2>1. Marks("started") /\ UNCHANGED <<item, attempt, file>> /\ pc' = "calling" /\ item \in Items
    BY <1>9 DEF MarkStarted, Goes, disk, TypeOK
  <2>2. pc = "reserved" /\ pc \in Working /\ attempt \in DOMAIN attempts[item]
    BY <1>9 DEF MarkStarted, At, Working, TypeOK
  <2>3. \A i \in Items : /\ With(i, "submitted")' \subseteq With(i, "submitted")
                         /\ With(i, "succeeded")' \subseteq With(i, "succeeded")
    BY <1>8, <2>1, <2>2 DEF Statuses
  <2>4. attempts'[item][attempt] = "started"
    BY <2>1, <2>2, MarkedLedger DEF Statuses
  <2>5. TasksAreVideos'
    BY <2>3 DEF PhaseInv, TasksAreVideos
  <2>6. Unpaid(item)'
    BY <2>1, <2>2, <2>3 DEF PhaseInv, Phases, Unpaid, Paid
  <2> QED
    BY <2>1, <2>4, <2>5, <2>6 DEF PhaseInv, Phases
<1>10. CASE Call
  BY <1>1, <1>10 DEF Call, At, Goes, ledger, PhaseInv, Phases, Unpaid, Paid
<1>11. CASE ImageComes \/ VideoComes
  BY <1>1, <1>11 DEF ImageComes, VideoComes, At, Goes, ledger, PhaseInv, Phases, Paid
<1>12. CASE MarkSubmitted
  <2>1. Marks("submitted") /\ UNCHANGED <<item, attempt>> /\ pc' = "polling" /\ item \in Items
    BY <1>12 DEF MarkSubmitted, Goes, TypeOK
  <2>2. pc = "called" /\ pc \in Working /\ attempt \in DOMAIN attempts[item]
    BY <1>12 DEF MarkSubmitted, At, Working, TypeOK
  <2>3. /\ attempts'[item][attempt] = "submitted"
        /\ \A i \in Items \ {item} : attempts'[i] = attempts[i]
    BY <2>1, <2>2, MarkedLedger DEF Statuses
  <2>4. TasksAreVideos'
    BY <1>12, <2>3 DEF MarkSubmitted, PhaseInv, TasksAreVideos, With
  <2> QED
    BY <2>1, <2>2, <2>3, <2>4 DEF PhaseInv, Phases, Paid
<1>13. CASE Copy
  BY <1>1, <1>13 DEF Copy, At, Goes, ledger, PhaseInv, Phases, Paid
<1>14. CASE MarkSucceeded
  <2>1. Marks("succeeded") /\ pc \in Working /\ pc' \in {"look", "qa"}
    BY <1>14 DEF MarkSucceeded, At, NextItem, Working
  <2>2. \A i \in Items : With(i, "submitted")' \subseteq With(i, "submitted")
    BY <1>8, <2>1 DEF Statuses
  <2> QED
    BY <1>2, <2>1, <2>2 DEF PhaseInv, TasksAreVideos
<1>15. CASE MarkFailed
  <2>1. Marks("failed") /\ pc \in Working /\ pc' = "failed"
    BY <1>15 DEF MarkFailed, Goes, Working
  <2>2. \A i \in Items : With(i, "submitted")' \subseteq With(i, "submitted")
    BY <1>8, <2>1 DEF Statuses
  <2> QED
    BY <1>2, <2>1, <2>2 DEF PhaseInv, TasksAreVideos
<1> QED
  BY <1>3, <1>4, <1>5, <1>6, <1>7, <1>9, <1>10, <1>11, <1>12, <1>13, <1>14, <1>15 DEF Next, Steps

LEMMA PhasesHold == Spec => [](TypeOK /\ PhaseInv)
<1>1. Init => TypeOK /\ PhaseInv
  BY TypeInit, PhaseInit
<1>2. TypeOK /\ PhaseInv /\ [Next]_vars => TypeOK' /\ PhaseInv'
  BY TypeStep, PhaseStep
<1> QED
  BY <1>1, <1>2, PTL DEF Spec
-----------------------------------------------------------------------------
(* What a step does to the started attempts of an artifact: a reservation   *)
(* adds none, the mark before the call one, any other mark none.            *)
LEMMA StartedFinite ==
  ASSUME TypeOK, NEW i \in Items
  PROVE  IsFiniteSet(Started(i)) /\ Cardinality(Started(i)) \in Nat
<1>1. attempts[i] \in Seq(Statuses)
  BY DEF TypeOK
<1>2. DOMAIN attempts[i] = 1 .. Len(attempts[i]) /\ Len(attempts[i]) \in Nat
  BY <1>1
<1>3. IsFiniteSet(1 .. Len(attempts[i]))
  <2>1. 1 \in Int /\ Len(attempts[i]) \in Int
    BY <1>2
  <2> QED
    BY <2>1, FS_Interval
<1>4. Started(i) \subseteq 1 .. Len(attempts[i])
  BY <1>2 DEF Started
<1>5. IsFiniteSet(Started(i))
  BY <1>3, <1>4, FS_Subset
<1> QED
  BY <1>5, FS_CardinalityType

LEMMA StartedReserve ==
  ASSUME TypeOK, Reserve PROVE \A i \in Items : Started(i)' = Started(i)
BY ReservedLedger DEF Started, TypeOK

LEMMA StartedStart ==
  ASSUME TypeOK, PhaseInv, MarkStarted
  PROVE  /\ Started(item)' = Started(item) \cup {attempt}
         /\ attempt \notin Started(item)
         /\ \A i \in Items \ {item} : Started(i)' = Started(i)
<1>1. Marks("started") /\ pc = "reserved" /\ attempt \in DOMAIN attempts[item]
  BY DEF MarkStarted, At, TypeOK, Working
<1>2. attempts[item][attempt] = "reserved"
  BY <1>1 DEF PhaseInv, Phases
<1> QED
  BY <1>1, <1>2, MarkedLedger DEF Started, Statuses, MarkStarted, Goes

LEMMA StartedOther ==
  ASSUME TypeOK, PhaseInv, MarkSubmitted \/ MarkSucceeded \/ MarkFailed
  PROVE  \A i \in Items : Started(i)' = Started(i)
<1>1. pc \in Working \ {"reserved"} /\ attempt \in DOMAIN attempts[item]
  BY DEF MarkSubmitted, MarkSucceeded, MarkFailed, At, TypeOK, Working
<1>2. attempts[item][attempt] # "reserved"
  BY <1>1 DEF PhaseInv, Phases, Working
<1>3. PICK v \in Statuses \ {"reserved"} : Marks(v)
  BY DEF MarkSubmitted, MarkSucceeded, MarkFailed, Statuses
<1> QED
  BY <1>1, <1>2, <1>3, MarkedLedger DEF Started

(* The steps that leave the ledger as it is.                                *)
Elsewhere ==
  \/ Start \/ Reuse \/ LookFails \/ Compose \/ Composed \/ ComposeFails \/ Resume \/ Refuse
  \/ ImageComes \/ VideoComes \/ Copy \/ Register \/ ChecksFail
  \/ WriteSucceeded \/ WriteFailed \/ Kill \/ UNCHANGED vars

LEMMA StepKinds ==
  [Next]_vars => Elsewhere \/ Reserve \/ MarkStarted \/ Call
                 \/ MarkSubmitted \/ MarkSucceeded \/ MarkFailed
BY DEF Next, Steps, Elsewhere

LEMMA ElsewhereKeeps ==
  Elsewhere => \/ UNCHANGED <<ledger, provider>> /\ pc' \notin {"reserved", "calling"}
               \/ UNCHANGED vars
BY DEF Elsewhere, Start, Reuse, LookFails, Compose, Composed, ComposeFails, Resume, Refuse,
       ImageComes, VideoComes, Copy, Register, ChecksFail, WriteSucceeded, WriteFailed, Kill,
       NextItem, Goes
-----------------------------------------------------------------------------
(* Spending: between the reservation and the mark the limits leave room,    *)
(* between the mark and the call the ledger is one ahead of the provider.   *)
Limits(i) ==
  /\ calls[i] <= Cardinality(Started(i))
  /\ Cardinality(Started(i)) <= Starts[i]

SpendingInv ==
  /\ charged <= paid /\ paid <= MaxPaid
  /\ \A i \in Items : Limits(i)
  /\ pc = "reserved" => paid < MaxPaid /\ Cardinality(Started(item)) < Starts[item]
  /\ pc = "calling" => charged < paid /\ calls[item] < Cardinality(Started(item))

LEMMA SpendingInit == Init => SpendingInv
<1> SUFFICES ASSUME Init PROVE SpendingInv
  OBVIOUS
<1>1. \A i \in Items : Started(i) = {}
  BY DEF Init, Started
<1>2. \A i \in Items : Cardinality(Started(i)) = 0 /\ calls[i] = 0
  BY <1>1, FS_EmptySet DEF Init
<1>3. \A i \in Items : Starts[i] \in Nat \ {0}
  BY AdaptiveConstants
<1> QED
  BY <1>2, <1>3, AdaptiveConstants DEF Init, SpendingInv, Limits

LEMMA SpendingStep ==
  ASSUME TypeOK, PhaseInv, SpendingInv, [Next]_vars PROVE SpendingInv'
<1>1. /\ paid \in Nat /\ charged \in Nat /\ MaxPaid \in Nat /\ item \in Items
      /\ \A i \in Items : /\ calls[i] \in Nat /\ Starts[i] \in Nat
                          /\ Cardinality(Started(i)) \in Nat
  BY AdaptiveConstants, StartedFinite DEF TypeOK
<1>2. ASSUME UNCHANGED attempts PROVE \A i : Started(i)' = Started(i)
  BY <1>2 DEF Started
<1>3. CASE Elsewhere
  <2>1. UNCHANGED <<ledger, provider>>
    BY <1>3, ElsewhereKeeps DEF vars
  <2>2. UNCHANGED vars \/ pc' \notin {"reserved", "calling"}
    BY <1>3, ElsewhereKeeps
  <2>3. UNCHANGED vars => pc' = pc /\ item' = item
    BY DEF vars, process
  <2> QED
    BY <1>2, <2>1, <2>2, <2>3 DEF ledger, provider, SpendingInv, Limits
<1>4. CASE Reserve
  <2>1. /\ pc' = "reserved" /\ UNCHANGED <<item, paid, calls, charged>>
        /\ paid < MaxPaid /\ Cardinality(Started(item)) < Starts[item]
    BY <1>4 DEF Reserve, MayReserve, provider
  <2> QED
    BY <1>1, <1>4, <2>1, StartedReserve DEF SpendingInv, Limits
<1>5. CASE MarkStarted
  <2>1. /\ pc = "reserved" /\ pc' = "calling" /\ paid' = paid + 1
        /\ UNCHANGED <<item, calls, charged>>
    BY <1>5 DEF MarkStarted, At, Goes, provider
  <2>2. Cardinality(Started(item)') = Cardinality(Started(item)) + 1
    BY <1>1, <1>5, StartedStart, StartedFinite, FS_AddElement
  <2>3. \A i \in Items \ {item} : Started(i)' = Started(i)
    BY <1>5, StartedStart
  <2>4. Limits(item)'
    BY <1>1, <2>1, <2>2 DEF SpendingInv, Limits
  <2>5. \A i \in Items \ {item} : Limits(i)'
    BY <2>1, <2>3 DEF SpendingInv, Limits
  <2> QED
    BY <1>1, <2>1, <2>2, <2>4, <2>5 DEF SpendingInv, Limits
<1>6. CASE Call
  <2>1. /\ pc = "calling" /\ pc' = "called" /\ UNCHANGED <<item, paid>>
        /\ calls' = [calls EXCEPT ![item] = @ + 1] /\ charged' = charged + 1
    BY <1>6 DEF Call, At, Goes, ledger
  <2>2. \A i \in Items : Started(i)' = Started(i)
    BY <1>2, <1>6 DEF Call, ledger
  <2>3. \A i \in Items : calls'[i] = IF i = item THEN calls[i] + 1 ELSE calls[i]
    BY <2>1 DEF TypeOK
  <2> QED
    BY <1>1, <2>1, <2>2, <2>3 DEF SpendingInv, Limits
<1>7. CASE MarkSubmitted \/ MarkSucceeded \/ MarkFailed
  <2>1. UNCHANGED <<paid, calls, charged>> /\ pc' \notin {"reserved", "calling"}
    BY <1>7 DEF MarkSubmitted, MarkSucceeded, MarkFailed, Goes, NextItem, provider
  <2> QED
    BY <1>7, <2>1, StartedOther DEF SpendingInv, Limits
<1> QED
  BY <1>3, <1>4, <1>5, <1>6, <1>7, StepKinds

(* However often a production is killed and started again, every call that  *)
(* may be charged is in the ledger before it is made, and neither the limit *)
(* of the profile nor that of the artifact is exceeded.                     *)
THEOREM SpendingIsBounded == Spec => []SpendingBounded
<1>1. Init => SpendingInv
  BY SpendingInit
<1>2. (TypeOK /\ PhaseInv) /\ SpendingInv /\ [Next]_vars => SpendingInv'
  BY SpendingStep
<1>3. TypeOK /\ SpendingInv => SpendingBounded
  <2> SUFFICES ASSUME TypeOK, SpendingInv PROVE SpendingBounded
    OBVIOUS
  <2>1. \A i \in Items : /\ calls[i] \in Nat /\ Starts[i] \in Nat
                        /\ Cardinality(Started(i)) \in Nat
    BY AdaptiveConstants, StartedFinite DEF TypeOK
  <2> QED
    BY <2>1 DEF SpendingInv, SpendingBounded, Limits
<1> QED
  BY <1>1, <1>2, <1>3, PhasesHold, PTL DEF Spec

(* No call is made for what is on disk, has succeeded or can be polled.     *)
THEOREM NothingPaidInVain == Spec => NoCallInVain
<1> DEFINE Vain(i) == calls'[i] # calls[i] =>
                        /\ file[i] = "none"
                        /\ With(i, "submitted") = {}
                        /\ Kind[i] = "image" => With(i, "succeeded") = {}
<1>1. ASSUME TypeOK, PhaseInv, [Next]_vars PROVE \A i \in Items : Vain(i)
  <2>1. CASE Call
    <3>1. Unpaid(item)
      BY <1>1, <2>1 DEF Call, At, PhaseInv, Phases
    <3>2. \A i \in Items \ {item} : calls'[i] = calls[i]
      BY <1>1, <2>1 DEF Call, TypeOK
    <3> QED
      BY <3>1, <3>2 DEF Unpaid
  <2>2. ASSUME ~Call PROVE UNCHANGED calls
    BY <1>1, <2>2, StepKinds, ElsewhereKeeps
       DEF Reserve, MarkStarted, MarkSubmitted, MarkSucceeded, MarkFailed, provider, vars
  <2> QED
    BY <2>1, <2>2
<1>2. TypeOK /\ PhaseInv /\ [Next]_vars => [\A i \in Items : Vain(i)]_vars
  BY <1>1
<1> QED
  BY <1>2, PhasesHold, PTL DEF Spec, NoCallInVain

(* Attempts are kept, closed ones stay closed, started ones stay started.   *)
THEOREM LedgerOnlyGrows == Spec => AttemptsKept
<1> DEFINE Kept(i) ==
      \A k \in DOMAIN attempts[i] :
        /\ k \in DOMAIN attempts'[i]
        /\ attempts[i][k] \in {"failed", "succeeded"} => attempts'[i][k] = attempts[i][k]
        /\ attempts[i][k] # "reserved" => attempts'[i][k] # "reserved"
<1>1. ASSUME TypeOK, PhaseInv, [Next]_vars PROVE \A i \in Items : Kept(i)
  <2>1. CASE Elsewhere \/ Call
    <3>1. UNCHANGED attempts
      BY <2>1, ElsewhereKeeps DEF Call, ledger, vars
    <3> QED
      BY <3>1
  <2>2. CASE Reserve
    BY <1>1, <2>2, ReservedLedger DEF TypeOK
  <2>3. CASE MarkStarted \/ MarkSubmitted \/ MarkSucceeded \/ MarkFailed
    <3>1. pc \in Working /\ attempt \in DOMAIN attempts[item]
      BY <1>1, <2>3 DEF MarkStarted, MarkSubmitted, MarkSucceeded, MarkFailed, At, TypeOK, Working
    <3>2. attempts[item][attempt] \in {"reserved", "started", "submitted"}
      BY <1>1, <3>1 DEF PhaseInv, Phases, Working
    <3>3. PICK v \in Statuses \ {"reserved"} : Marks(v)
      BY <2>3 DEF MarkStarted, MarkSubmitted, MarkSucceeded, MarkFailed, Statuses
    <3> QED
      BY <1>1, <3>1, <3>2, <3>3, MarkedLedger DEF TypeOK
  <2> QED
    BY <1>1, <2>1, <2>2, <2>3, StepKinds
<1>2. TypeOK /\ PhaseInv /\ [Next]_vars => [\A i \in Items : Kept(i)]_vars
  BY <1>1
<1> QED
  BY <1>2, PhasesHold, PTL DEF Spec, AttemptsKept
-----------------------------------------------------------------------------
(* Delivery: whatever paid artifact is there has a started attempt.         *)
FilesAccounted == \A i \in Items : file[i] = "ready" /\ Paid(i) => Started(i) # {}

DeliveryInv ==
  /\ FilesAccounted
  /\ delivered => \A i \in Items : file[i] = "ready"
  /\ state = "succeeded" => delivered
  /\ pc = "registered" => delivered

LEMMA StartedKept ==
  ASSUME TypeOK, PhaseInv, [Next]_vars
  PROVE  \A i \in Items : Started(i) \subseteq Started(i)'
<1>1. CASE Elsewhere \/ Call
  <2>1. UNCHANGED attempts
    BY <1>1, ElsewhereKeeps DEF Call, ledger, vars
  <2> QED
    BY <2>1 DEF Started
<1>2. CASE Reserve \/ MarkSubmitted \/ MarkSucceeded \/ MarkFailed
  BY <1>2, StartedReserve, StartedOther
<1>3. CASE MarkStarted
  <2>1. Started(item) \subseteq Started(item)'
    BY <1>3, StartedStart
  <2>2. \A i \in Items \ {item} : Started(i)' = Started(i)
    BY <1>3, StartedStart
  <2>3. UNCHANGED item
    BY <1>3 DEF MarkStarted, Goes
  <2>4. ASSUME NEW i \in Items PROVE Started(i) \subseteq Started(i)'
    <3>1. CASE i = item
      BY <2>1, <2>3, <3>1 DEF Started
    <3> QED
      BY <2>2, <3>1
  <2> QED
    BY <2>4
<1> QED
  BY <1>1, <1>2, <1>3, StepKinds

LEMMA DeliveryStep ==
  ASSUME TypeOK, PhaseInv, DeliveryInv, [Next]_vars PROVE DeliveryInv'
<1>1. \A i \in Items : Started(i) # {} => Started(i)' # {}
  BY StartedKept
<1>2. CASE Copy
  <2>1. pc = "copying" /\ pc' = "copied" /\ file' = [file EXCEPT ![item] = "ready"]
        /\ UNCHANGED <<state, delivered>>
    BY <1>2 DEF Copy, At, Goes
  <2>2. attempt \in Started(item)
    BY <2>1 DEF TypeOK, Working, PhaseInv, Phases, Started
  <2>3. \A i \in Items : file'[i] = IF i = item THEN "ready" ELSE file[i]
    BY <2>1 DEF TypeOK
  <2>4. FilesAccounted'
    BY <1>1, <2>2, <2>3 DEF DeliveryInv, FilesAccounted, Paid
  <2> QED
    BY <2>1, <2>3, <2>4 DEF DeliveryInv
<1>3. CASE Compose
  <2>1. pc' = "composing" /\ file[item] = "none" /\ file' = [file EXCEPT ![item] = "partial"]
        /\ UNCHANGED <<state, delivered>> /\ item \in Items
    BY <1>3 DEF Compose, Goes, TypeOK
  <2>2. \A i \in Items : file'[i] = IF i = item THEN "partial" ELSE file[i]
    BY <2>1 DEF TypeOK
  <2>3. ~delivered
    BY <2>1 DEF DeliveryInv
  <2>4. FilesAccounted'
    BY <1>1, <2>2 DEF DeliveryInv, FilesAccounted, Paid
  <2> QED
    BY <2>1, <2>3, <2>4 DEF DeliveryInv
<1>4. CASE Composed
  <2>1. pc = "composing" /\ pc' \in {"look", "qa"} /\ file' = [file EXCEPT ![item] = "ready"]
        /\ UNCHANGED <<state, delivered>>
    BY <1>4 DEF Composed, At, NextItem
  <2>2. \A i \in Items : file'[i] = IF i = item THEN "ready" ELSE file[i]
    BY <2>1 DEF TypeOK
  <2>3. ~Paid(item)
    BY <2>1 DEF PhaseInv, Phases
  <2>4. FilesAccounted'
    BY <1>1, <2>2, <2>3 DEF DeliveryInv, FilesAccounted, Paid
  <2> QED
    BY <2>1, <2>2, <2>4 DEF DeliveryInv
<1>5. ASSUME UNCHANGED file PROVE FilesAccounted'
  BY <1>1, <1>5 DEF DeliveryInv, FilesAccounted, Paid
<1>6. CASE Register
  BY <1>5, <1>6 DEF Register, Goes, Whole, DeliveryInv
<1>7. CASE Start \/ WriteSucceeded \/ WriteFailed
  BY <1>5, <1>7 DEF Start, WriteSucceeded, WriteFailed, At, Goes, DeliveryInv
<1>8. CASE UNCHANGED vars
  BY <1>5, <1>8 DEF vars, disk, process, DeliveryInv
<1>9. CASE \/ Reuse \/ LookFails \/ ComposeFails \/ Resume \/ Reserve \/ Refuse \/ MarkStarted
           \/ Call \/ ImageComes \/ MarkSubmitted \/ VideoComes \/ MarkSucceeded \/ MarkFailed
           \/ ChecksFail \/ Kill
  <2>1. UNCHANGED disk /\ pc' # "registered"
    BY <1>9 DEF Reuse, LookFails, ComposeFails, Resume, Reserve, Refuse, MarkStarted, Call,
                ImageComes, MarkSubmitted, VideoComes, MarkSucceeded, MarkFailed, ChecksFail,
                Kill, NextItem, Goes
  <2> QED
    BY <1>5, <2>1 DEF disk, DeliveryInv
<1> QED
  BY <1>2, <1>3, <1>4, <1>6, <1>7, <1>8, <1>9 DEF Next, Steps

(* A run that says succeeded is delivered, and a delivery is complete and   *)
(* has a started attempt in the ledger for each paid artifact.              *)
THEOREM DeliveryIsAccounted == Spec => []DeliveryAccounted
<1>1. Init => DeliveryInv
  BY DEF Init, DeliveryInv, FilesAccounted
<1>2. (TypeOK /\ PhaseInv) /\ DeliveryInv /\ [Next]_vars => DeliveryInv'
  BY DeliveryStep
<1>3. DeliveryInv => DeliveryAccounted
  BY DEF DeliveryInv, DeliveryAccounted, FilesAccounted
<1> QED
  BY <1>1, <1>2, <1>3, PhasesHold, PTL DEF Spec
=============================================================================
