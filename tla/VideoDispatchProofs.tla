------------------------ MODULE VideoDispatchProofs ------------------------
(***************************************************************************)
(* What VideoDispatch keeps for any number of lanes, jobs and rounds, with *)
(* handlers and commands that may end between any two writes.              *)
(***************************************************************************)
EXTENDS VideoDispatch, FiniteSetTheorems, TLAPS

USE DEF At, LaneOf, Free

-----------------------------------------------------------------------------
(* The inductive invariant.                                                *)

(* The manifests of a lane: the present one and those of its past.          *)
Records(l) == history[l] \cup ({manifest[l]} \ {None})

(* What a command between two writes has seen stays so while it has the     *)
(* lane's lock.                                                             *)
Holding ==
  \A l \in Lanes :
    /\ command[l] = "reserving" => Is(l, {"planned"})
    /\ command[l] = "recording" => Is(l, {"processing"})
    /\ command[l] = "approving" => Is(l, {"candidate"}) /\ ApprovedNode(l) \in graph[l]
    /\ command[l] = "switching" => manifest[l] \in history[l] /\ manifest[l].round < MaxRounds

(* A round is archived once; the present round may be in the archive, as    *)
(* it was before a switch that came to nothing.                             *)
Archived ==
  \A l \in Lanes :
    /\ \A m, n \in history[l] : m.round = n.round => m = n
    /\ \A m \in history[l] :
         /\ manifest[l] # None
         /\ m.round <= manifest[l].round
         /\ m.round = manifest[l].round => /\ m.job # None => m.job = manifest[l].job
                                           /\ m.sent => manifest[l].sent
    /\ manifest[l] # None => \A r \in 1 .. manifest[l].round - 1 : \E m \in history[l] : m.round = r

BeforeClaim == {"free", "asked", "prepared"}

(* The job a manifest names was submitted for this lane and this round, and *)
(* has made its claim.                                                      *)
Owned ==
  \A l \in Lanes : \A m \in Records(l) : m.job # None =>
    /\ LaneOf(m.job) = l /\ job[m.job].round = m.round
    /\ job[m.job].phase \notin BeforeClaim

(* The ledger of the job's round says that it may have been sent.           *)
MarkedSent(j) == \E m \in Records(LaneOf(j)) : m.round = job[j].round /\ m.job = j /\ m.sent

(* A handler writes the ledger and then the outbox before it calls.         *)
Submitting ==
  \A j \in Jobs :
    /\ job[j].phase \notin BeforeClaim \cup {"claimed", "done"} => MarkedSent(j)
    /\ job[j].phase \notin BeforeClaim \cup {"claimed", "marked", "done"} =>
         outbox[j].state \notin {"none", "prepared"}
    /\ Called(j) => /\ job[j].phase \notin BeforeClaim \cup {"claimed", "marked"}
                    /\ outbox[j].state \notin {"none", "prepared"}
                    /\ MarkedSent(j)

(* What the graph shows belongs to a submission of the very round.          *)
GraphOwned ==
  \A l \in Lanes : \A n \in graph[l] :
    /\ n.job \in media
    /\ LaneOf(n.job) = l /\ job[n.job].round = n.round /\ job[n.job].phase # "free"

(* What a manifest calls a candidate, or approved, is in the graph.         *)
Shown(l, m) ==
  /\ m.state \in {"candidate", "approved", "rejected"} =>
       [kind |-> "candidate", round |-> m.round, job |-> m.candidate] \in graph[l]
  /\ m.state = "approved" =>
       [kind |-> "approved", round |-> m.round, job |-> m.candidate] \in graph[l]

LedgerShown == \A l \in Lanes : \A m \in Records(l) : Shown(l, m)

Inv == TypeOK /\ Holding /\ Archived /\ Owned /\ Submitting /\ GraphOwned /\ LedgerShown
-----------------------------------------------------------------------------
(* How a step changes the manifests.                                       *)

ManifestKept(l) == manifest'[l] = manifest[l] /\ history'[l] = history[l]

IsCompiled(l) ==
  /\ manifest[l] = None /\ manifest'[l] = NewRound(l, 1) /\ UNCHANGED <<history, job, graph>>
  /\ Free(l) /\ UNCHANGED command

IsArchived(l) ==
  /\ manifest[l] # None /\ UNCHANGED <<manifest, job, graph>>
  /\ manifest[l].round < MaxRounds
  /\ \A m \in history[l] : m.round = manifest[l].round => m = manifest[l]
  /\ history'[l] = history[l] \cup {manifest[l]}
  /\ Free(l) /\ command'[l] = "switching"

IsReplaced(l) ==
  /\ command[l] = "switching" /\ command'[l] = "none"
  /\ manifest'[l] = NewRound(l, manifest[l].round + 1) /\ UNCHANGED <<history, job, graph>>

(* The present manifest is written again: a job that is not its own comes   *)
(* by its claim only.                                                       *)
IsUpdated(l) ==
  /\ manifest[l] # None /\ manifest'[l] # None
  /\ manifest'[l].round = manifest[l].round
  /\ manifest[l].sent => manifest'[l].sent
  /\ UNCHANGED <<history, graph>>
  /\ \/ UNCHANGED command /\ Free(l)
     \/ command'[l] = "none" /\ command[l] # "switching"
  /\ \/ manifest'[l].job = manifest[l].job
     \/ /\ manifest[l].job = None
        /\ LET j == manifest'[l].job IN
           /\ j \in Jobs /\ job[j].phase = "prepared" /\ LaneOf(j) = l
           /\ job[j].round = manifest[l].round
           /\ job'[j].phase = "claimed" /\ job'[j].lane = l /\ job'[j].round = job[j].round
  /\ \/ Shown(l, manifest'[l]) /\ Is(l, {"candidate", "processing"})
     \/ manifest'[l].state \notin {"candidate", "approved", "rejected"}

ManifestChanges ==
  \/ UNCHANGED <<manifest, history>>
  \/ \E l \in Lanes :
       /\ \A k \in Lanes \ {l} : ManifestKept(k) /\ command'[k] = command[k]
       /\ manifest'[l] \in Manifest /\ WellFormed(manifest'[l])
       /\ IsCompiled(l) \/ IsArchived(l) \/ IsReplaced(l) \/ IsUpdated(l)

LEMMA MovesTo ==
  ASSUME TypeOK, NEW l \in Lanes, NEW state \in ItemStates, manifest[l] # None, Moves(l, state)
  PROVE  /\ manifest' \in [Lanes -> Manifest \cup {None}]
         /\ manifest'[l] \in Manifest /\ manifest'[l].state = state
         /\ manifest'[l].round = manifest[l].round /\ manifest'[l].job = manifest[l].job
         /\ manifest'[l].sent = manifest[l].sent /\ manifest'[l].known = manifest[l].known
         /\ manifest'[l].candidate = manifest[l].candidate
         /\ \A k \in Lanes \ {l} : manifest'[k] = manifest[k]
  <1>1. manifest[l] \in Manifest
    BY DEF TypeOK
  <1>2. [manifest[l] EXCEPT !.state = state] \in Manifest
    BY <1>1 DEF Manifest
  <1>3. manifest'[l] = [manifest[l] EXCEPT !.state = state]
    BY DEF Moves, TypeOK
  <1> QED
    BY <1>1, <1>2, <1>3 DEF Moves, TypeOK, Manifest

LEMMA NewRoundType ==
  ASSUME TypeOK, NEW l \in Lanes, NEW r \in Rounds
  PROVE  NewRound(l, r) \in Manifest /\ WellFormed(NewRound(l, r))
  BY DEF TypeOK, NewRound, Manifest, ItemStates, WellFormed

LEMMA PresentType ==
  ASSUME TypeOK, NEW l \in Lanes, manifest[l] # None
  PROVE  manifest[l] \in Manifest /\ WellFormed(manifest[l])
  BY DEF TypeOK

LEMMA NextCases ==
  ASSUME Next
  PROVE  \/ \E l \in Lanes : Commands(l) \/ ChangeSource(l)
         \/ \E j \in Jobs : Submission(j) \/ Polling(j) \/ ProviderAccepts(j)
         \/ \E j \in Jobs, r \in {"good", "empty"} : ProviderFinishes(j, r)
  BY DEF Next

LEMMA CommandsChangeManifests ==
  ASSUME Inv, NEW l \in Lanes, Commands(l)
  PROVE  ManifestChanges
  <1> USE DEF Inv, ManifestChanges, ManifestKept
  <1>0. manifest[l] # None => manifest[l] \in Manifest /\ WellFormed(manifest[l])
    BY PresentType
  <1>1. ASSUME Compile(l) PROVE ManifestChanges
    <2>1. manifest'[l] = NewRound(l, 1) /\ \A k \in Lanes \ {l} : manifest'[k] = manifest[k]
      BY <1>1 DEF Compile, TypeOK
    <2>2. 1 \in Rounds
      BY VideoConstants DEF Rounds
    <2> QED
      BY <1>1, <2>1, <2>2, NewRoundType DEF Compile, IsCompiled
  <1>2. ASSUME CheckReserve(l) \/ Promote(l) \/ CrashCommand(l) PROVE ManifestChanges
    BY <1>2 DEF CheckReserve, Promote, CrashCommand
  <1>3. ASSUME NEW j \in Jobs, ProjectCandidate(l, j) PROVE ManifestChanges
    BY <1>3 DEF ProjectCandidate, Projects
  <1>4. ASSUME WriteReserve(l) PROVE ManifestChanges
    <2>1. Is(l, {"planned"}) /\ Moves(l, "reserved")
      BY <1>4 DEF WriteReserve, Holding
    <2>2. command'[l] = "none" /\ \A k \in Lanes \ {l} : command'[k] = command[k]
      BY <1>4 DEF WriteReserve, TypeOK
    <2> QED
      BY <1>0, <1>4, <2>1, <2>2, MovesTo, NoneIsNoManifest
         DEF WriteReserve, Is, IsUpdated, ItemStates, WellFormed
  <1>5. ASSUME RecordFailure(l) PROVE ManifestChanges
    <2>1. Is(l, {"processing", "reserved"}) /\ Moves(l, "failed")
      BY <1>5 DEF RecordFailure, Is
    <2> QED
      BY <1>0, <1>5, <2>1, MovesTo, NoneIsNoManifest
         DEF RecordFailure, Is, IsUpdated, ItemStates, WellFormed
  <1>6. ASSUME WriteCandidate(l) PROVE ManifestChanges
    <2>0. Is(l, {"processing"})
      BY <1>6 DEF WriteCandidate, Holding
    <2>1. PICK j \in Jobs :
            /\ CandidateNode(l, j) \in graph[l]
            /\ manifest' = [manifest EXCEPT ![l].state = "candidate", ![l].candidate = j]
      BY <1>6 DEF WriteCandidate
    <2>2. command'[l] = "none" /\ \A k \in Lanes \ {l} : command'[k] = command[k]
      BY <1>6 DEF WriteCandidate, TypeOK
    <2>3. manifest'[l] = [manifest[l] EXCEPT !.state = "candidate", !.candidate = j]
          /\ \A k \in Lanes \ {l} : manifest'[k] = manifest[k]
      BY <2>1 DEF TypeOK
    <2>4. manifest'[l] \in Manifest
      BY <1>0, <2>0, <2>3 DEF Is, Manifest, ItemStates
    <2>5. /\ manifest'[l].state = "candidate" /\ manifest'[l].candidate = j
          /\ manifest'[l].round = manifest[l].round /\ manifest'[l].job = manifest[l].job
          /\ manifest'[l].sent = manifest[l].sent /\ manifest'[l].known = manifest[l].known
      BY <1>0, <2>0, <2>3 DEF Is, Manifest
    <2>6. WellFormed(manifest'[l])
      BY <1>0, <2>0, <2>5, VideoConstants DEF Is, WellFormed
    <2>7. Shown(l, manifest'[l])
      BY <2>1, <2>5 DEF Shown, CandidateNode
    <2> QED
      BY <1>6, <2>0, <2>2, <2>3, <2>4, <2>5, <2>6, <2>7, NoneIsNoManifest DEF WriteCandidate, Is, IsUpdated
  <1>7. ASSUME WriteApproval(l) PROVE ManifestChanges
    <2>1. Is(l, {"candidate"}) /\ Moves(l, "approved") /\ ApprovedNode(l) \in graph[l]
      BY <1>7 DEF WriteApproval, Holding
    <2>2. command'[l] = "none" /\ \A k \in Lanes \ {l} : command'[k] = command[k]
      BY <1>7 DEF WriteApproval, TypeOK
    <2>3. Shown(l, manifest[l])
      BY <2>1, NoneIsNoManifest DEF Is, LedgerShown, Records
    <2>4. Shown(l, manifest'[l])
      BY <2>1, <2>3, MovesTo DEF Is, Shown, ApprovedNode, ItemStates
    <2> QED
      BY <1>0, <1>7, <2>1, <2>2, <2>4, MovesTo, NoneIsNoManifest
         DEF WriteApproval, Is, IsUpdated, ItemStates, WellFormed
  <1>8. ASSUME ReconcileApproval(l) PROVE ManifestChanges
    <2>1. Is(l, {"candidate"}) /\ Moves(l, "approved") /\ ApprovedNode(l) \in graph[l]
      BY <1>8 DEF ReconcileApproval
    <2>3. Shown(l, manifest[l])
      BY <2>1, NoneIsNoManifest DEF Is, LedgerShown, Records
    <2>4. Shown(l, manifest'[l])
      BY <2>1, <2>3, MovesTo DEF Is, Shown, ApprovedNode, ItemStates
    <2> QED
      BY <1>0, <1>8, <2>1, <2>4, MovesTo, NoneIsNoManifest
         DEF ReconcileApproval, Is, IsUpdated, ItemStates, WellFormed
  <1>9. ASSUME Reject(l) PROVE ManifestChanges
    <2>1. Is(l, {"candidate"}) /\ Moves(l, "rejected")
      BY <1>9 DEF Reject
    <2>3. Shown(l, manifest[l])
      BY <2>1, NoneIsNoManifest DEF Is, LedgerShown, Records
    <2>4. Shown(l, manifest'[l])
      BY <2>1, <2>3, MovesTo DEF Is, Shown, ItemStates
    <2> QED
      BY <1>0, <1>9, <2>1, <2>4, MovesTo, NoneIsNoManifest
         DEF Reject, Is, IsUpdated, ItemStates, WellFormed
  <1>10. ASSUME Archive(l) PROVE ManifestChanges
    <2>1. manifest[l] # None
      BY <1>10 DEF Archive, MayRecompile, MayRetry, MayCompare, MayGoOn, Recoverable, Is
    <2>2. history'[l] = history[l] \cup {manifest[l]} /\ \A k \in Lanes \ {l} : history'[k] = history[k]
      BY <1>10 DEF Archive, TypeOK
    <2>3. command'[l] = "switching" /\ \A k \in Lanes \ {l} : command'[k] = command[k]
      BY <1>10 DEF Archive, TypeOK
    <2> QED
      BY <1>0, <1>10, <2>1, <2>2, <2>3 DEF Archive, IsArchived
  <1>11. ASSUME WriteRound(l) PROVE ManifestChanges
    <2>1. manifest[l] # None /\ manifest[l].round < MaxRounds
      BY <1>11 DEF WriteRound, Holding, TypeOK
    <2>2. manifest[l].round + 1 \in Rounds
      BY <1>0, <2>1, VideoConstants DEF Manifest, Rounds
    <2>3. manifest'[l] = NewRound(l, manifest[l].round + 1)
          /\ \A k \in Lanes \ {l} : manifest'[k] = manifest[k]
      BY <1>11 DEF WriteRound, TypeOK
    <2>4. command'[l] = "none" /\ \A k \in Lanes \ {l} : command'[k] = command[k]
      BY <1>11 DEF WriteRound, TypeOK
    <2> QED
      BY <1>11, <2>2, <2>3, <2>4, NewRoundType DEF WriteRound, IsReplaced
  <1> QED
    BY <1>1, <1>2, <1>3, <1>4, <1>5, <1>6, <1>7, <1>8, <1>9, <1>10, <1>11 DEF Commands

(* A manifest that the handler of a job writes again.                       *)
LEMMA ClaimedType ==
  ASSUME NEW m \in Manifest, NEW j \in Jobs, NEW n,
         n = [m EXCEPT !.state = "dispatch_prepared", !.job = j]
  PROVE  /\ n \in Manifest
         /\ n.state = "dispatch_prepared" /\ n.round = m.round /\ n.candidate = m.candidate
         /\ n.job = j /\ n.sent = m.sent /\ n.known = m.known
  BY DEF Manifest, ItemStates

LEMMA MarkedType ==
  ASSUME NEW m \in Manifest, NEW state \in ItemStates, NEW n,
         n = [m EXCEPT !.state = state, !.sent = TRUE]
  PROVE  /\ n \in Manifest
         /\ n.state = state /\ n.round = m.round /\ n.candidate = m.candidate
         /\ n.job = m.job /\ n.sent
  BY DEF Manifest

LEMMA NotedType ==
  ASSUME NEW m \in Manifest, NEW state \in ItemStates, NEW n,
         n = [m EXCEPT !.state = state, !.known = TRUE]
  PROVE  /\ n \in Manifest
         /\ n.state = state /\ n.round = m.round /\ n.candidate = m.candidate
         /\ n.job = m.job /\ n.sent = m.sent
  BY DEF Manifest

LEMMA SubmissionsChangeManifests ==
  ASSUME Inv, NEW j \in Jobs, Submission(j)
  PROVE  ManifestChanges
  <1>9. TypeOK /\ Owned /\ Archived /\ Submitting
    BY DEF Inv
  <1>10. PICK l \in Lanes : l = job[j].lane
    BY <1>9 DEF TypeOK
  <1>0. (manifest[l] # None => manifest[l] \in Manifest /\ WellFormed(manifest[l]))
        /\ job[j].round \in Rounds
    BY <1>9, PresentType DEF TypeOK
  <1>1. ASSUME Claim(j) PROVE ManifestChanges
    <2>1. manifest[l] # None /\ manifest[l].state = "reserved" /\ manifest[l].round = job[j].round
          /\ Free(l) /\ job[j].phase = "prepared"
          /\ manifest' = [manifest EXCEPT ![l].state = "dispatch_prepared", ![l].job = j]
          /\ job' = [job EXCEPT ![j].phase = "claimed"] /\ UNCHANGED <<history, source, graph, command>>
      BY <1>1, <1>10 DEF Claim, Claims, Goes, Enforced, Is
    <2>2. manifest'[l] = [manifest[l] EXCEPT !.state = "dispatch_prepared", !.job = j]
          /\ \A k \in Lanes \ {l} : manifest'[k] = manifest[k]
      BY <1>9, <1>0, <2>1 DEF TypeOK
    <2>9. manifest[l] \in Manifest
      BY <1>0, <2>1
    <2>3. manifest'[l] \in Manifest
      BY <2>2, <2>9, ClaimedType DEF ItemStates
    <2>4. /\ manifest'[l].state = "dispatch_prepared" /\ manifest'[l].job = j
          /\ manifest'[l].round = manifest[l].round /\ manifest'[l].candidate = manifest[l].candidate
          /\ manifest'[l].sent = manifest[l].sent /\ manifest'[l].known = manifest[l].known
      BY <2>2, <2>9 DEF Manifest
    <2>5. WellFormed(manifest'[l]) /\ manifest[l].job = None
      BY <1>0, <2>1, <2>4, VideoConstants DEF WellFormed
    <2>6. job'[j].phase = "claimed" /\ job'[j].lane = l /\ job'[j].round = job[j].round
      BY <1>9, <1>10, <2>1 DEF TypeOK
    <2>7. IsUpdated(l)
      BY <2>1, <2>3, <2>4, <2>5, <2>6, <1>10, NoneIsNoManifest DEF IsUpdated
    <2> QED
      BY <1>0, <2>1, <2>2, <2>3, <2>5, <2>7 DEF ManifestChanges, ManifestKept
  <1>2. ASSUME MarkStarted(j) PROVE ManifestChanges
    <2>1. manifest[l] # None /\ manifest[l].state = "dispatch_prepared" /\ manifest[l].job = j
          /\ Free(l)
          /\ manifest' = [manifest EXCEPT ![l].state = "reconcile_required", ![l].sent = TRUE]
          /\ UNCHANGED <<history, source, graph, command>>
      BY <1>2, <1>10 DEF MarkStarted, Is
    <2>2. manifest'[l] = [manifest[l] EXCEPT !.state = "reconcile_required", !.sent = TRUE]
          /\ \A k \in Lanes \ {l} : manifest'[k] = manifest[k]
      BY <1>9, <1>0, <2>1 DEF TypeOK
    <2>9. manifest[l] \in Manifest
      BY <1>0, <2>1
    <2>3. manifest'[l] \in Manifest
      BY <2>2, <2>9, MarkedType DEF ItemStates
    <2>4. /\ manifest'[l].state = "reconcile_required" /\ manifest'[l].job = manifest[l].job
          /\ manifest'[l].round = manifest[l].round /\ manifest'[l].candidate = manifest[l].candidate
          /\ manifest'[l].sent
      BY <2>2, <2>9 DEF Manifest
    <2>5. WellFormed(manifest'[l])
      BY <1>0, <2>1, <2>4, VideoConstants DEF WellFormed
    <2>7. IsUpdated(l)
      BY <2>1, <2>3, <2>4, <2>5, NoneIsNoManifest DEF IsUpdated
    <2> QED
      BY <1>0, <2>1, <2>2, <2>3, <2>5, <2>7 DEF ManifestChanges, ManifestKept
  <1>3. ASSUME NoteTask(j) PROVE ManifestChanges
    <2>1. manifest[l] # None /\ manifest[l].state = "reconcile_required" /\ manifest[l].job = j
          /\ Free(l)
          /\ manifest' = [manifest EXCEPT ![l].state = "processing", ![l].known = TRUE]
          /\ UNCHANGED <<history, source, graph, command>>
      BY <1>3, <1>10 DEF NoteTask, Is
    <2>2. manifest'[l] = [manifest[l] EXCEPT !.state = "processing", !.known = TRUE]
          /\ \A k \in Lanes \ {l} : manifest'[k] = manifest[k]
      BY <1>9, <1>0, <2>1 DEF TypeOK
    <2>9. manifest[l] \in Manifest
      BY <1>0, <2>1
    <2>3. manifest'[l] \in Manifest
      BY <2>2, <2>9, NotedType DEF ItemStates
    <2>4. /\ manifest'[l].state = "processing" /\ manifest'[l].job = manifest[l].job
          /\ manifest'[l].round = manifest[l].round /\ manifest'[l].candidate = manifest[l].candidate
          /\ manifest'[l].sent = manifest[l].sent
      BY <2>2, <2>9 DEF Manifest
    <2>8. manifest[l].sent
      <3>1. PICK m \in Records(l) : m.round = job[j].round /\ m.job = j /\ m.sent
        BY <1>9, <1>3, <1>10 DEF NoteTask, Submitting, MarkedSent, BeforeClaim
      <3>2. manifest[l].round = job[j].round
        BY <1>9, <1>0, <2>1, VideoConstants, NoneIsNoManifest DEF Owned, Records
      <3> QED
        BY <1>9, <1>0, <3>1, <3>2 DEF Records, Archived
    <2>5. WellFormed(manifest'[l])
      BY <1>0, <2>1, <2>4, <2>8, VideoConstants DEF WellFormed
    <2>7. IsUpdated(l)
      BY <2>1, <2>3, <2>4, <2>5, NoneIsNoManifest DEF IsUpdated
    <2> QED
      BY <1>0, <2>1, <2>2, <2>3, <2>5, <2>7 DEF ManifestChanges, ManifestKept
  <1>4. ASSUME ~Claim(j), ~MarkStarted(j), ~NoteTask(j) PROVE ManifestChanges
    BY <1>4 DEF Submission, Ask, Block, Prepare, ClaimRefused, MarkNetwork, Send, Answer, CallFails,
                RecordTask, NoteRefused, Finish, FailOutbox, FailSafe, CrashSubmit, lane, ManifestChanges
  <1> QED
    BY <1>1, <1>2, <1>3, <1>4

LEMMA StepsChangeManifests ==
  ASSUME Inv, [Next]_vars
  PROVE  ManifestChanges
  <1>1. ASSUME NEW l \in Lanes, ChangeSource(l) PROVE ManifestChanges
    BY <1>1 DEF ChangeSource, ManifestChanges
  <1>2. ASSUME NEW j \in Jobs, Polling(j) \/ ProviderAccepts(j) PROVE ManifestChanges
    BY <1>2 DEF Polling, PollRunning, PollEnds, PollFails, Poll, ProviderAccepts, lane, ManifestChanges
  <1>3. ASSUME NEW j \in Jobs, NEW r \in {"good", "empty"}, ProviderFinishes(j, r) PROVE ManifestChanges
    BY <1>3 DEF ProviderFinishes, lane, ManifestChanges
  <1>4. ASSUME UNCHANGED vars PROVE ManifestChanges
    BY <1>4 DEF vars, lane, ManifestChanges
  <1> QED
    BY <1>1, <1>2, <1>3, <1>4, CommandsChangeManifests, SubmissionsChangeManifests, NextCases

(* A submission keeps its lane and its round, and does not go back before   *)
(* its claim.                                                               *)
JobStands(j) ==
  /\ job[j].phase # "free" => /\ job'[j].lane = job[j].lane /\ job'[j].round = job[j].round
                              /\ job'[j].phase # "free"
  /\ job[j].phase \notin BeforeClaim => job'[j].phase \notin BeforeClaim

LEMMA SubmissionsStand ==
  ASSUME TypeOK, NEW j \in Jobs, Submission(j), NEW i \in Jobs
  PROVE  JobStands(i)
  <1>0. job \in [Jobs -> [phase : HandlerPhases, lane : Lanes, round : Rounds, error : Errors]]
    BY DEF TypeOK
  <1> USE DEF JobStands, BeforeClaim
  <1>1. ASSUME NEW l \in Lanes, Ask(j, l) PROVE JobStands(i)
    BY <1>0, <1>1 DEF Ask
  <1>2. ASSUME NEW phase \in {"asked", "prepared"}, At(j, phase), NEW to, Goes(j, to),
               to \in {"prepared", "claimed", "done"}
        PROVE  JobStands(i)
    BY <1>0, <1>2 DEF Goes
  <1>3. ASSUME ~At(j, "free"), NEW to, Goes(j, to), to \notin {"free", "asked", "prepared"} PROVE JobStands(i)
    BY <1>0, <1>3 DEF Goes
  <1>4. ASSUME ~At(j, "free"), NEW e, Fails(j, e) PROVE JobStands(i)
    BY <1>0, <1>4 DEF Fails
  <1>5. CASE Block(j) \/ Prepare(j) \/ Claim(j) \/ ClaimRefused(j)
    BY <1>2, <1>5 DEF Block, Prepare, Claim, ClaimRefused
  <1>6. CASE MarkStarted(j) \/ MarkNetwork(j) \/ Send(j) \/ Answer(j) \/ RecordTask(j) \/ NoteTask(j)
             \/ Finish(j) \/ FailOutbox(j) \/ CrashSubmit(j)
    BY <1>3, <1>6 DEF MarkStarted, MarkNetwork, Send, Answer, RecordTask, NoteTask, Finish, FailOutbox,
                      CrashSubmit
  <1>7. CASE NoteRefused(j) \/ \E e \in Errors : CallFails(j, e)
    BY <1>4, <1>7 DEF NoteRefused, CallFails
  <1>8. CASE FailSafe(j)
    BY <1>0, <1>8 DEF FailSafe
  <1> QED
    BY <1>1, <1>5, <1>6, <1>7, <1>8 DEF Submission

LEMMA JobsStand ==
  ASSUME TypeOK, [Next]_vars, NEW i \in Jobs
  PROVE  JobStands(i)
  <1>1. ASSUME UNCHANGED job PROVE JobStands(i)
    BY <1>1 DEF JobStands
  <1>2. ASSUME NEW l \in Lanes, Commands(l) \/ ChangeSource(l) PROVE UNCHANGED job
    BY <1>2 DEF Commands, Compile, CheckReserve, WriteReserve, RecordFailure, ProjectCandidate, Projects,
                WriteCandidate, Promote, WriteApproval, ReconcileApproval, Reject, Archive, WriteRound,
                CrashCommand, ChangeSource
  <1>3. ASSUME NEW j \in Jobs, Polling(j) \/ ProviderAccepts(j) PROVE UNCHANGED job
    BY <1>3 DEF Polling, PollRunning, PollEnds, PollFails, Poll, ProviderAccepts
  <1>4. ASSUME NEW j \in Jobs, NEW r \in {"good", "empty"}, ProviderFinishes(j, r) PROVE UNCHANGED job
    BY <1>4 DEF ProviderFinishes
  <1> QED
    BY <1>1, <1>2, <1>3, <1>4, SubmissionsStand, NextCases DEF vars
-----------------------------------------------------------------------------
(* The ledger of the rounds.                                               *)

LEMMA KeepsArchived ==
  ASSUME Inv, [Next]_vars
  PROVE  Archived'
  <1>0. TypeOK /\ Holding /\ Archived /\ ManifestChanges
    BY StepsChangeManifests DEF Inv
  <1>1. CASE UNCHANGED <<manifest, history>>
    BY <1>0, <1>1 DEF Archived
  <1>2. ASSUME NEW l \in Lanes, \A k \in Lanes \ {l} : ManifestKept(k),
               manifest'[l] \in Manifest,
               IsCompiled(l) \/ IsArchived(l) \/ IsReplaced(l) \/ IsUpdated(l)
        PROVE  Archived'
    <2> DEFINE Part(k) ==
          /\ \A m, n \in history'[k] : m.round = n.round => m = n
          /\ \A m \in history'[k] :
               /\ manifest'[k] # None
               /\ m.round <= manifest'[k].round
               /\ m.round = manifest'[k].round => /\ m.job # None => m.job = manifest'[k].job
                                                  /\ m.sent => manifest'[k].sent
          /\ manifest'[k] # None =>
               \A r \in 1 .. manifest'[k].round - 1 : \E m \in history'[k] : m.round = r
    <2>1. \A k \in Lanes \ {l} : Part(k)
      BY <1>0, <1>2 DEF Archived, ManifestKept
    <2>2. /\ \A m \in history[l] : m.round \in Nat
          /\ manifest[l] # None => manifest[l].round \in Nat \ {0}
          /\ manifest'[l] # None
      BY <1>0, <1>2, NoneIsNoManifest DEF TypeOK, Manifest, Rounds
    <2>3. ASSUME IsCompiled(l) PROVE Part(l)
      <3>1. manifest[l] = None /\ history'[l] = history[l] /\ manifest'[l].round = 1
        BY <2>3 DEF IsCompiled, NewRound
      <3>2. history'[l] = {}
        BY <1>0, <3>1 DEF Archived
      <3> QED
        BY <2>2, <3>1, <3>2
    <2>4. ASSUME IsArchived(l) PROVE Part(l)
      <3>1. /\ manifest[l] # None /\ manifest'[l] = manifest[l]
            /\ \A m \in history[l] : m.round = manifest[l].round => m = manifest[l]
            /\ history'[l] = history[l] \cup {manifest[l]}
        BY <2>4 DEF IsArchived
      <3> QED
        BY <1>0, <2>2, <3>1 DEF Archived
    <2>5. ASSUME IsReplaced(l) PROVE Part(l)
      <3>1. /\ manifest[l] \in history[l] /\ history'[l] = history[l]
            /\ manifest'[l].round = manifest[l].round + 1
            /\ manifest[l] # None
        BY <1>0, <2>5 DEF IsReplaced, NewRound, Holding, Archived
      <3>2. \A m \in history[l] : m.round <= manifest[l].round /\ m.round # manifest'[l].round
        BY <1>0, <2>2, <3>1 DEF Archived
      <3>3. ASSUME NEW r \in 1 .. manifest'[l].round - 1 PROVE \E m \in history[l] : m.round = r
        <4>1. r = manifest[l].round \/ r \in 1 .. manifest[l].round - 1
          BY <2>2, <3>1
        <4> QED
          BY <1>0, <3>1, <4>1 DEF Archived
      <3>4. \A m \in history[l] : m.round <= manifest'[l].round
        BY <2>2, <3>1, <3>2
      <3> QED
        BY <1>0, <2>2, <3>1, <3>2, <3>3, <3>4 DEF Archived
    <2>6. ASSUME IsUpdated(l) PROVE Part(l)
      <3>1. /\ manifest[l] # None /\ manifest'[l].round = manifest[l].round
            /\ manifest[l].sent => manifest'[l].sent
            /\ history'[l] = history[l]
            /\ manifest'[l].job = manifest[l].job \/ manifest[l].job = None
        BY <2>6 DEF IsUpdated
      <3> QED
        BY <1>0, <2>2, <3>1 DEF Archived
    <2> HIDE DEF Part
    <2>7. \A k \in Lanes : Part(k)
      BY <1>2, <2>1, <2>3, <2>4, <2>5, <2>6
    <2> QED
      BY <2>7 DEF Part, Archived
  <1> QED
    BY <1>0, <1>1, <1>2 DEF ManifestChanges

LEMMA KeepsOwned ==
  ASSUME Inv, [Next]_vars
  PROVE  Owned'
  <1>0. TypeOK /\ Owned /\ ManifestChanges
    BY StepsChangeManifests DEF Inv
  <1> DEFINE Right(k, m) == m.job # None => /\ job'[m.job].lane = k /\ job'[m.job].round = m.round
                                           /\ job'[m.job].phase \notin BeforeClaim
  <1>1. ASSUME NEW k \in Lanes, NEW m \in Records(k) PROVE Right(k, m)
    <2>1. m \in Manifest
      BY <1>0 DEF TypeOK, Records
    <2>2. CASE m.job # None
      <3>1. m.job \in Jobs
        BY <2>1, <2>2 DEF Manifest
      <3>2. job[m.job].lane = k /\ job[m.job].round = m.round /\ job[m.job].phase \notin BeforeClaim
        BY <1>0, <2>2 DEF Owned
      <3> QED
        BY <1>0, <3>1, <3>2, JobsStand DEF JobStands, BeforeClaim
    <2> QED
      BY <2>2
  <1>2. ASSUME NEW l \in Lanes, manifest'[l] \in Manifest,
               IsCompiled(l) \/ IsArchived(l) \/ IsReplaced(l) \/ IsUpdated(l)
        PROVE  \A m \in history'[l] \cup ({manifest'[l]} \ {None}) : Right(l, m)
    <2>1. CASE IsCompiled(l) \/ IsReplaced(l)
      <3>1. manifest'[l].job = None /\ history'[l] = history[l]
        BY <2>1 DEF IsCompiled, IsReplaced, NewRound
      <3> QED
        BY <1>1, <3>1 DEF Records
    <2>2. CASE IsArchived(l)
      BY <1>1, <2>2 DEF IsArchived, Records
    <2>3. CASE IsUpdated(l)
      <3>1. history'[l] = history[l] /\ manifest[l] # None /\ manifest'[l].round = manifest[l].round
        BY <2>3 DEF IsUpdated
      <3>2. Right(l, manifest'[l])
        <4>1. CASE manifest'[l].job = manifest[l].job
          BY <1>1, <3>1, <4>1 DEF Records
        <4>2. CASE manifest'[l].job # manifest[l].job
          BY <2>3, <3>1, <4>2 DEF IsUpdated, BeforeClaim
        <4> QED
          BY <4>1, <4>2
      <3> QED
        BY <1>1, <3>1, <3>2 DEF Records
    <2> QED
      BY <1>2, <2>1, <2>2, <2>3
  <1> HIDE DEF Right
  <1>3. ASSUME NEW k \in Lanes, ManifestKept(k)
        PROVE  \A m \in history'[k] \cup ({manifest'[k]} \ {None}) : Right(k, m)
    BY <1>1, <1>3 DEF ManifestKept, Records
  <1>4. \A k \in Lanes : \A m \in history'[k] \cup ({manifest'[k]} \ {None}) : Right(k, m)
    BY <1>0, <1>2, <1>3 DEF ManifestChanges, ManifestKept
  <1> QED
    BY <1>4 DEF Right, Owned, Records

(* What the ledger says of a submission that may have been sent stays in    *)
(* it, in the present manifest or in the archive.                           *)
LEMMA MarksStand ==
  ASSUME Inv, [Next]_vars, NEW j \in Jobs, NEW l \in Lanes, NEW m \in Records(l), m.job = j, m.sent
  PROVE  \E n \in Records(l)' : n.round = m.round /\ n.job = j /\ n.sent
  <1>0. TypeOK /\ Holding /\ ManifestChanges /\ m \in Manifest /\ j # None
    BY StepsChangeManifests, VideoConstants DEF Inv, TypeOK, Records
  <1>1. CASE m \in history[l]
    <2>1. m \in history'[l]
      BY <1>0, <1>1 DEF ManifestChanges, ManifestKept, IsCompiled, IsArchived, IsReplaced, IsUpdated
    <2> QED
      BY <2>1 DEF Records
  <1>2. CASE m = manifest[l] /\ m # None
    <2>1. CASE manifest'[l] = manifest[l]
      BY <1>2, <2>1 DEF Records
    <2>2. CASE manifest'[l] # manifest[l]
      <3>1. IsReplaced(l) \/ (IsUpdated(l) /\ manifest'[l] \in Manifest)
        BY <1>0, <1>2, <2>2 DEF ManifestChanges, ManifestKept, IsCompiled, IsArchived
      <3>2. CASE IsReplaced(l)
        <4>1. manifest[l] \in history'[l]
          BY <1>0, <3>2 DEF IsReplaced, Holding
        <4> QED
          BY <1>2, <4>1 DEF Records
      <3>3. CASE IsUpdated(l)
        BY <1>0, <1>2, <3>3 DEF IsUpdated, Records
      <3> QED
        BY <3>1, <3>2, <3>3
    <2> QED
      BY <2>1, <2>2
  <1> QED
    BY <1>1, <1>2 DEF Records

(* A submission that says it may have been sent goes on saying so.          *)
LEMMA MarkedStands ==
  ASSUME Inv, [Next]_vars, NEW j \in Jobs, MarkedSent(j), job[j].phase # "free"
  PROVE  MarkedSent(j)'
  <1>0. TypeOK /\ JobStands(j)
    BY JobsStand DEF Inv
  <1>4. PICK l \in Lanes : l = LaneOf(j)
    BY <1>0 DEF TypeOK
  <1>1. PICK m \in Records(l) : m.round = job[j].round /\ m.job = j /\ m.sent
    BY <1>4 DEF MarkedSent
  <1>2. \E n \in Records(l)' : n.round = m.round /\ n.job = j /\ n.sent
    BY <1>1, MarksStand
  <1>3. job'[j].lane = l /\ job'[j].round = job[j].round
    BY <1>0, <1>4 DEF JobStands
  <1> QED
    BY <1>1, <1>2, <1>3 DEF MarkedSent, Records
-----------------------------------------------------------------------------
(* The steps of a handler, in the order it takes them.                     *)

OnRecord(state) == state \notin {"none", "prepared"}

Unsent == BeforeClaim \cup {"claimed", "marked"}

Moving(j) ==
  \/ /\ job'[j].phase = job[j].phase
     /\ outbox'[j].state = outbox[j].state \/ OnRecord(outbox'[j].state)
     /\ Called(j)' => Called(j)
  \/ job[j].phase \in BeforeClaim /\ job'[j].phase \in BeforeClaim \cup {"claimed"} /\ provider'[j] = provider[j]
  \/ job[j].phase = "claimed" /\ job'[j].phase = "marked" /\ MarkedSent(j)' /\ provider'[j] = provider[j]
  \/ job[j].phase = "marked" /\ job'[j].phase = "sending" /\ OnRecord(outbox'[j].state) /\ provider'[j] = provider[j]
  \/ job[j].phase = "sending" /\ job'[j].phase = "waiting" /\ outbox'[j] = outbox[j]
  \/ /\ job[j].phase \notin Unsent \cup {"done"} /\ job'[j].phase \notin Unsent
     /\ outbox'[j].state = outbox[j].state \/ OnRecord(outbox'[j].state)
     /\ provider'[j] = provider[j]
  \/ job'[j].phase = "done" /\ outbox'[j] = outbox[j] /\ provider'[j] = provider[j]

LEMMA MarkedByItsHandler ==
  ASSUME Inv, NEW j \in Jobs, MarkStarted(j)
  PROVE  MarkedSent(j)'
  <1>0. TypeOK /\ Owned
    BY DEF Inv
  <1>1. PICK l \in Lanes : l = job[j].lane
    BY <1>0 DEF TypeOK
  <1>2. /\ manifest[l] # None /\ manifest[l].job = j
        /\ manifest' = [manifest EXCEPT ![l].state = "reconcile_required", ![l].sent = TRUE]
        /\ job' = [job EXCEPT ![j].phase = "marked"]
    BY <1>1 DEF MarkStarted, Is, Goes
  <1>3. manifest[l] \in Manifest
    BY <1>0, <1>2 DEF TypeOK
  <1>4. manifest'[l] = [manifest[l] EXCEPT !.state = "reconcile_required", !.sent = TRUE]
    BY <1>0, <1>2 DEF TypeOK
  <1>8. manifest'[l] \in Manifest
    BY <1>3, <1>4, MarkedType DEF ItemStates
  <1>5. manifest'[l].job = manifest[l].job /\ manifest'[l].round = manifest[l].round /\ manifest'[l].sent
    BY <1>3, <1>4 DEF Manifest
  <1>6. manifest[l].round = job[j].round
    BY <1>0, <1>2, VideoConstants DEF Owned, Records
  <1>7. job'[j].lane = l /\ job'[j].round = job[j].round
    BY <1>0, <1>1, <1>2 DEF TypeOK
  <1> QED
    BY <1>2, <1>5, <1>6, <1>7, <1>8, NoneIsNoManifest DEF MarkedSent, Records

LEMMA SubmissionsMove ==
  ASSUME Inv, NEW j \in Jobs, Submission(j), NEW i \in Jobs
  PROVE  Moving(i)
  <1>0. /\ job \in [Jobs -> [phase : HandlerPhases, lane : Lanes, round : Rounds, error : Errors]]
        /\ outbox \in [Jobs -> Outbox]
        /\ provider \in [Jobs -> {"nothing", "sent", "accepted", "good", "empty"}]
    BY DEF Inv, TypeOK
  <1> USE DEF Moving, BeforeClaim, Unsent, OnRecord, Called
  <1>1. ASSUME i # j, job'[i] = job[i],
               outbox'[i] = outbox[i], provider'[i] = provider[i]
        PROVE  Moving(i)
    BY <1>1
  <1>2. ASSUME i # j PROVE Moving(i)
    <2>1. job'[i] = job[i]
      BY <1>0, <1>2 DEF Submission, Ask, Block, Prepare, Claim, ClaimRefused, MarkStarted, MarkNetwork, Send,
                        Answer, CallFails, RecordTask, NoteTask, NoteRefused, Finish, FailOutbox, FailSafe,
                        CrashSubmit, Goes, Fails
    <2>2. outbox'[i] = outbox[i]
      BY <1>0, <1>2 DEF Submission, Ask, Block, Prepare, Claim, ClaimRefused, MarkStarted, MarkNetwork, Send,
                        Answer, CallFails, RecordTask, NoteTask, NoteRefused, Finish, FailOutbox, FailSafe,
                        CrashSubmit, files
    <2>3. provider'[i] = provider[i]
      BY <1>0, <1>2 DEF Submission, Ask, Block, Prepare, Claim, ClaimRefused, MarkStarted, MarkNetwork, Send,
                        Answer, CallFails, RecordTask, NoteTask, NoteRefused, Finish, FailOutbox, FailSafe,
                        CrashSubmit
    <2> QED
      BY <1>1, <1>2, <2>1, <2>2, <2>3
  <1>3. ASSUME NEW phase, Goes(j, phase) PROVE job'[j].phase = phase
    BY <1>0, <1>3 DEF Goes
  <1>4. ASSUME NEW e, Fails(j, e) PROVE job'[j].phase = "failing"
    BY <1>0, <1>4 DEF Fails
  <1>5. ASSUME NEW l \in Lanes, Ask(j, l) PROVE Moving(j)
    BY <1>0, <1>5 DEF Ask, files
  <1>6. ASSUME Block(j) \/ ClaimRefused(j) \/ CrashSubmit(j) PROVE Moving(j)
    BY <1>3, <1>6 DEF Block, ClaimRefused, CrashSubmit, files
  <1>7. ASSUME Prepare(j) \/ Claim(j) PROVE Moving(j)
    BY <1>3, <1>7 DEF Prepare, Claim
  <1>8. ASSUME MarkStarted(j) PROVE Moving(j)
    BY <1>3, <1>8, MarkedByItsHandler DEF MarkStarted
  <1>9. ASSUME MarkNetwork(j) PROVE Moving(j)
    BY <1>0, <1>3, <1>9 DEF MarkNetwork, Outbox
  <1>10. ASSUME Send(j) PROVE Moving(j)
    BY <1>3, <1>10 DEF Send, files
  <1>11. ASSUME Answer(j) \/ NoteTask(j) \/ Finish(j) PROVE Moving(j)
    BY <1>3, <1>11 DEF Answer, NoteTask, Finish, files
  <1>12. ASSUME NoteRefused(j) \/ \E e \in Errors : CallFails(j, e) PROVE Moving(j)
    BY <1>4, <1>12 DEF NoteRefused, CallFails, files
  <1>13. ASSUME RecordTask(j) \/ FailOutbox(j) PROVE Moving(j)
    <2>1. outbox'[j].state \in {"submitted", "reconcile_required"}
      BY <1>0, <1>13 DEF RecordTask, FailOutbox, Outbox
    <2> QED
      BY <1>3, <1>13, <2>1 DEF RecordTask, FailOutbox
  <1>14. ASSUME FailSafe(j) PROVE Moving(j)
    BY <1>0, <1>14 DEF FailSafe
  <1> QED
    BY <1>2, <1>5, <1>6, <1>7, <1>8, <1>9, <1>10, <1>11, <1>12, <1>13, <1>14 DEF Submission

LEMMA JobsMove ==
  ASSUME Inv, [Next]_vars, NEW i \in Jobs
  PROVE  Moving(i)
  <1>0. provider \in [Jobs -> {"nothing", "sent", "accepted", "good", "empty"}]
    BY DEF Inv, TypeOK
  <1>1. ASSUME UNCHANGED <<job, outbox>>, Called(i)' => Called(i) PROVE Moving(i)
    BY <1>1 DEF Moving
  <1>2. ASSUME NEW l \in Lanes, Commands(l) \/ ChangeSource(l) PROVE UNCHANGED <<job, outbox, provider>>
    BY <1>2 DEF Commands, Compile, CheckReserve, WriteReserve, RecordFailure, ProjectCandidate, Projects,
                WriteCandidate, Promote, WriteApproval, ReconcileApproval, Reject, Archive, WriteRound,
                CrashCommand, ChangeSource, files
  <1>3. ASSUME NEW j \in Jobs, Polling(j) PROVE UNCHANGED <<job, outbox, provider>>
    BY <1>3 DEF Polling, PollRunning, PollEnds, PollFails, Poll
  <1>4. ASSUME NEW j \in Jobs, ProviderAccepts(j) PROVE Moving(i)
    BY <1>0, <1>1, <1>4 DEF ProviderAccepts, Called, files
  <1>5. ASSUME NEW j \in Jobs, NEW r \in {"good", "empty"}, ProviderFinishes(j, r) PROVE Moving(i)
    BY <1>0, <1>1, <1>5 DEF ProviderFinishes, Called, files
  <1>6. ASSUME UNCHANGED <<job, outbox, provider>> PROVE Moving(i)
    BY <1>1, <1>6 DEF Called
  <1> QED
    BY <1>2, <1>3, <1>4, <1>5, <1>6, SubmissionsMove, NextCases DEF vars, files

LEMMA KeepsSubmitting ==
  ASSUME Inv, [Next]_vars
  PROVE  Submitting'
  <1>1. SUFFICES ASSUME NEW j \in Jobs
        PROVE /\ job'[j].phase \notin BeforeClaim \cup {"claimed", "done"} => MarkedSent(j)'
              /\ job'[j].phase \notin Unsent \cup {"done"} => OnRecord(outbox'[j].state)
              /\ Called(j)' => job'[j].phase \notin Unsent /\ OnRecord(outbox'[j].state) /\ MarkedSent(j)'
    BY DEF Submitting, Unsent, OnRecord
  <1>2. /\ job[j].phase \notin BeforeClaim \cup {"claimed", "done"} => MarkedSent(j)
        /\ job[j].phase \notin Unsent \cup {"done"} => OnRecord(outbox[j].state)
        /\ Called(j) => job[j].phase \notin Unsent /\ OnRecord(outbox[j].state) /\ MarkedSent(j)
    BY DEF Inv, Submitting, Unsent, OnRecord
  <1>3. MarkedSent(j) /\ job[j].phase # "free" => MarkedSent(j)'
    BY MarkedStands
  <1>4. Moving(j)
    BY JobsMove
  <1>5. provider'[j] = provider[j] => (Called(j)' <=> Called(j))
    BY DEF Called
  <1> HIDE DEF Called, MarkedSent
  <1> QED
    BY <1>2, <1>3, <1>4, <1>5 DEF Moving, Unsent, BeforeClaim
-----------------------------------------------------------------------------
(* What is seen before a command writes.                                   *)

(* The graph only grows, and by what the ledger and the disk vouch for.     *)
Projected(l, n) ==
  /\ n \in Node /\ n.job \in media
  /\ LaneOf(n.job) = l /\ job[n.job].round = n.round /\ job[n.job].phase # "free"

GraphGrows ==
  /\ media \subseteq media'
  /\ graph' \in [Lanes -> SUBSET Node]
  /\ \A k \in Lanes : \/ graph'[k] = graph[k]
                       \/ \E n \in Node : Projected(k, n) /\ graph'[k] = graph[k] \cup {n}

LEMMA GraphKept ==
  ASSUME TypeOK, UNCHANGED <<graph, media>>
  PROVE  GraphGrows
  BY DEF TypeOK, GraphGrows

LEMMA GraphAppended ==
  ASSUME TypeOK, NEW l \in Lanes, NEW n, Projected(l, n),
         graph' = [graph EXCEPT ![l] = @ \cup {n}], UNCHANGED media
  PROVE  GraphGrows
  <1>1. n \in Node
    BY DEF Projected
  <1>2. graph \in [Lanes -> SUBSET Node]
    BY DEF TypeOK
  <1> DEFINE S == SUBSET Node
  <1>3. graph[l] \cup {n} \in S
    BY <1>1, <1>2
  <1>4. graph \in [Lanes -> S]
    BY <1>2
  <1> HIDE DEF S
  <1>5. graph' \in [Lanes -> S] /\ \A k \in Lanes \ {l} : graph'[k] = graph[k]
    BY <1>3, <1>4
  <1>6. graph'[l] = graph[l] \cup {n}
    BY <1>4
  <1> USE DEF S
  <1> QED
    BY <1>1, <1>5, <1>6 DEF GraphGrows

LEMMA StepsGrowGraph ==
  ASSUME Inv, [Next]_vars
  PROVE  GraphGrows
  <1>0. TypeOK /\ Owned /\ GraphOwned /\ LedgerShown
    BY DEF Inv
  <1>1. ASSUME NEW l \in Lanes, NEW j \in Jobs, ProjectCandidate(l, j) PROVE GraphGrows
    <2>1. /\ manifest[l] # None /\ manifest[l].job = j /\ j \in media
          /\ graph' = [graph EXCEPT ![l] = @ \cup {CandidateNode(l, j)}] /\ UNCHANGED media
      BY <1>1 DEF ProjectCandidate, Projects, files
    <2>2. manifest[l] \in Manifest
      BY <1>0, <2>1 DEF TypeOK
    <2>3. LaneOf(j) = l /\ job[j].round = manifest[l].round /\ job[j].phase \notin BeforeClaim
      BY <1>0, <2>1, VideoConstants DEF Owned, Records
    <2>4. Projected(l, CandidateNode(l, j))
      BY <2>1, <2>2, <2>3 DEF Projected, CandidateNode, Node, Manifest, BeforeClaim
    <2> QED
      BY <1>0, <2>1, <2>4, GraphAppended
  <1>2. ASSUME NEW l \in Lanes, Promote(l) PROVE GraphGrows
    <2>1. /\ manifest[l] # None /\ manifest[l].state = "candidate"
          /\ graph' = [graph EXCEPT ![l] = @ \cup {ApprovedNode(l)}] /\ UNCHANGED media
      BY <1>2 DEF Promote, Is, files
    <2>2. manifest[l] \in Manifest /\ manifest[l].candidate # None
      BY <1>0, <2>1, PresentType DEF WellFormed
    <2>3. PICK n \in graph[l] : n = [kind |-> "candidate", round |-> manifest[l].round, job |-> manifest[l].candidate]
      BY <1>0, <2>1 DEF LedgerShown, Shown, Records
    <2>4. n.job \in media /\ LaneOf(n.job) = l /\ job[n.job].round = n.round /\ job[n.job].phase # "free"
      BY <1>0 DEF GraphOwned
    <2>5. Projected(l, ApprovedNode(l))
      BY <2>2, <2>3, <2>4 DEF Projected, ApprovedNode, Node, Manifest
    <2> QED
      BY <1>0, <2>1, <2>5, GraphAppended
  <1>3. ASSUME NEW l \in Lanes, Commands(l) \/ ChangeSource(l), ~Promote(l),
               \A j \in Jobs : ~ProjectCandidate(l, j)
        PROVE  GraphGrows
    BY <1>0, <1>3, GraphKept
       DEF Commands, Compile, CheckReserve, WriteReserve, RecordFailure, WriteCandidate, WriteApproval,
           ReconcileApproval, Reject, Archive, WriteRound, CrashCommand, ChangeSource, files
  <1>4. ASSUME NEW j \in Jobs, Submission(j) \/ ProviderAccepts(j) PROVE GraphGrows
    BY <1>0, <1>4, GraphKept
       DEF Submission, Ask, Block, Prepare, Claim, ClaimRefused, MarkStarted, MarkNetwork, Send,
           Answer, CallFails, RecordTask, NoteTask, NoteRefused, Finish, FailOutbox, FailSafe,
           CrashSubmit, ProviderAccepts, lane, files
  <1>5. ASSUME NEW j \in Jobs, Polling(j) PROVE GraphGrows
    BY <1>0, <1>5 DEF Polling, PollRunning, PollEnds, PollFails, Poll, lane, GraphGrows, TypeOK
  <1>6. ASSUME NEW j \in Jobs, NEW r \in {"good", "empty"}, ProviderFinishes(j, r) PROVE GraphGrows
    BY <1>0, <1>6, GraphKept DEF ProviderFinishes, lane, files
  <1>7. ASSUME UNCHANGED vars PROVE GraphGrows
    BY <1>0, <1>7, GraphKept DEF vars, lane, files
  <1> QED
    BY <1>1, <1>2, <1>3, <1>4, <1>5, <1>6, <1>7, NextCases

LEMMA KeepsGraphOwned ==
  ASSUME Inv, [Next]_vars
  PROVE  GraphOwned'
  <1>1. SUFFICES ASSUME NEW l \in Lanes, NEW n \in graph'[l]
        PROVE /\ n.job \in media'
              /\ job'[n.job].lane = l /\ job'[n.job].round = n.round /\ job'[n.job].phase # "free"
    BY DEF GraphOwned
  <1>2. GraphGrows /\ TypeOK /\ GraphOwned
    BY StepsGrowGraph DEF Inv
  <1>3. Projected(l, n)
    BY <1>1, <1>2 DEF GraphGrows, TypeOK, GraphOwned, Projected
  <1>4. JobStands(n.job)
    BY <1>2, <1>3, JobsStand DEF Projected, Node
  <1> QED
    BY <1>2, <1>3, <1>4 DEF Projected, JobStands, GraphGrows

LEMMA KeepsLedgerShown ==
  ASSUME Inv, [Next]_vars
  PROVE  LedgerShown'
  <1>0. LedgerShown /\ ManifestChanges /\ GraphGrows
    BY StepsChangeManifests, StepsGrowGraph DEF Inv
  <1> DEFINE New(k) == history'[k] \cup ({manifest'[k]} \ {None})
  <1>1. ASSUME NEW k \in Lanes, NEW m, Shown(k, m) PROVE Shown(k, m)'
    BY <1>0, <1>1 DEF Shown, GraphGrows
  <1>2. ASSUME NEW k \in Lanes, NEW m \in New(k)
        PROVE  m \in Records(k) \/ Shown(k, m) \/ m.state \notin {"candidate", "approved", "rejected"}
    <2>1. CASE ManifestKept(k)
      BY <1>2, <2>1 DEF ManifestKept, Records
    <2>2. CASE IsCompiled(k) \/ IsReplaced(k)
      BY <1>2, <2>2 DEF IsCompiled, IsReplaced, Records, NewRound
    <2>3. CASE IsArchived(k)
      BY <1>2, <2>3 DEF IsArchived, Records
    <2>4. CASE IsUpdated(k)
      <3>1. history'[k] = history[k]
            /\ (Shown(k, manifest'[k]) \/ manifest'[k].state \notin {"candidate", "approved", "rejected"})
        BY <2>4 DEF IsUpdated
      <3> HIDE DEF Shown
      <3> QED
        BY <1>2, <3>1 DEF Records
    <2> QED
      BY <1>0, <2>1, <2>2, <2>3, <2>4 DEF ManifestChanges, ManifestKept
  <1>3. ASSUME NEW k \in Lanes, NEW m \in New(k)
        PROVE  /\ m.state \in {"candidate", "approved", "rejected"} =>
                    [kind |-> "candidate", round |-> m.round, job |-> m.candidate] \in graph'[k]
               /\ m.state = "approved" =>
                    [kind |-> "approved", round |-> m.round, job |-> m.candidate] \in graph'[k]
    <2>1. CASE Shown(k, m)
      BY <1>1, <2>1 DEF Shown
    <2>2. CASE m.state \notin {"candidate", "approved", "rejected"}
      BY <2>2
    <2>3. CASE m \in Records(k)
      BY <1>0, <2>1, <2>3 DEF LedgerShown
    <2> QED
      BY <1>2, <1>3, <2>1, <2>2, <2>3
  <1> QED
    BY <1>3 DEF LedgerShown, Records, Shown

(* A command that holds its lane took the lock in a state that it may find. *)
LocksTaken ==
  \A k \in Lanes :
    \/ command'[k] \in {"none", command[k]}
    \/ UNCHANGED manifest /\ command'[k] = "reserving" /\ Is(k, {"planned"})
    \/ UNCHANGED manifest /\ command'[k] = "recording" /\ Is(k, {"processing"})
    \/ /\ UNCHANGED manifest /\ command'[k] = "approving" /\ Is(k, {"candidate"})
       /\ ApprovedNode(k) \in graph'[k]
    \/ /\ UNCHANGED manifest /\ command'[k] = "switching" /\ manifest[k] # None
       /\ manifest[k] \in history'[k] /\ manifest[k].round < MaxRounds

LEMMA StepsTakeLocks ==
  ASSUME Inv, [Next]_vars
  PROVE  LocksTaken /\ command' \in [Lanes -> {"none", "reserving", "recording", "approving", "switching"}]
  <1> DEFINE C == {"none", "reserving", "recording", "approving", "switching"}
  <1>0. /\ command \in [Lanes -> C] /\ graph \in [Lanes -> SUBSET Node]
        /\ history \in [Lanes -> SUBSET Manifest]
    BY DEF Inv, TypeOK
  <1> DEFINE Goal == LocksTaken /\ command' \in [Lanes -> C]
  <1>1. ASSUME NEW l \in Lanes, CheckReserve(l) PROVE Goal
    BY <1>0, <1>1 DEF CheckReserve, LocksTaken
  <1>2. ASSUME NEW l \in Lanes, NEW j \in Jobs, ProjectCandidate(l, j) PROVE Goal
    BY <1>0, <1>2 DEF ProjectCandidate, Projects, LocksTaken
  <1>3. ASSUME NEW l \in Lanes, Promote(l) PROVE Goal
    <2>1. ApprovedNode(l) \in graph'[l]
      BY <1>0, <1>3 DEF Promote
    <2> QED
      BY <1>0, <1>3, <2>1 DEF Promote, LocksTaken
  <1>4. ASSUME NEW l \in Lanes, Archive(l) PROVE Goal
    <2>1. manifest[l] \in history'[l] /\ manifest[l].round < MaxRounds
      BY <1>0, <1>4 DEF Archive
    <2>2. manifest[l] # None
      BY <1>4 DEF Archive, MayRecompile, MayRetry, MayCompare, MayGoOn, Recoverable, Is
    <2>3. command' = [command EXCEPT ![l] = "switching"] /\ UNCHANGED manifest
      BY <1>4 DEF Archive
    <2> QED
      BY <1>0, <2>1, <2>2, <2>3 DEF LocksTaken
  <1>5. ASSUME NEW l \in Lanes, command' = [command EXCEPT ![l] = "none"] PROVE Goal
    BY <1>0, <1>5 DEF LocksTaken
  <1>6. ASSUME UNCHANGED command PROVE Goal
    BY <1>0, <1>6 DEF LocksTaken
  <1>7. ASSUME NEW l \in Lanes, Commands(l) PROVE Goal
    BY <1>1, <1>2, <1>3, <1>4, <1>5, <1>6, <1>7
       DEF Commands, Compile, WriteReserve, RecordFailure, WriteCandidate, WriteApproval,
           ReconcileApproval, Reject, WriteRound, CrashCommand
  <1>8. ASSUME NEW l \in Lanes, ChangeSource(l) PROVE UNCHANGED command
    BY <1>8 DEF ChangeSource
  <1>9. ASSUME NEW j \in Jobs, Submission(j) \/ ProviderAccepts(j) PROVE UNCHANGED command
    BY <1>9 DEF Submission, Ask, Block, Prepare, Claim, ClaimRefused, MarkStarted, MarkNetwork, Send,
                Answer, CallFails, RecordTask, NoteTask, NoteRefused, Finish, FailOutbox, FailSafe,
                CrashSubmit, ProviderAccepts, lane
  <1>10. ASSUME NEW j \in Jobs, Polling(j) PROVE UNCHANGED command
    BY <1>10 DEF Polling, PollRunning, PollEnds, PollFails, Poll, lane
  <1>11. ASSUME NEW j \in Jobs, NEW r \in {"good", "empty"}, ProviderFinishes(j, r) PROVE UNCHANGED command
    BY <1>11 DEF ProviderFinishes, lane
  <1>12. ASSUME UNCHANGED vars PROVE UNCHANGED command
    BY <1>12 DEF vars, lane
  <1> HIDE DEF Goal
  <1>13. Goal
    BY <1>6, <1>7, <1>8, <1>9, <1>10, <1>11, <1>12, NextCases
  <1> QED
    BY <1>13 DEF Goal

LEMMA KeepsHolding ==
  ASSUME Inv, [Next]_vars
  PROVE  Holding'
  <1>0. TypeOK /\ Holding /\ ManifestChanges /\ LocksTaken /\ GraphGrows
    BY StepsChangeManifests, StepsTakeLocks, StepsGrowGraph DEF Inv
  <1> DEFINE Held(k, c, m) ==
        /\ c = "reserving" => m # None /\ m.state = "planned"
        /\ c = "recording" => m # None /\ m.state = "processing"
        /\ c = "approving" =>
             /\ m # None /\ m.state = "candidate"
             /\ [kind |-> "approved", round |-> m.round, job |-> m.candidate] \in graph'[k]
        /\ c = "switching" => m \in history'[k] /\ m.round < MaxRounds
  <1>1. ASSUME NEW k \in Lanes PROVE Held(k, command'[k], manifest'[k])
    <2>1. CASE command'[k] = "none"
      BY <2>1
    <2>2. CASE command'[k] = command[k] /\ command'[k] # "none"
      <3>1. manifest'[k] = manifest[k] /\ history'[k] = history[k]
        BY <1>0, <2>2 DEF ManifestChanges, ManifestKept, IsCompiled, IsArchived, IsReplaced, IsUpdated
      <3>2. graph[k] \subseteq graph'[k]
        BY <1>0 DEF GraphGrows
      <3>3. /\ command[k] = "reserving" => Is(k, {"planned"})
            /\ command[k] = "recording" => Is(k, {"processing"})
            /\ command[k] = "approving" => Is(k, {"candidate"}) /\ ApprovedNode(k) \in graph[k]
            /\ command[k] = "switching" => manifest[k] \in history[k] /\ manifest[k].round < MaxRounds
        BY <1>0 DEF Holding
      <3> QED
        BY <2>2, <3>1, <3>2, <3>3 DEF Is, ApprovedNode
    <2>3. CASE command'[k] \notin {"none", command[k]}
      BY <1>0, <2>3 DEF LocksTaken, Is, ApprovedNode
    <2> QED
      BY <2>1, <2>2, <2>3
  <1> QED
    BY <1>1 DEF Holding, Is, ApprovedNode
-----------------------------------------------------------------------------
(* Types.                                                                  *)

LEMMA LanesKeepType ==
  ASSUME Inv, [Next]_vars
  PROVE  /\ manifest' = [k \in Lanes |-> manifest'[k]]
         /\ history' = [k \in Lanes |-> history'[k]]
         /\ source' \in [Lanes -> Sources]
  <1> DEFINE Goal == /\ manifest' = [k \in Lanes |-> manifest'[k]]
                     /\ history' = [k \in Lanes |-> history'[k]]
                     /\ source' \in [Lanes -> Sources]
  <1>0. /\ manifest = [k \in Lanes |-> manifest[k]]
        /\ history = [k \in Lanes |-> history[k]]
        /\ source \in [Lanes -> Sources]
    BY DEF Inv, TypeOK
  <1>1. ASSUME NEW l \in Lanes, Commands(l) PROVE UNCHANGED source
    BY <1>1 DEF Commands, Compile, CheckReserve, WriteReserve, RecordFailure, ProjectCandidate, Projects,
                WriteCandidate, Promote, WriteApproval, ReconcileApproval, Reject, Archive, WriteRound,
                CrashCommand
  <1>2. ASSUME NEW l \in Lanes, Commands(l) PROVE history' = [k \in Lanes |-> history'[k]]
    BY <1>0, <1>2 DEF Commands, Compile, CheckReserve, WriteReserve, RecordFailure, ProjectCandidate,
                Projects, WriteCandidate, Promote, WriteApproval, ReconcileApproval, Reject, Archive,
                WriteRound, CrashCommand
  <1>3. ASSUME NEW l \in Lanes, Commands(l) PROVE manifest' = [k \in Lanes |-> manifest'[k]]
    <2>1. ASSUME NEW m, manifest' = [manifest EXCEPT ![l] = m] PROVE manifest' = [k \in Lanes |-> manifest'[k]]
      BY <1>0, <2>1
    <2>2. ASSUME NEW state, Moves(l, state) PROVE manifest' = [k \in Lanes |-> manifest'[k]]
      BY <1>0, <2>2 DEF Moves
    <2>3. ASSUME WriteCandidate(l) PROVE manifest' = [k \in Lanes |-> manifest'[k]]
      BY <1>0, <2>3 DEF WriteCandidate
    <2> QED
      BY <1>0, <1>3, <2>1, <2>2, <2>3
         DEF Commands, Compile, CheckReserve, WriteReserve, RecordFailure, ProjectCandidate, Projects,
             Promote, WriteApproval, ReconcileApproval, Reject, Archive, WriteRound, CrashCommand
  <1>4. ASSUME NEW l \in Lanes, ChangeSource(l) PROVE Goal
    BY <1>0, <1>4 DEF ChangeSource
  <1>5. ASSUME NEW j \in Jobs, Submission(j) PROVE UNCHANGED <<history, source>>
    BY <1>5 DEF Submission, Ask, Block, Prepare, Claim, ClaimRefused, MarkStarted, MarkNetwork, Send,
                Answer, CallFails, RecordTask, NoteTask, NoteRefused, Finish, FailOutbox, FailSafe,
                CrashSubmit, lane
  <1>6. ASSUME NEW j \in Jobs, Submission(j) PROVE manifest' = [k \in Lanes |-> manifest'[k]]
    <2>1. ASSUME Claim(j) \/ MarkStarted(j) \/ NoteTask(j) PROVE manifest' = [k \in Lanes |-> manifest'[k]]
      BY <1>0, <2>1 DEF Claim, Claims, MarkStarted, NoteTask
    <2>2. ASSUME ~Claim(j), ~MarkStarted(j), ~NoteTask(j) PROVE UNCHANGED manifest
      BY <1>6, <2>2 DEF Submission, Ask, Block, Prepare, ClaimRefused, MarkNetwork, Send, Answer, CallFails,
                RecordTask, NoteRefused, Finish, FailOutbox, FailSafe, CrashSubmit, lane
    <2> QED
      BY <1>0, <2>1, <2>2
  <1>7. ASSUME UNCHANGED lane PROVE Goal
    BY <1>0, <1>7 DEF lane
  <1>8. ASSUME NEW j \in Jobs, Polling(j) \/ ProviderAccepts(j) PROVE UNCHANGED lane
    BY <1>8 DEF Polling, PollRunning, PollEnds, PollFails, Poll, ProviderAccepts
  <1>9. ASSUME NEW j \in Jobs, NEW r \in {"good", "empty"}, ProviderFinishes(j, r) PROVE UNCHANGED lane
    BY <1>9 DEF ProviderFinishes
  <1>10. ASSUME NEW l \in Lanes, Commands(l) PROVE Goal
    BY <1>0, <1>1, <1>2, <1>3, <1>10
  <1>11. ASSUME NEW j \in Jobs, Submission(j) PROVE Goal
    BY <1>0, <1>5, <1>6, <1>11
  <1> HIDE DEF Goal
  <1>12. Goal
    BY <1>4, <1>7, <1>8, <1>9, <1>10, <1>11, NextCases DEF vars
  <1> QED
    BY <1>12 DEF Goal

LEMMA JobsKeepType ==
  ASSUME Inv, [Next]_vars
  PROVE  job' \in [Jobs -> [phase : HandlerPhases, lane : Lanes, round : Rounds, error : Errors]]
  <1> DEFINE J == [phase : HandlerPhases, lane : Lanes, round : Rounds, error : Errors]
  <1>0. job \in [Jobs -> J]
    BY DEF Inv, TypeOK
  <1>1. ASSUME NEW j \in Jobs, NEW phase \in HandlerPhases, Goes(j, phase) PROVE job' \in [Jobs -> J]
    BY <1>0, <1>1 DEF Goes
  <1>2. ASSUME NEW j \in Jobs, NEW e \in Errors, Fails(j, e) PROVE job' \in [Jobs -> J]
    BY <1>0, <1>2 DEF Fails, HandlerPhases
  <1>3. ASSUME NEW j \in Jobs, NEW l \in Lanes, Ask(j, l) PROVE job' \in [Jobs -> J]
    <2>1. manifest[l].round \in Rounds
      BY <1>3 DEF Ask, Inv, TypeOK, Manifest
    <2>2. [job[j] EXCEPT !.phase = "asked", !.lane = l, !.round = manifest[l].round] \in J
      BY <1>0, <2>1 DEF HandlerPhases
    <2>3. job' = [job EXCEPT ![j].phase = "asked", ![j].lane = l, ![j].round = manifest[l].round]
      BY <1>3 DEF Ask
    <2>4. job' = [job EXCEPT ![j] = [job[j] EXCEPT !.phase = "asked", !.lane = l, !.round = manifest[l].round]]
      BY <1>0, <2>3
    <2> HIDE DEF J
    <2> QED
      BY <1>0, <2>2, <2>4
  <1>4. ASSUME NEW j \in Jobs, FailSafe(j) PROVE job' \in [Jobs -> J]
    BY <1>0, <1>4 DEF FailSafe, HandlerPhases, Errors
  <1>5. ASSUME NEW j \in Jobs, Submission(j) PROVE job' \in [Jobs -> J]
    <2>1. ASSUME NEW phase \in {"asked", "prepared", "claimed", "marked", "sending", "waiting", "answered",
                                "recorded", "noted", "failed", "done"}, Goes(j, phase)
          PROVE  job' \in [Jobs -> J]
      BY <1>1, <2>1 DEF HandlerPhases
    <2>2. ASSUME Fails(j, "unready") PROVE job' \in [Jobs -> J]
      BY <1>2, <2>2 DEF Errors
    <2> HIDE DEF J
    <2> QED
      BY <1>2, <1>3, <1>4, <1>5, <2>1, <2>2
         DEF Submission, Block, Prepare, Claim, ClaimRefused, MarkStarted, MarkNetwork, Send, Answer,
             CallFails, RecordTask, NoteTask, NoteRefused, Finish, FailOutbox, CrashSubmit
  <1>6. ASSUME NEW l \in Lanes, Commands(l) \/ ChangeSource(l) PROVE UNCHANGED job
    BY <1>6 DEF Commands, Compile, CheckReserve, WriteReserve, RecordFailure, ProjectCandidate, Projects,
                WriteCandidate, Promote, WriteApproval, ReconcileApproval, Reject, Archive, WriteRound,
                CrashCommand, ChangeSource
  <1>7. ASSUME NEW j \in Jobs, Polling(j) \/ ProviderAccepts(j) PROVE UNCHANGED job
    BY <1>7 DEF Polling, PollRunning, PollEnds, PollFails, Poll, ProviderAccepts
  <1>8. ASSUME NEW j \in Jobs, NEW r \in {"good", "empty"}, ProviderFinishes(j, r) PROVE UNCHANGED job
    BY <1>8 DEF ProviderFinishes
  <1> QED
    BY <1>0, <1>5, <1>6, <1>7, <1>8, NextCases DEF vars

LEMMA FilesKeepType ==
  ASSUME Inv, [Next]_vars
  PROVE  /\ outbox' \in [Jobs -> Outbox]
         /\ safe' \in [Jobs -> Safe]
         /\ task' \subseteq Jobs /\ media' \subseteq Jobs
         /\ provider' \in [Jobs -> {"nothing", "sent", "accepted", "good", "empty"}]
  <1> DEFINE P == {"nothing", "sent", "accepted", "good", "empty"}
  <1> DEFINE Goal == /\ outbox' \in [Jobs -> Outbox] /\ safe' \in [Jobs -> Safe]
                     /\ task' \subseteq Jobs /\ media' \subseteq Jobs /\ provider' \in [Jobs -> P]
  <1>0. /\ outbox \in [Jobs -> Outbox] /\ safe \in [Jobs -> Safe]
        /\ task \subseteq Jobs /\ media \subseteq Jobs /\ provider \in [Jobs -> P]
    BY DEF Inv, TypeOK
  <1>1. ASSUME NEW j \in Jobs, outbox' = [outbox EXCEPT ![j].state = "prepared"]
                               \/ outbox' = [outbox EXCEPT ![j].state = "dispatching"]
                               \/ outbox' = [outbox EXCEPT ![j].state = "reconcile_required"]
                               \/ outbox' = [outbox EXCEPT ![j] = [state |-> "submitted", task |-> TRUE]]
        PROVE  outbox' \in [Jobs -> Outbox]
    <2>1. ASSUME NEW state \in {"prepared", "dispatching", "reconcile_required"},
                 outbox' = [outbox EXCEPT ![j].state = state]
          PROVE  outbox' \in [Jobs -> Outbox]
      BY <1>0, <2>1 DEF Outbox
    <2>2. ASSUME outbox' = [outbox EXCEPT ![j] = [state |-> "submitted", task |-> TRUE]]
          PROVE  outbox' \in [Jobs -> Outbox]
      BY <1>0, <2>2 DEF Outbox
    <2> QED
      BY <1>1, <2>1, <2>2
  <1>2. ASSUME NEW j \in Jobs, Prepare(j) \/ MarkNetwork(j) \/ FailOutbox(j) \/ RecordTask(j) PROVE Goal
    BY <1>0, <1>1, <1>2 DEF Prepare, MarkNetwork, FailOutbox, RecordTask
  <1>3. ASSUME NEW j \in Jobs, NEW s \in Safe, safe' = [safe EXCEPT ![j] = s] PROVE safe' \in [Jobs -> Safe]
    BY <1>0, <1>3
  <1>4. ASSUME NEW j \in Jobs, Block(j) \/ Finish(j) PROVE Goal
    <2>1. safe' \in [Jobs -> Safe]
      BY <1>3, <1>4 DEF Block, Finish, Safe
    <2> QED
      BY <1>0, <1>4, <2>1 DEF Block, Finish
  <1>5. ASSUME NEW j \in Jobs, FailSafe(j) PROVE Goal
    <2>1. job[j].error \in Safe
      BY DEF Inv, TypeOK, Safe
    <2> QED
      BY <1>0, <1>3, <1>5, <2>1 DEF FailSafe
  <1>6. ASSUME NEW j \in Jobs, Send(j) PROVE Goal
    BY <1>0, <1>6 DEF Send, files
  <1>7. ASSUME NEW j \in Jobs, ProviderAccepts(j) PROVE Goal
    BY <1>0, <1>7 DEF ProviderAccepts, files
  <1>8. ASSUME NEW j \in Jobs, NEW r \in {"good", "empty"}, ProviderFinishes(j, r) PROVE Goal
    BY <1>0, <1>8 DEF ProviderFinishes, files
  <1>9. ASSUME NEW j \in Jobs, Polling(j) PROVE Goal
    <2>1. safe' \in [Jobs -> Safe]
      BY <1>3, <1>9 DEF Polling, PollRunning, PollEnds, PollFails, Poll, Safe
    <2>2. media' \subseteq Jobs
      BY <1>0, <1>9 DEF Polling, PollRunning, PollEnds, PollFails
    <2> QED
      BY <1>0, <1>9, <2>1, <2>2 DEF Polling, PollRunning, PollEnds, PollFails, Poll
  <1>10. ASSUME UNCHANGED <<files, provider>> PROVE Goal
    BY <1>0, <1>10 DEF files
  <1>11. ASSUME NEW l \in Lanes, Commands(l) \/ ChangeSource(l) PROVE UNCHANGED <<files, provider>>
    BY <1>11 DEF Commands, Compile, CheckReserve, WriteReserve, RecordFailure, ProjectCandidate, Projects,
                WriteCandidate, Promote, WriteApproval, ReconcileApproval, Reject, Archive, WriteRound,
                CrashCommand, ChangeSource
  <1> HIDE DEF Goal
  <1>12. ASSUME NEW j \in Jobs, Submission(j) PROVE Goal
    BY <1>2, <1>4, <1>5, <1>6, <1>10, <1>12
       DEF Submission, Ask, Claim, ClaimRefused, MarkStarted, Answer, CallFails, NoteTask, NoteRefused, CrashSubmit
  <1>13. Goal
    BY <1>7, <1>8, <1>9, <1>10, <1>11, <1>12, NextCases DEF vars
  <1> QED
    BY <1>13 DEF Goal

LEMMA KeepsType ==
  ASSUME Inv, [Next]_vars
  PROVE  TypeOK'
  <1>0. TypeOK /\ ManifestChanges /\ GraphGrows /\ Holding'
    BY StepsChangeManifests, StepsGrowGraph, KeepsHolding DEF Inv
  <1>1. ASSUME NEW k \in Lanes
        PROVE  /\ manifest'[k] \in Manifest \cup {None} /\ history'[k] \in SUBSET Manifest
               /\ \A m \in history'[k] \cup ({manifest'[k]} \ {None}) : WellFormed(m)
    <2>1. /\ manifest[k] \in Manifest \cup {None} /\ history[k] \in SUBSET Manifest
          /\ \A m \in history[k] \cup ({manifest[k]} \ {None}) : WellFormed(m)
      BY <1>0 DEF TypeOK
    <2>2. CASE ManifestKept(k)
      BY <2>1, <2>2 DEF ManifestKept
    <2>3. ASSUME manifest'[k] \in Manifest, WellFormed(manifest'[k]),
                 IsCompiled(k) \/ IsArchived(k) \/ IsReplaced(k) \/ IsUpdated(k)
          PROVE  /\ manifest'[k] \in Manifest \cup {None} /\ history'[k] \in SUBSET Manifest
                 /\ \A m \in history'[k] \cup ({manifest'[k]} \ {None}) : WellFormed(m)
      <3>1. history'[k] \in {history[k], history[k] \cup {manifest'[k]}}
        BY <2>3 DEF IsCompiled, IsArchived, IsReplaced, IsUpdated
      <3> HIDE DEF WellFormed
      <3> QED
        BY <2>1, <2>3, <3>1
    <2> QED
      BY <1>0, <2>2, <2>3 DEF ManifestChanges, ManifestKept
  <1>2. \A k \in Lanes : command'[k] # "none" => manifest'[k] # None
    <2>1. SUFFICES ASSUME NEW k \in Lanes, command'[k] # "none" PROVE manifest'[k] # None
      OBVIOUS
    <2>2. command'[k] \in {"reserving", "recording", "approving", "switching"}
      BY <2>1, StepsTakeLocks
    <2>3. command'[k] # "switching" => manifest'[k] # None
      BY <1>0, <2>2 DEF Holding, Is
    <2>4. command'[k] = "switching" => manifest'[k] # None
      BY <1>0, <1>1, NoneIsNoManifest DEF Holding
    <2> QED
      BY <2>3, <2>4
  <1> QED
    BY <1>0, <1>1, <1>2, LanesKeepType, JobsKeepType, FilesKeepType, StepsTakeLocks
       DEF TypeOK, GraphGrows, WellFormed
-----------------------------------------------------------------------------
(* The invariant holds at first, and every step keeps it.                   *)

LEMMA InitInv ==
  ASSUME Init
  PROVE  Inv
  <1>1. TypeOK
    BY VideoConstants DEF Init, TypeOK, HandlerPhases, Rounds, Errors, Outbox, Safe, WellFormed
  <1>2. Holding /\ Archived /\ Owned /\ GraphOwned /\ LedgerShown
    BY DEF Init, Holding, Archived, Owned, GraphOwned, LedgerShown, Records
  <1>3. Submitting
    BY DEF Init, Submitting, BeforeClaim, Called
  <1> QED
    BY <1>1, <1>2, <1>3 DEF Inv

LEMMA StepInv ==
  Inv /\ [Next]_vars => Inv'
  BY KeepsType, KeepsHolding, KeepsArchived, KeepsOwned, KeepsSubmitting, KeepsGraphOwned, KeepsLedgerShown
     DEF Inv

(* Whatever commands and handlers do, and wherever they die, the manifests, *)
(* their archive, the outboxes and the graph stand as described above.      *)
THEOREM SpecInv == Spec => []Inv
  BY InitInv, StepInv, PTL DEF Spec

(* Every file has its type, and a manifest says of its job only what its    *)
(* state allows.                                                            *)
THEOREM SpecTypeOK == Spec => []TypeOK
  BY SpecInv, PTL DEF Inv

LEMMA InvOneDispatchPerRound ==
  ASSUME Inv
  PROVE  OneDispatchPerRound
  <1>1. SUFFICES ASSUME NEW i \in Jobs, NEW j \in Jobs, Called(i), Called(j),
                        LaneOf(i) = LaneOf(j), job[i].round = job[j].round
        PROVE i = j
    BY DEF OneDispatchPerRound
  <1>2. PICK l \in Lanes : l = LaneOf(i)
    BY DEF Inv, TypeOK
  <1>3. PICK m \in Records(l) : m.round = job[i].round /\ m.job = i /\ m.sent
    BY <1>1, <1>2 DEF Inv, Submitting, MarkedSent
  <1>4. PICK n \in Records(l) : n.round = job[i].round /\ n.job = j /\ n.sent
    BY <1>1, <1>2 DEF Inv, Submitting, MarkedSent
  <1>5. /\ \A a, b \in history[l] : a.round = b.round => a = b
        /\ \A a \in history[l] : a.round = manifest[l].round /\ a.job # None => a.job = manifest[l].job
    BY DEF Inv, Archived
  <1> QED
    BY <1>3, <1>4, <1>5, VideoConstants DEF Records

(* One round of one lane is sent to the provider once, whatever submissions *)
(* compete for it: the ledger names one job in each round, and the caller   *)
(* is that job.                                                             *)
THEOREM SpecOneDispatchPerRound == Spec => []OneDispatchPerRound
  BY SpecInv, InvOneDispatchPerRound, PTL

LEMMA InvCallsAreOnRecord ==
  ASSUME Inv
  PROVE  CallsAreOnRecord
  BY DEF Inv, Submitting, MarkedSent, CallsAreOnRecord, Round, Records

(* What may have been sent is on record, in the outbox of the job and in    *)
(* the present or archived manifest of its round.                           *)
THEOREM SpecCallsAreOnRecord == Spec => []CallsAreOnRecord
  BY SpecInv, InvCallsAreOnRecord, PTL

LEMMA InvGraphAgrees ==
  ASSUME Inv
  PROVE  GraphAgrees
  BY DEF Inv, GraphOwned, LedgerShown, Shown, Records, GraphAgrees

(* What the ledger shows is in the graph, and the graph shows only media    *)
(* that the submission of that very lane and round produced.                *)
THEOREM SpecGraphAgrees == Spec => []GraphAgrees
  BY SpecInv, InvGraphAgrees, PTL

LEMMA InvRoundsKept ==
  ASSUME Inv
  PROVE  RoundsKept
  <1>1. SUFFICES ASSUME NEW l \in Lanes, manifest[l] # None, NEW r \in 1 .. manifest[l].round - 1
        PROVE Cardinality({m \in history[l] : m.round = r}) = 1
    BY DEF RoundsKept
  <1>2. /\ \A a, b \in history[l] : a.round = b.round => a = b
        /\ \E m \in history[l] : m.round = r
    BY <1>1 DEF Inv, Archived
  <1>3. PICK m \in history[l] : m.round = r
    BY <1>2
  <1>4. {n \in history[l] : n.round = r} = {m}
    BY <1>2, <1>3
  <1> QED
    BY <1>4, FS_Singleton

(* Every earlier round of a lane is archived, once.                         *)
THEOREM SpecRoundsKept == Spec => []RoundsKept
  BY SpecInv, InvRoundsKept, PTL
=============================================================================
