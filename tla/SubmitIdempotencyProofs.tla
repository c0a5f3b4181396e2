---------------------- MODULE SubmitIdempotencyProofs ----------------------
(* Proofs about SubmitIdempotency, for every set of handlers and payloads   *)
(* and any number of attempts, each of which ends within its lease.         *)
EXTENDS SubmitIdempotency, TLAPS

(* The vocabulary of the state, which every leaf may expand.                *)
USE SubmitConstants, NoneIsNoFile
    DEF Attempts, At, Goes, Ends, Idle, Owns

(* A new ledger is of a fresh attempt, whose lease cannot be over.          *)
LEMMA NewLedgerIsFresh ==
  ASSUME SubmitInv, attempts < MaxAttempts,
         NEW p \in Payloads, NEW n \in Nat, NEW reclaimed \in SUBSET Attempts
  PROVE  /\ NewLedger(p, n, reclaimed) \in Ledger
         /\ NewLedger(p, n, reclaimed).attempt \notin lapsed
<1>1. attempts + 1 \in Attempts /\ attempts + 1 \notin 1 .. attempts
  BY DEF SubmitInv, TypeOK
<1>. QED BY <1>1 DEF NewLedger, Ledger, SubmitInv, LapsedWereMade

(* What complete writes, and what it has written before.                    *)
LEMMA CompletesTheReservation ==
  ASSUME SubmitInv, NEW h \in Handlers, WriteCompleted(h)
  PROVE  /\ Completed(h) \in Ledger
         /\ Completed(h).payload = handler[h].payload
         /\ response = Produced(h) /\ response \in Response
<1>1. handler[h].copy \in Ledger /\ handler[h].copy.payload = handler[h].payload
  BY DEF SubmitInv, TypeOK, HandlerState, OwnersHold, WriteCompleted
<1>2. response = Produced(h)
  BY DEF SubmitInv, OwnersHold, WriteCompleted
<1>3. handler[h].payload \in Payloads
  BY DEF SubmitInv, TypeOK, WriteCompleted
<1>4. Completed(h) \in Ledger /\ Completed(h).payload = handler[h].payload
  <2>1. (handler[h].copy.attempt \in called) \in BOOLEAN
    OBVIOUS
  <2>. QED BY <1>1, <2>1 DEF Completed, Ledger
<1>5. Produced(h) \in Response
  BY <1>1, <1>3 DEF Produced, Ledger, Response
<1>. QED BY <1>2, <1>4, <1>5

LEMMA BeginKeeps ==
  ASSUME SubmitInv, NEW h \in Handlers, NEW p \in Payloads, Begin(h, p)
  PROVE  SubmitInv'
<1>1. TypeOK'
  BY SMTT(20) DEF SubmitInv, TypeOK, Files, HandlerState, OwnersHold, ReclaimersHold, Ledger, Response, Begin, dir, past
<1>2. OneOwner'
  BY SMTT(20) DEF SubmitInv, TypeOK, HandlerState, OneOwner, OwnersHold, ReclaimersHold, Begin, dir, past
<1>3. OwnersHold'
  BY SMTT(20) DEF SubmitInv, TypeOK, HandlerState, OneOwner, OwnersHold, ReclaimersHold, LapsedWereMade, Ledger, Produced, Begin, dir, past
<1>4. ReclaimersHold'
  BY SMTT(20) DEF SubmitInv, TypeOK, HandlerState, OneOwner, OwnersHold, ReclaimersHold, Begin, dir, past
<1>5. LapsedWereMade'
  BY SMTT(20) DEF SubmitInv, TypeOK, LapsedWereMade, Begin, dir, past
<1>6. ResponseHolds'
  BY SMTT(20) DEF SubmitInv, TypeOK, HandlerState, OneOwner, OwnersHold, ReclaimersHold, ResponseHolds, Begin, dir, past
<1>. QED BY <1>1, <1>2, <1>3, <1>4, <1>5, <1>6 DEF SubmitInv

LEMMA WriteFirstLedgerKeeps ==
  ASSUME SubmitInv, NEW h \in Handlers, WriteFirstLedger(h)
  PROVE  SubmitInv'
<1>. DEFINE l == NewLedger(handler[h].payload, 1, {})
<1>1. TypeOK'
  <2>. DEFINE r == [handler[h] EXCEPT !.phase = "reserved", !.copy = l]
  <2>1. handler \in [Handlers -> HandlerState] /\ handler[h] \in HandlerState
    BY DEF SubmitInv, TypeOK
  <2>2. l \in Ledger
    BY NewLedgerIsFresh DEF SubmitInv, TypeOK, WriteFirstLedger, Reserves
  <2>3. r \in HandlerState
    BY <2>1, <2>2 DEF HandlerState
  <2>4. handler' = [handler EXCEPT ![h] = r]
    BY <2>1 DEF WriteFirstLedger, Reserves, HandlerState
  <2>5. handler' \in [Handlers -> HandlerState]
    BY <2>1, <2>3, <2>4
  <2>6. \A i \in Handlers :
          /\ At(i, "idle")' \/ handler'[i].payload \in Payloads
          /\ lock' = i <=> handler'[i].phase \in {"reclaiming", "lettered"}
    BY <2>1, SMTT(20) DEF SubmitInv, TypeOK, HandlerState, WriteFirstLedger, Reserves, past
  <2>. QED
    BY <2>2, <2>5, <2>6, SMTT(20) DEF SubmitInv, TypeOK, Files, WriteFirstLedger, Reserves, dir, past
<1>2. OneOwner'
  BY SMTT(20) DEF SubmitInv, TypeOK, HandlerState, OneOwner, OwnersHold, ReclaimersHold, WriteFirstLedger, Reserves, NewLedger, dir, past
<1>3. OwnersHold'
  <2>1. l \in Ledger /\ l.attempt \notin lapsed
    BY NewLedgerIsFresh DEF SubmitInv, TypeOK, WriteFirstLedger, Reserves
  <2>2. l # None /\ l.payload = handler[h].payload
    BY <2>1 DEF NewLedger
  <2>. HIDE DEF l
  <2>3. /\ handler'[h].phase = "reserved" /\ handler'[h].copy = l
        /\ handler'[h].payload = handler[h].payload
        /\ exists' /\ ledger' = l /\ response' = None /\ lapsed' = lapsed
    BY SMTT(20) DEF l, SubmitInv, TypeOK, HandlerState, OwnersHold, WriteFirstLedger, Reserves
  <2>4. \A i \in Handlers : Owns(i)' => i = h
    BY SMTT(20) DEF SubmitInv, TypeOK, OneOwner, WriteFirstLedger, Reserves
  <2>. QED
    BY <2>1, <2>2, <2>3, <2>4, SMTT(20) DEF OwnersHold
<1>4. ReclaimersHold'
  BY SMTT(20) DEF SubmitInv, TypeOK, HandlerState, OneOwner, OwnersHold, ReclaimersHold, WriteFirstLedger, Reserves, NewLedger, dir, past
<1>5. LapsedWereMade'
  BY SMTT(20) DEF SubmitInv, TypeOK, LapsedWereMade, WriteFirstLedger, Reserves, NewLedger, dir, past
<1>6. ResponseHolds'
  BY SMTT(20) DEF SubmitInv, TypeOK, HandlerState, OneOwner, OwnersHold, ReclaimersHold, ResponseHolds, WriteFirstLedger, Reserves, NewLedger, dir, past
<1>. QED BY <1>1, <1>2, <1>3, <1>4, <1>5, <1>6 DEF SubmitInv

LEMMA AnswerReplayKeeps ==
  ASSUME SubmitInv, NEW h \in Handlers, AnswerReplay(h)
  PROVE  SubmitInv'
<1>1. TypeOK'
  BY SMTT(20) DEF SubmitInv, TypeOK, Files, HandlerState, OwnersHold, ReclaimersHold, Ledger, Response, ResponseHolds, AnswerReplay, Locks, Replays, Conflicts, dir, past
<1>2. OneOwner'
  BY SMTT(20) DEF SubmitInv, TypeOK, HandlerState, OneOwner, OwnersHold, ReclaimersHold, AnswerReplay, Locks, Replays, Conflicts, dir, past
<1>3. OwnersHold'
  BY SMTT(20) DEF SubmitInv, TypeOK, HandlerState, OneOwner, OwnersHold, ReclaimersHold, LapsedWereMade, Ledger, Produced, AnswerReplay, Locks, Replays, Conflicts, dir, past
<1>4. ReclaimersHold'
  BY SMTT(20) DEF SubmitInv, TypeOK, HandlerState, OneOwner, OwnersHold, ReclaimersHold, AnswerReplay, Locks, Replays, Conflicts, dir, past
<1>5. LapsedWereMade'
  BY SMTT(20) DEF SubmitInv, TypeOK, LapsedWereMade, AnswerReplay, Locks, Replays, Conflicts, dir, past
<1>6. ResponseHolds'
  BY SMTT(20) DEF SubmitInv, TypeOK, HandlerState, OneOwner, OwnersHold, ReclaimersHold, ResponseHolds, AnswerReplay, Locks, Replays, Conflicts, dir, past
<1>. QED BY <1>1, <1>2, <1>3, <1>4, <1>5, <1>6 DEF SubmitInv

LEMMA AnswerRefusalKeeps ==
  ASSUME SubmitInv, NEW h \in Handlers, AnswerRefusal(h)
  PROVE  SubmitInv'
<1>1. TypeOK'
  BY SMTT(20) DEF SubmitInv, TypeOK, Files, HandlerState, OwnersHold, ReclaimersHold, Ledger, Response, AnswerRefusal, Locks, dir, past
<1>2. OneOwner'
  BY SMTT(20) DEF SubmitInv, TypeOK, HandlerState, OneOwner, OwnersHold, ReclaimersHold, AnswerRefusal, Locks, dir, past
<1>3. OwnersHold'
  BY SMTT(20) DEF SubmitInv, TypeOK, HandlerState, OneOwner, OwnersHold, ReclaimersHold, LapsedWereMade, Ledger, Produced, AnswerRefusal, Locks, dir, past
<1>4. ReclaimersHold'
  BY SMTT(20) DEF SubmitInv, TypeOK, HandlerState, OneOwner, OwnersHold, ReclaimersHold, AnswerRefusal, Locks, dir, past
<1>5. LapsedWereMade'
  BY SMTT(20) DEF SubmitInv, TypeOK, LapsedWereMade, AnswerRefusal, Locks, dir, past
<1>6. ResponseHolds'
  BY SMTT(20) DEF SubmitInv, TypeOK, HandlerState, OneOwner, OwnersHold, ReclaimersHold, ResponseHolds, AnswerRefusal, Locks, dir, past
<1>. QED BY <1>1, <1>2, <1>3, <1>4, <1>5, <1>6 DEF SubmitInv

LEMMA StartReclaimKeeps ==
  ASSUME SubmitInv, NEW h \in Handlers, StartReclaim(h)
  PROVE  SubmitInv'
<1>1. TypeOK'
  <2>. DEFINE r == [handler[h] EXCEPT !.phase = "reclaiming", !.copy = ledger]
  <2>1. handler \in [Handlers -> HandlerState] /\ handler[h] \in HandlerState
    BY DEF SubmitInv, TypeOK
  <2>2. ledger \in Ledger \cup {None}
    BY DEF SubmitInv, TypeOK
  <2>3. r \in HandlerState
    BY <2>1, <2>2 DEF HandlerState
  <2>4. handler' = [handler EXCEPT ![h] = r]
    BY <2>1 DEF StartReclaim, Locks, HandlerState
  <2>5. handler' \in [Handlers -> HandlerState]
    BY <2>1, <2>3, <2>4
  <2>6. \A i \in Handlers :
          /\ At(i, "idle")' \/ handler'[i].payload \in Payloads
          /\ lock' = i <=> handler'[i].phase \in {"reclaiming", "lettered"}
    BY <2>1, SMTT(20) DEF SubmitInv, TypeOK, HandlerState, StartReclaim, Locks, past
  <2>. QED
    BY <2>2, <2>5, <2>6, SMTT(20) DEF SubmitInv, TypeOK, Files, StartReclaim, Locks, dir, past
<1>2. OneOwner'
  BY SMTT(20) DEF SubmitInv, TypeOK, HandlerState, OneOwner, OwnersHold, ReclaimersHold, StartReclaim, Locks, Reclaims, dir, past
<1>3. OwnersHold'
  BY SMTT(20) DEF SubmitInv, TypeOK, HandlerState, OneOwner, OwnersHold, ReclaimersHold, LapsedWereMade, Ledger, Produced, StartReclaim, Locks, Reclaims, dir, past
<1>4. ReclaimersHold'
  BY SMTT(20) DEF SubmitInv, TypeOK, HandlerState, OneOwner, OwnersHold, ReclaimersHold, StartReclaim, Locks, Reclaims, dir, past
<1>5. LapsedWereMade'
  BY SMTT(20) DEF SubmitInv, TypeOK, LapsedWereMade, StartReclaim, Locks, Reclaims, dir, past
<1>6. ResponseHolds'
  BY SMTT(20) DEF SubmitInv, TypeOK, HandlerState, OneOwner, OwnersHold, ReclaimersHold, ResponseHolds, StartReclaim, Locks, Reclaims, dir, past
<1>. QED BY <1>1, <1>2, <1>3, <1>4, <1>5, <1>6 DEF SubmitInv

LEMMA WriteLetterKeeps ==
  ASSUME SubmitInv, NEW h \in Handlers, WriteLetter(h)
  PROVE  SubmitInv'
<1>1. TypeOK'
  BY SMTT(20) DEF SubmitInv, TypeOK, Files, HandlerState, OwnersHold, ReclaimersHold, Ledger, Response, WriteLetter, dir, past
<1>2. OneOwner'
  BY SMTT(20) DEF SubmitInv, TypeOK, HandlerState, OneOwner, OwnersHold, ReclaimersHold, WriteLetter, dir, past
<1>3. OwnersHold'
  BY SMTT(20) DEF SubmitInv, TypeOK, HandlerState, OneOwner, OwnersHold, ReclaimersHold, LapsedWereMade, Ledger, Produced, WriteLetter, dir, past
<1>4. ReclaimersHold'
  BY SMTT(20) DEF SubmitInv, TypeOK, HandlerState, OneOwner, OwnersHold, ReclaimersHold, WriteLetter, dir, past
<1>5. LapsedWereMade'
  BY SMTT(20) DEF SubmitInv, TypeOK, LapsedWereMade, WriteLetter, dir, past
<1>6. ResponseHolds'
  BY SMTT(20) DEF SubmitInv, TypeOK, HandlerState, OneOwner, OwnersHold, ReclaimersHold, ResponseHolds, WriteLetter, dir, past
<1>. QED BY <1>1, <1>2, <1>3, <1>4, <1>5, <1>6 DEF SubmitInv

LEMMA WriteNextLedgerKeeps ==
  ASSUME SubmitInv, NEW h \in Handlers, WriteNextLedger(h)
  PROVE  SubmitInv'
<1>1. TypeOK'
  BY SMTT(20) DEF SubmitInv, TypeOK, Files, HandlerState, OwnersHold, ReclaimersHold, Ledger, Response, WriteNextLedger, Reserves, NewLedger, dir, past
<1>2. OneOwner'
  BY SMTT(20) DEF SubmitInv, TypeOK, HandlerState, OneOwner, OwnersHold, ReclaimersHold, WriteNextLedger, Reserves, NewLedger, dir, past
<1>3. OwnersHold'
  BY SMTT(20) DEF SubmitInv, TypeOK, HandlerState, OneOwner, OwnersHold, ReclaimersHold, LapsedWereMade, Ledger, Produced, WriteNextLedger, Reserves, NewLedger, dir, past
<1>4. ReclaimersHold'
  BY SMTT(20) DEF SubmitInv, TypeOK, HandlerState, OneOwner, OwnersHold, ReclaimersHold, WriteNextLedger, Reserves, NewLedger, dir, past
<1>5. LapsedWereMade'
  BY SMTT(20) DEF SubmitInv, TypeOK, LapsedWereMade, WriteNextLedger, Reserves, NewLedger, dir, past
<1>6. ResponseHolds'
  BY SMTT(20) DEF SubmitInv, TypeOK, HandlerState, OneOwner, OwnersHold, ReclaimersHold, ResponseHolds, WriteNextLedger, Reserves, NewLedger, dir, past
<1>. QED BY <1>1, <1>2, <1>3, <1>4, <1>5, <1>6 DEF SubmitInv

LEMMA CallProviderKeeps ==
  ASSUME SubmitInv, NEW h \in Handlers, CallProvider(h)
  PROVE  SubmitInv'
<1>1. TypeOK'
  BY SMTT(20) DEF SubmitInv, TypeOK, Files, HandlerState, OwnersHold, ReclaimersHold, Ledger, Response, CallProvider, dir, past
<1>2. OneOwner'
  BY SMTT(20) DEF SubmitInv, TypeOK, HandlerState, OneOwner, OwnersHold, ReclaimersHold, CallProvider, dir, past
<1>3. OwnersHold'
  BY SMTT(20) DEF SubmitInv, TypeOK, HandlerState, OneOwner, OwnersHold, ReclaimersHold, LapsedWereMade, Ledger, Produced, CallProvider, dir, past
<1>4. ReclaimersHold'
  BY SMTT(20) DEF SubmitInv, TypeOK, HandlerState, OneOwner, OwnersHold, ReclaimersHold, CallProvider, dir, past
<1>5. LapsedWereMade'
  BY SMTT(20) DEF SubmitInv, TypeOK, LapsedWereMade, CallProvider, dir, past
<1>6. ResponseHolds'
  BY SMTT(20) DEF SubmitInv, TypeOK, HandlerState, OneOwner, OwnersHold, ReclaimersHold, ResponseHolds, CallProvider, dir, past
<1>. QED BY <1>1, <1>2, <1>3, <1>4, <1>5, <1>6 DEF SubmitInv

LEMMA WriteResponseKeeps ==
  ASSUME SubmitInv, NEW h \in Handlers, WriteResponse(h)
  PROVE  SubmitInv'
<1>1. TypeOK'
  BY SMTT(20) DEF SubmitInv, TypeOK, Files, HandlerState, OwnersHold, ReclaimersHold, Ledger, Response, WriteResponse, Produced, dir, past
<1>2. OneOwner'
  BY SMTT(20) DEF SubmitInv, TypeOK, HandlerState, OneOwner, OwnersHold, ReclaimersHold, WriteResponse, Produced, dir, past
<1>3. OwnersHold'
  BY SMTT(20) DEF SubmitInv, TypeOK, HandlerState, OneOwner, OwnersHold, ReclaimersHold, LapsedWereMade, Ledger, WriteResponse, Produced, dir, past
<1>4. ReclaimersHold'
  BY SMTT(20) DEF SubmitInv, TypeOK, HandlerState, OneOwner, OwnersHold, ReclaimersHold, WriteResponse, Produced, dir, past
<1>5. LapsedWereMade'
  BY SMTT(20) DEF SubmitInv, TypeOK, LapsedWereMade, WriteResponse, Produced, dir, past
<1>6. ResponseHolds'
  BY SMTT(20) DEF SubmitInv, TypeOK, HandlerState, OneOwner, OwnersHold, ReclaimersHold, ResponseHolds, WriteResponse, Produced, dir, past
<1>. QED BY <1>1, <1>2, <1>3, <1>4, <1>5, <1>6 DEF SubmitInv

LEMMA WriteCompletedKeeps ==
  ASSUME SubmitInv, NEW h \in Handlers, WriteCompleted(h)
  PROVE  SubmitInv'
<1>1. TypeOK'
  <2>1. Completed(h) \in Ledger /\ Produced(h) \in Response
    BY CompletesTheReservation
  <2>2. handler' \in [Handlers -> HandlerState]
    BY DEF SubmitInv, TypeOK, HandlerState, WriteCompleted
  <2>3. \A i \in Handlers :
          /\ At(i, "idle")' \/ handler'[i].payload \in Payloads
          /\ lock' = i <=> handler'[i].phase \in {"reclaiming", "lettered"}
    BY SMTT(20) DEF SubmitInv, TypeOK, HandlerState, WriteCompleted
  <2>4. told' \subseteq [asked : Payloads, got : Response]
    BY <2>1, SMTT(20) DEF SubmitInv, TypeOK, WriteCompleted
  <2>. QED
    BY <2>1, <2>2, <2>3, <2>4, SMTT(20) DEF SubmitInv, TypeOK, Files, WriteCompleted
<1>2. OneOwner'
  BY SMTT(20) DEF SubmitInv, TypeOK, HandlerState, OneOwner, OwnersHold, ReclaimersHold, WriteCompleted, Completed, dir, past
<1>3. OwnersHold'
  BY SMTT(20) DEF SubmitInv, TypeOK, HandlerState, OneOwner, OwnersHold, ReclaimersHold, LapsedWereMade, Ledger, Produced, WriteCompleted, Completed, dir, past
<1>4. ReclaimersHold'
  BY SMTT(20) DEF SubmitInv, TypeOK, HandlerState, OneOwner, OwnersHold, ReclaimersHold, WriteCompleted, Completed, dir, past
<1>5. LapsedWereMade'
  BY SMTT(20) DEF SubmitInv, TypeOK, LapsedWereMade, WriteCompleted, Completed, dir, past
<1>6. ResponseHolds'
  <2>1. /\ Completed(h) # None /\ Completed(h).payload = handler[h].payload
        /\ response = Produced(h) /\ response # None
        /\ Produced(h).payload = handler[h].payload
    BY CompletesTheReservation DEF Produced
  <2>. QED
    BY <2>1, SMTT(20) DEF SubmitInv, ResponseHolds, WriteCompleted
<1>. QED BY <1>1, <1>2, <1>3, <1>4, <1>5, <1>6 DEF SubmitInv

LEMMA StartAbortKeeps ==
  ASSUME SubmitInv, NEW h \in Handlers, StartAbort(h)
  PROVE  SubmitInv'
<1>1. TypeOK'
  <2>. DEFINE r == [handler[h] EXCEPT !.phase = "aborting", !.doomed = files]
  <2>1. handler \in [Handlers -> HandlerState] /\ handler[h] \in HandlerState
    BY DEF SubmitInv, TypeOK
  <2>2. files \in SUBSET Files
    BY DEF SubmitInv, TypeOK
  <2>3. r \in HandlerState
    BY <2>1, <2>2 DEF HandlerState
  <2>4. handler' = [handler EXCEPT ![h] = r]
    BY <2>1 DEF StartAbort, HandlerState
  <2>5. handler' \in [Handlers -> HandlerState]
    BY <2>1, <2>3, <2>4
  <2>6. \A i \in Handlers :
          /\ At(i, "idle")' \/ handler'[i].payload \in Payloads
          /\ lock' = i <=> handler'[i].phase \in {"reclaiming", "lettered"}
    BY <2>1, SMTT(20) DEF SubmitInv, TypeOK, HandlerState, StartAbort, past
  <2>. QED
    BY <2>2, <2>5, <2>6, SMTT(20) DEF SubmitInv, TypeOK, Files, StartAbort, dir, past
<1>2. OneOwner'
  BY SMTT(20) DEF SubmitInv, TypeOK, HandlerState, OneOwner, OwnersHold, ReclaimersHold, StartAbort, dir, past
<1>3. OwnersHold'
  BY SMTT(20) DEF SubmitInv, TypeOK, HandlerState, OneOwner, OwnersHold, ReclaimersHold, LapsedWereMade, Ledger, Produced, StartAbort, dir, past
<1>4. ReclaimersHold'
  BY SMTT(20) DEF SubmitInv, TypeOK, HandlerState, OneOwner, OwnersHold, ReclaimersHold, StartAbort, dir, past
<1>5. LapsedWereMade'
  BY SMTT(20) DEF SubmitInv, TypeOK, LapsedWereMade, StartAbort, dir, past
<1>6. ResponseHolds'
  BY SMTT(20) DEF SubmitInv, TypeOK, HandlerState, OneOwner, OwnersHold, ReclaimersHold, ResponseHolds, StartAbort, dir, past
<1>. QED BY <1>1, <1>2, <1>3, <1>4, <1>5, <1>6 DEF SubmitInv

LEMMA RemoveKeeps ==
  ASSUME SubmitInv, NEW h \in Handlers, NEW f \in handler[h].doomed, Remove(h, f)
  PROVE  SubmitInv'
<1>1. TypeOK'
  BY SMTT(20) DEF SubmitInv, TypeOK, Files, HandlerState, OwnersHold, ReclaimersHold, Ledger, Response, Remove, dir, past
<1>2. OneOwner'
  BY SMTT(20) DEF SubmitInv, TypeOK, HandlerState, OneOwner, OwnersHold, ReclaimersHold, Remove, dir, past
<1>3. OwnersHold'
  BY SMTT(20) DEF SubmitInv, TypeOK, HandlerState, OneOwner, OwnersHold, ReclaimersHold, LapsedWereMade, Ledger, Produced, Remove, dir, past
<1>4. ReclaimersHold'
  BY SMTT(20) DEF SubmitInv, TypeOK, HandlerState, OneOwner, OwnersHold, ReclaimersHold, Remove, dir, past
<1>5. LapsedWereMade'
  BY SMTT(20) DEF SubmitInv, TypeOK, LapsedWereMade, Remove, dir, past
<1>6. ResponseHolds'
  BY SMTT(20) DEF SubmitInv, TypeOK, HandlerState, OneOwner, OwnersHold, ReclaimersHold, ResponseHolds, Remove, dir, past
<1>. QED BY <1>1, <1>2, <1>3, <1>4, <1>5, <1>6 DEF SubmitInv

LEMMA RemoveDirKeeps ==
  ASSUME SubmitInv, NEW h \in Handlers, RemoveDir(h)
  PROVE  SubmitInv'
<1>1. TypeOK'
  BY SMTT(20) DEF SubmitInv, TypeOK, Files, HandlerState, OwnersHold, ReclaimersHold, Ledger, Response, RemoveDir, dir, past
<1>2. OneOwner'
  BY SMTT(20) DEF SubmitInv, TypeOK, HandlerState, OneOwner, OwnersHold, ReclaimersHold, RemoveDir, dir, past
<1>3. OwnersHold'
  BY SMTT(20) DEF SubmitInv, TypeOK, HandlerState, OneOwner, OwnersHold, ReclaimersHold, LapsedWereMade, Ledger, Produced, RemoveDir, dir, past
<1>4. ReclaimersHold'
  BY SMTT(20) DEF SubmitInv, TypeOK, HandlerState, OneOwner, OwnersHold, ReclaimersHold, RemoveDir, dir, past
<1>5. LapsedWereMade'
  BY SMTT(20) DEF SubmitInv, TypeOK, LapsedWereMade, RemoveDir, dir, past
<1>6. ResponseHolds'
  BY SMTT(20) DEF SubmitInv, TypeOK, HandlerState, OneOwner, OwnersHold, ReclaimersHold, ResponseHolds, RemoveDir, dir, past
<1>. QED BY <1>1, <1>2, <1>3, <1>4, <1>5, <1>6 DEF SubmitInv

LEMMA CrashKeeps ==
  ASSUME SubmitInv, NEW h \in Handlers, Crash(h)
  PROVE  SubmitInv'
<1>1. TypeOK'
  BY SMTT(20) DEF SubmitInv, TypeOK, Files, HandlerState, OwnersHold, ReclaimersHold, Ledger, Response, Crash, dir, past
<1>2. OneOwner'
  BY SMTT(20) DEF SubmitInv, TypeOK, HandlerState, OneOwner, OwnersHold, ReclaimersHold, Crash, dir, past
<1>3. OwnersHold'
  BY SMTT(20) DEF SubmitInv, TypeOK, HandlerState, OneOwner, OwnersHold, ReclaimersHold, LapsedWereMade, Ledger, Produced, Crash, dir, past
<1>4. ReclaimersHold'
  BY SMTT(20) DEF SubmitInv, TypeOK, HandlerState, OneOwner, OwnersHold, ReclaimersHold, Crash, dir, past
<1>5. LapsedWereMade'
  BY SMTT(20) DEF SubmitInv, TypeOK, LapsedWereMade, Crash, dir, past
<1>6. ResponseHolds'
  BY SMTT(20) DEF SubmitInv, TypeOK, HandlerState, OneOwner, OwnersHold, ReclaimersHold, ResponseHolds, Crash, dir, past
<1>. QED BY <1>1, <1>2, <1>3, <1>4, <1>5, <1>6 DEF SubmitInv

(* This is where attempts must be prompt.                                   *)
LEMMA LapseKeeps ==
  ASSUME Prompt, SubmitInv, NEW a \in Attempts, Lapse(a)
  PROVE  SubmitInv'
<1>1. TypeOK'
  <2>1. lapsed' \in SUBSET Attempts
    BY DEF SubmitInv, TypeOK, Lapse
  <2>2. UNCHANGED <<exists, files, ledger, response, letters, lock, handler, attempts, called, told>>
    BY DEF Lapse, dir
  <2>. QED
    BY <2>1, <2>2, ZenonT(20) DEF SubmitInv, TypeOK
<1>2. OwnersHold'
  BY SMTT(20) DEF SubmitInv, OwnersHold, Produced, Lapse, dir
<1>3. OneOwner' /\ ReclaimersHold' /\ LapsedWereMade' /\ ResponseHolds'
  BY SMTT(20) DEF SubmitInv, OneOwner, ReclaimersHold, LapsedWereMade, ResponseHolds,
                  Lapse, dir
<1>. QED BY <1>1, <1>2, <1>3 DEF SubmitInv

LEMMA InitHolds ==
  Init => SubmitInv
<1>. SUFFICES ASSUME Init PROVE SubmitInv
  OBVIOUS
<1>1. TypeOK
  <2>1. Idle \in HandlerState
    BY DEF HandlerState
  <2>2. handler \in [Handlers -> HandlerState] /\ attempts \in 0 .. MaxAttempts
    BY <2>1, SMTT(20) DEF Init
  <2>3. ASSUME NEW h \in Handlers
        PROVE  handler[h].phase = "idle" /\ lock # h
    <3>1. handler[h] = Idle /\ lock = None
      BY DEF Init
    <3>2. h # None
      OBVIOUS
    <3>. QED BY <3>1, <3>2
  <2>4. \A h \in Handlers : lock = h <=> handler[h].phase \in {"reclaiming", "lettered"}
    BY <2>3
  <2>5. files = {} /\ letters = {} /\ ledger = None /\ response = None
        /\ lapsed = {} /\ called = {} /\ told = {} /\ exists = FALSE /\ lock = None
    BY DEF Init
  <2>. QED
    BY <2>2, <2>3, <2>4, <2>5 DEF TypeOK
<1>. QED
  BY <1>1 DEF Init, SubmitInv, OneOwner, OwnersHold, ReclaimersHold, LapsedWereMade,
              ResponseHolds

LEMMA NextKeeps ==
  ASSUME Prompt, SubmitInv, [Next]_vars
  PROVE  SubmitInv'
<1>1. CASE UNCHANGED vars
  BY <1>1, SMTT(20) DEF vars, dir, past, SubmitInv, TypeOK, OneOwner, OwnersHold,
        ReclaimersHold, LapsedWereMade, ResponseHolds, Produced
<1>2. ASSUME NEW h \in Handlers, NEW p \in Payloads, Begin(h, p) PROVE SubmitInv'
  BY <1>2, BeginKeeps
<1>3. ASSUME NEW h \in Handlers,
             \/ WriteFirstLedger(h) \/ AnswerReplay(h) \/ AnswerRefusal(h)
             \/ StartReclaim(h) \/ WriteLetter(h) \/ WriteNextLedger(h)
      PROVE SubmitInv'
  BY <1>3, WriteFirstLedgerKeeps, AnswerReplayKeeps, AnswerRefusalKeeps,
     StartReclaimKeeps, WriteLetterKeeps, WriteNextLedgerKeeps
<1>4. ASSUME NEW h \in Handlers,
             \/ CallProvider(h) \/ WriteResponse(h) \/ WriteCompleted(h)
             \/ StartAbort(h) \/ RemoveDir(h) \/ Crash(h)
      PROVE SubmitInv'
  BY <1>4, CallProviderKeeps, WriteResponseKeeps, WriteCompletedKeeps,
     StartAbortKeeps, RemoveDirKeeps, CrashKeeps
<1>5. ASSUME NEW h \in Handlers, NEW f \in handler[h].doomed, Remove(h, f)
      PROVE SubmitInv'
  BY <1>5, RemoveKeeps
<1>6. ASSUME NEW a \in Attempts, Lapse(a) PROVE SubmitInv'
  BY <1>6, LapseKeeps
<1>. QED BY <1>1, <1>2, <1>3, <1>4, <1>5, <1>6 DEF Next
-----------------------------------------------------------------------------
(* The state keeps its type, and owners, reclaimers and responses are what  *)
(* their handlers take them for.                                            *)
THEOREM Invariance ==
  ASSUME Prompt
  PROVE  Spec => []SubmitInv
<1>1. SubmitInv /\ [Next]_vars => SubmitInv'
  BY NextKeeps
<1>. QED BY <1>1, InitHolds, PTL DEF Spec

(* The files, the lock and the handlers have their types and agree.         *)
THEOREM TypeCorrect ==
  ASSUME Prompt
  PROVE  Spec => []TypeOK
<1>1. SubmitInv => TypeOK
  BY DEF SubmitInv
<1>. QED BY <1>1, Invariance, PTL

(* The directory is a reservation: no two handlers hold it together.        *)
THEOREM ReservationIsExclusive ==
  ASSUME Prompt
  PROVE  Spec => []OneOwner
<1>1. SubmitInv => OneOwner
  BY DEF SubmitInv
<1>. QED BY <1>1, Invariance, PTL

(* No client is answered from another payload.                              *)
THEOREM AnswersMatchRequests ==
  ASSUME Prompt
  PROVE  Spec => []AnswersMatch
<1>1. SubmitInv => AnswersMatch
  BY DEF SubmitInv, ResponseHolds, AnswersMatch
<1>. QED BY <1>1, Invariance, PTL

(* All clients of a request are told the same.                              *)
THEOREM ClientsAgree ==
  ASSUME Prompt
  PROVE  Spec => []OneAnswer
<1>1. SubmitInv => OneAnswer
  BY DEF SubmitInv, ResponseHolds, OneAnswer
<1>. QED BY <1>1, Invariance, PTL
-----------------------------------------------------------------------------
(* What of a reservation is on record: a ledger says that it is settled, or *)
(* that provider calls started, only next to a response, and the letter of  *)
(* an attempt that is being replaced is there until its ledger is.          *)
Recorded ==
  /\ ledger # None /\ response = None => ledger.status = "reserved" /\ ~ledger.started
  /\ \A h \in Handlers : At(h, "lettered") => handler[h].copy.attempt \in letters

LEMMA LedgerMoves ==
  ASSUME SubmitInv, [Next]_vars, ledger' # None, response' = None
  PROVE  \/ UNCHANGED ledger /\ response = None
         \/ ledger'.status = "reserved" /\ ~ledger'.started
<1>1. ASSUME NEW h \in Handlers, WriteFirstLedger(h) \/ WriteNextLedger(h)
      PROVE  ledger'.status = "reserved" /\ ~ledger'.started
  BY <1>1 DEF WriteFirstLedger, WriteNextLedger, Reserves, NewLedger
<1>2. ASSUME NEW h \in Handlers, WriteCompleted(h) PROVE FALSE
  BY <1>2, CompletesTheReservation DEF WriteCompleted
<1>3. ASSUME NEW h \in Handlers, WriteResponse(h) PROVE FALSE
  BY <1>3, WriteResponseKeeps DEF WriteResponse, SubmitInv, TypeOK
<1>4. ASSUME NEW h \in Handlers, NEW f \in handler[h].doomed, Remove(h, f)
      PROVE  UNCHANGED ledger /\ response = None
  BY <1>4 DEF Remove, SubmitInv, OwnersHold
<1>5. ASSUME NEW h \in Handlers,
             \/ \E p \in Payloads : Begin(h, p)
             \/ AnswerReplay(h) \/ AnswerRefusal(h) \/ StartReclaim(h) \/ WriteLetter(h)
             \/ CallProvider(h) \/ StartAbort(h) \/ RemoveDir(h) \/ Crash(h)
      PROVE  UNCHANGED <<ledger, response>>
  BY <1>5 DEF Begin, Locks, AnswerReplay, AnswerRefusal, StartReclaim, WriteLetter, CallProvider,
              StartAbort, RemoveDir, Crash, dir
<1>6. ASSUME (\E a \in Attempts : Lapse(a)) \/ UNCHANGED vars
      PROVE  UNCHANGED <<ledger, response>>
  BY <1>6 DEF Lapse, vars, dir
<1>. QED BY <1>1, <1>2, <1>3, <1>4, <1>5, <1>6 DEF Next

LEMMA LettersStand ==
  ASSUME SubmitInv, Recorded, [Next]_vars, NEW h \in Handlers, At(h, "lettered")'
  PROVE  handler'[h].copy.attempt \in letters'
<1>0. handler \in [Handlers -> HandlerState]
  BY DEF SubmitInv, TypeOK
<1>1. ASSUME WriteLetter(h) PROVE handler'[h].copy.attempt \in letters'
  BY <1>0, <1>1 DEF WriteLetter, HandlerState
<1>2. ASSUME At(h, "lettered"), handler'[h].copy = handler[h].copy, letters \subseteq letters'
      PROVE  handler'[h].copy.attempt \in letters'
  BY <1>2 DEF Recorded
<1>3. ASSUME NEW i \in Handlers, i # h,
             \/ \E p \in Payloads : Begin(i, p)
             \/ WriteFirstLedger(i) \/ AnswerReplay(i) \/ AnswerRefusal(i)
             \/ StartReclaim(i) \/ WriteLetter(i) \/ WriteNextLedger(i)
             \/ CallProvider(i) \/ WriteResponse(i) \/ WriteCompleted(i)
             \/ StartAbort(i) \/ RemoveDir(i) \/ Crash(i)
      PROVE  handler'[h] = handler[h] /\ letters \subseteq letters'
  <2>1. CASE \/ \E p \in Payloads : Begin(i, p)
             \/ WriteFirstLedger(i) \/ StartReclaim(i) \/ WriteNextLedger(i)
    BY <1>0, <1>3, <2>1 DEF Begin, WriteFirstLedger, Reserves, Locks, StartReclaim, WriteNextLedger
  <2>2. CASE WriteLetter(i) \/ CallProvider(i) \/ WriteResponse(i)
    BY <1>0, <1>3, <2>2 DEF WriteLetter, CallProvider, WriteResponse, dir
  <2>4. CASE StartAbort(i)
    <3>1. PICK r : r = [handler[i] EXCEPT !.phase = "aborting", !.doomed = files]
      OBVIOUS
    <3>2. handler' = [handler EXCEPT ![i] = r]
      BY <1>0, <2>4, <3>1 DEF StartAbort, HandlerState
    <3>3. UNCHANGED letters
      BY <2>4 DEF StartAbort, dir
    <3>. QED BY <1>0, <1>3, <3>2, <3>3
  <2>3. CASE AnswerReplay(i) \/ AnswerRefusal(i) \/ WriteCompleted(i) \/ RemoveDir(i) \/ Crash(i)
    BY <1>0, <1>3, <2>3 DEF Locks, AnswerReplay, AnswerRefusal, WriteCompleted, RemoveDir, Crash, dir
  <2>. QED BY <1>3, <2>1, <2>2, <2>3, <2>4
<1>4. ASSUME \/ \E p \in Payloads : Begin(h, p)
             \/ WriteFirstLedger(h) \/ AnswerReplay(h) \/ AnswerRefusal(h)
             \/ StartReclaim(h) \/ WriteNextLedger(h)
             \/ CallProvider(h) \/ WriteResponse(h) \/ WriteCompleted(h)
             \/ StartAbort(h) \/ RemoveDir(h) \/ Crash(h)
      PROVE  ~At(h, "lettered")'
  <2>1. CASE \E p \in Payloads : Begin(h, p)
    BY <1>0, <2>1 DEF HandlerState, Begin
  <2>6. CASE WriteFirstLedger(h) \/ WriteNextLedger(h)
    <3>1. PICK l : Reserves(h, l)
      BY <2>6 DEF WriteFirstLedger, WriteNextLedger
    <3>. QED BY <1>0, <3>1 DEF HandlerState, Reserves
  <2>2. CASE CallProvider(h) \/ WriteResponse(h)
    BY <1>0, <1>4, <2>2 DEF HandlerState, CallProvider, WriteResponse
  <2>3. CASE AnswerReplay(h) \/ AnswerRefusal(h) \/ WriteCompleted(h) \/ RemoveDir(h) \/ Crash(h)
    BY <1>0, <1>4, <2>3 DEF AnswerReplay, AnswerRefusal, WriteCompleted, RemoveDir, Crash
  <2>4. CASE StartReclaim(h)
    <3>1. PICK r : r = [handler[h] EXCEPT !.phase = "reclaiming", !.copy = ledger]
      OBVIOUS
    <3>2. handler' = [handler EXCEPT ![h] = r] /\ r.phase = "reclaiming"
      BY <1>0, <2>4, <3>1 DEF StartReclaim, HandlerState
    <3>. QED BY <1>0, <3>2
  <2>5. CASE StartAbort(h)
    <3>1. PICK r : r = [handler[h] EXCEPT !.phase = "aborting", !.doomed = files]
      OBVIOUS
    <3>2. handler' = [handler EXCEPT ![h] = r] /\ r.phase = "aborting"
      BY <1>0, <2>5, <3>1 DEF StartAbort, HandlerState
    <3>. QED BY <1>0, <3>2
  <2>. QED BY <1>4, <2>1, <2>2, <2>3, <2>4, <2>5, <2>6
<1>5. ASSUME NEW i \in Handlers, NEW f \in handler[i].doomed, Remove(i, f) PROVE ~At(h, "lettered")'
  <2>1. ~At(h, "lettered")
    BY <1>5 DEF Remove, SubmitInv, ReclaimersHold
  <2>. QED BY <1>0, <1>5, <2>1 DEF Remove, HandlerState
<1>6. ASSUME (\E a \in Attempts : Lapse(a)) \/ UNCHANGED vars
      PROVE  UNCHANGED <<handler, letters>>
  BY <1>6 DEF Lapse, vars, dir
<1>. QED BY <1>1, <1>2, <1>3, <1>4, <1>5, <1>6 DEF Next

LEMMA RecordedKeeps ==
  ASSUME SubmitInv, Recorded, [Next]_vars
  PROVE  Recorded'
<1>1. ledger' # None /\ response' = None => ledger'.status = "reserved" /\ ~ledger'.started
  BY LedgerMoves DEF Recorded
<1>2. \A h \in Handlers : At(h, "lettered")' => handler'[h].copy.attempt \in letters'
  BY LettersStand
<1>. QED BY <1>1, <1>2 DEF Recorded

(* What is on record stands, when attempts are prompt.                      *)
THEOREM RecordsStand ==
  ASSUME Prompt
  PROVE  Spec => []Recorded
<1>1. Init => Recorded
  BY DEF Init, Recorded
<1>2. SubmitInv /\ Recorded /\ [Next]_vars => Recorded'
  BY RecordedKeeps
<1>. QED BY <1>1, <1>2, Invariance, PTL DEF Spec

(* A reservation that nobody ends is replayed or reclaimed by the next      *)
(* begin with its payload, once its lease is over.                          *)
THEOREM OrphansAreRecoverable ==
  ASSUME Prompt
  PROVE  Spec => []OrphansRecoverable
<1>1. Recorded => OrphansRecoverable
  BY DEF Recorded, OrphansRecoverable, Replays, Reclaims, Conflicts
<1>. QED BY <1>1, RecordsStand, PTL

(* The ledger passes from one attempt to another only by a reclaim.         *)
LEMMA OnlyReclaimsReplace ==
  ASSUME SubmitInv, Next, ledger # None, ledger' # None, ledger'.attempt # ledger.attempt
  PROVE  \E h \in Handlers : WriteNextLedger(h)
<1>1. ASSUME NEW h \in Handlers PROVE ~WriteFirstLedger(h)
  BY DEF WriteFirstLedger, SubmitInv, OwnersHold
<1>2. ASSUME NEW h \in Handlers, WriteCompleted(h) PROVE FALSE
  <2>1. handler[h].copy \in Ledger
    BY <1>2 DEF SubmitInv, TypeOK, HandlerState, OwnersHold, WriteCompleted
  <2>2. ledger'.attempt = handler[h].copy.attempt
    BY <1>2, <2>1 DEF WriteCompleted, Completed, Ledger
  <2>. QED BY <1>2, <2>2 DEF SubmitInv, OwnersHold, WriteCompleted
<1>3. ASSUME NEW h \in Handlers, NEW f \in handler[h].doomed, Remove(h, f) PROVE FALSE
  BY <1>3 DEF Remove
<1>4. ASSUME NEW h \in Handlers,
             \/ \E p \in Payloads : Begin(h, p)
             \/ AnswerReplay(h) \/ AnswerRefusal(h) \/ StartReclaim(h) \/ WriteLetter(h)
             \/ CallProvider(h) \/ WriteResponse(h) \/ StartAbort(h) \/ RemoveDir(h) \/ Crash(h)
      PROVE  UNCHANGED ledger
  BY <1>4 DEF Begin, Locks, AnswerReplay, AnswerRefusal, StartReclaim, WriteLetter, CallProvider,
              WriteResponse, StartAbort, RemoveDir, Crash, dir
<1>5. ASSUME NEW a \in Attempts, Lapse(a) PROVE UNCHANGED ledger
  BY <1>5 DEF Lapse, dir
<1>. QED BY <1>1, <1>2, <1>3, <1>4, <1>5 DEF Next

(* An attempt is replaced when it is over and its dead letter written, and  *)
(* the ledger that replaces it counts on and names it.                      *)
THEOREM ReplacementsAreOnRecord ==
  ASSUME Prompt
  PROVE  Spec => ReplacedHaveLetters
<1>1. ASSUME SubmitInv, Recorded, Next, ledger # None, ledger' # None,
             ledger'.attempt # ledger.attempt
      PROVE  /\ ledger.attempt \in letters'
             /\ ledger'.reclaimed = ledger.reclaimed \cup {ledger.attempt}
             /\ ledger'.number = ledger.number + 1
             /\ \A h \in Handlers : Owns(h) => handler[h].copy.attempt # ledger.attempt
  <2>1. PICK h \in Handlers : WriteNextLedger(h)
    BY <1>1, OnlyReclaimsReplace
  <2>2. /\ ledger = handler[h].copy /\ \A i \in Handlers : ~Owns(i)
        /\ handler[h].copy.attempt \in letters
    BY <1>1, <2>1 DEF WriteNextLedger, SubmitInv, ReclaimersHold, Recorded
  <2>3. UNCHANGED letters
    BY <2>1 DEF WriteNextLedger
  <2>4. ledger' = NewLedger(handler[h].payload, ledger.number + 1, ledger.reclaimed \cup {ledger.attempt})
    BY <2>1, <2>2 DEF WriteNextLedger, Reserves
  <2>. QED BY <2>2, <2>3, <2>4 DEF NewLedger
<1>2. ASSUME UNCHANGED vars PROVE UNCHANGED ledger
  BY <1>2 DEF vars, dir
<1>3. SubmitInv /\ Recorded /\ [Next]_vars =>
        [ledger # None /\ ledger' # None /\ ledger'.attempt # ledger.attempt =>
           /\ ledger.attempt \in letters'
           /\ ledger'.reclaimed = ledger.reclaimed \cup {ledger.attempt}
           /\ ledger'.number = ledger.number + 1
           /\ \A h \in Handlers : Owns(h) => handler[h].copy.attempt # ledger.attempt]_vars
  BY <1>1, <1>2
<1>. QED BY <1>3, Invariance, RecordsStand, PTL DEF Spec, ReplacedHaveLetters
=============================================================================
