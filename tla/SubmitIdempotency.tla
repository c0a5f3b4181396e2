-------------------------- MODULE SubmitIdempotency --------------------------
(***************************************************************************)
(* The submission of a generation request (runtime_submit_idempotency.py   *)
(* and the routes that use it): one directory per project, action and      *)
(* request id, with a ledger, a response, dead letters and lock files.     *)
(* Directories do not interact; this is one of them.                       *)
(*                                                                         *)
(* Only the part of begin after a FileExistsError holds a lock.  Making    *)
(* the directory, writing the first ledger, completing and aborting do     *)
(* not, and each is more than one step on the file system.  A write makes  *)
(* the directory when it is missing, and so does taking the lock.          *)
(***************************************************************************)
EXTENDS Naturals

CONSTANTS Handlers,     \* request handlers, of any process
          Payloads,     \* request payloads, told apart by their fingerprint
          None,         \* no ledger, no response, no handler
          Prompt,       \* whether every attempt ends within its lease
          MayCrash,     \* whether handlers may end without complete or abort
          MaxAttempts   \* bound: attempts made

ASSUME SubmitConstants ==
  /\ None \notin Handlers \cup Payloads
  /\ Prompt \in BOOLEAN /\ MayCrash \in BOOLEAN
  /\ MaxAttempts \in Nat

VARIABLES
  exists,    \* the directory is there
  files,     \* its files that matter only for being there
  ledger,    \* ledger.json
  response,  \* response.json
  letters,   \* the attempts with a file in dlq
  lock,      \* the handler that holds ledger.transaction.lock over two writes
  handler,   \* what each handler does
  attempts,  \* attempts made, which name them
  lapsed,    \* the attempts whose lease has expired
  called,    \* the attempts that called a provider
  told       \* the responses clients got: who asked for what, and got which

dir  == <<exists, files, ledger, response, letters>>
past == <<attempts, lapsed, called, told>>
vars == <<dir, lock, handler, past>>
-----------------------------------------------------------------------------
Attempts == 1 .. MaxAttempts

(* A response is known by the attempt that produced it.                     *)
Response == [attempt : Attempts, payload : Payloads]

Ledger == [payload : Payloads, status : {"reserved", "completed"}, attempt : Attempts,
           number : Nat, started : BOOLEAN, reclaimed : SUBSET Attempts]

ASSUME NoneIsNoFile == None \notin Ledger /\ None \notin Response

Files == {"ledger", "response", "dlq", "locks"}

(* copy is the ledger in the reservation, doomed the files to be removed.   *)
HandlerState == [phase : {"idle", "found", "made", "reclaiming", "lettered",
                          "reserved", "working", "responded", "aborting"},
                 payload : Payloads \cup {None}, copy : Ledger \cup {None},
                 doomed : SUBSET Files]

Idle == [phase |-> "idle", payload |-> None, copy |-> None, doomed |-> {}]

At(h, phase) == handler[h].phase = phase
Goes(h, phase) == handler' = [handler EXCEPT ![h].phase = phase]
Ends(h) == handler' = [handler EXCEPT ![h] = Idle]

(* A handler with a reservation that complete or abort has not ended yet.   *)
Owns(h) == handler[h].phase \in {"made", "reserved", "working", "responded", "aborting"}

NewLedger(p, number, reclaimed) ==
  [payload |-> p, status |-> "reserved", attempt |-> attempts + 1,
   number |-> number, started |-> FALSE, reclaimed |-> reclaimed]

Reserves(h, l) ==
  /\ attempts < MaxAttempts
  /\ attempts' = attempts + 1
  /\ ledger' = l
  /\ exists' = TRUE
  /\ files' = files \cup {"ledger", "locks"}
  /\ handler' = [handler EXCEPT ![h].phase = "reserved", ![h].copy = l]

Init ==
  /\ exists = FALSE /\ files = {} /\ ledger = None /\ response = None /\ letters = {}
  /\ lock = None
  /\ handler = [h \in Handlers |-> Idle]
  /\ attempts = 0 /\ lapsed = {} /\ called = {} /\ told = {}
-----------------------------------------------------------------------------
(* begin_submit_idempotency: mkdir succeeds, or tells that there is one.    *)
Begin(h, p) ==
  /\ At(h, "idle")
  /\ exists' = TRUE
  /\ handler' = [handler EXCEPT ![h].payload = p,
                                ![h].phase = IF exists THEN "found" ELSE "made"]
  /\ UNCHANGED <<files, ledger, response, letters, lock, past>>

WriteFirstLedger(h) ==
  /\ At(h, "made")
  /\ Reserves(h, NewLedger(handler[h].payload, 1, {}))
  /\ UNCHANGED <<response, letters, lock, lapsed, called, told>>

(* What the handler that has the lock makes of the directory it finds.  No  *)
(* ledger, or one that cannot be read, conflicts with nothing.              *)
NeverConflicts(p) == FALSE

Conflicts(p) == ledger # None /\ ledger.payload # p

Replays(p) == ~Conflicts(p) /\ response # None

(* Faulty begins could reclaim what is at work, or what was answered.       *)
ReclaimsRunning(p) ==
  /\ ~Conflicts(p) /\ response = None /\ ledger # None
  /\ ~ledger.started /\ ledger.payload = p /\ ledger.status = "reserved"

ReclaimsAnswered(p) ==
  /\ ~Conflicts(p) /\ ledger # None
  /\ ~ledger.started /\ ledger.payload = p /\ ledger.status = "reserved"
  /\ ledger.attempt \in lapsed

Reclaims(p) ==
  /\ ~Conflicts(p) /\ response = None /\ ledger # None
  /\ ~ledger.started /\ ledger.payload = p /\ ledger.status = "reserved"
  /\ ledger.attempt \in lapsed

Locks(h) ==
  /\ At(h, "found") /\ lock = None
  /\ exists' = TRUE
  /\ files' = files \cup {"locks"}
  /\ UNCHANGED <<ledger, response, letters>>

AnswerReplay(h) ==
  /\ Locks(h) /\ Replays(handler[h].payload)
  /\ told' = told \cup {[asked |-> handler[h].payload, got |-> response]}
  /\ Ends(h)
  /\ UNCHANGED <<lock, attempts, lapsed, called>>

(* 409: another payload, or a reservation that is no one's to reclaim yet.  *)
AnswerRefusal(h) ==
  /\ Locks(h)
  /\ ~Replays(handler[h].payload) /\ ~Reclaims(handler[h].payload)
  /\ Ends(h)
  /\ UNCHANGED <<lock, past>>

StartReclaim(h) ==
  /\ Locks(h) /\ Reclaims(handler[h].payload)
  /\ lock' = h
  /\ handler' = [handler EXCEPT ![h].phase = "reclaiming", ![h].copy = ledger]
  /\ UNCHANGED past

(* A faulty reclaim could leave no dead letter, or not give the lock back.  *)
WritesNoLetter(h) ==
  /\ At(h, "reclaiming")
  /\ Goes(h, "lettered")
  /\ UNCHANGED <<dir, lock, past>>

WriteLetter(h) ==
  /\ At(h, "reclaiming")
  /\ exists' = TRUE
  /\ files' = files \cup {"locks", "dlq"}
  /\ letters' = letters \cup {handler[h].copy.attempt}
  /\ Goes(h, "lettered")
  /\ UNCHANGED <<ledger, response, lock, past>>

KeepsTheLock(h) ==
  /\ At(h, "lettered")
  /\ LET old == handler[h].copy
     IN  Reserves(h, NewLedger(handler[h].payload, old.number + 1,
                               old.reclaimed \cup {old.attempt}))
  /\ UNCHANGED <<response, letters, lock, lapsed, called, told>>

WriteNextLedger(h) ==
  /\ At(h, "lettered")
  /\ LET old == handler[h].copy
     IN  Reserves(h, NewLedger(handler[h].payload, old.number + 1,
                               old.reclaimed \cup {old.attempt}))
  /\ lock' = None
  /\ UNCHANGED <<response, letters, lapsed, called, told>>
-----------------------------------------------------------------------------
(* The route does its work, which calls a provider or is blocked before.    *)
CallProvider(h) ==
  /\ At(h, "reserved")
  /\ called' = called \cup {handler[h].copy.attempt}
  /\ Goes(h, "working")
  /\ UNCHANGED <<dir, lock, attempts, lapsed, told>>

(* complete_submit_idempotency writes the response, then the ledger, as it  *)
(* was in the reservation.                                                  *)
Completed(h) ==
  [handler[h].copy EXCEPT !.status = "completed",
                          !.started = handler[h].copy.attempt \in called]

Produced(h) == [attempt |-> handler[h].copy.attempt, payload |-> handler[h].payload]

(* A faulty completion could write the ledger before the response.          *)
WritesLedgerFirst(h) ==
  /\ handler[h].phase \in {"reserved", "working"}
  /\ ledger' = Completed(h)
  /\ exists' = TRUE /\ files' = files \cup {"ledger", "locks"}
  /\ Goes(h, "responded")
  /\ UNCHANGED <<response, letters, lock, past>>

WriteResponse(h) ==
  /\ handler[h].phase \in {"reserved", "working"}
  /\ response' = Produced(h)
  /\ exists' = TRUE /\ files' = files \cup {"response", "locks"}
  /\ Goes(h, "responded")
  /\ UNCHANGED <<ledger, letters, lock, past>>

WriteCompleted(h) ==
  /\ At(h, "responded")
  /\ ledger' = Completed(h)
  /\ exists' = TRUE /\ files' = files \cup {"ledger", "locks"}
  /\ told' = told \cup {[asked |-> handler[h].payload, got |-> Produced(h)]}
  /\ Ends(h)
  /\ UNCHANGED <<response, letters, lock, attempts, lapsed, called>>

(* abort_submit_idempotency, after a ValueError: rmtree lists the files,    *)
(* removes those and then the directory, if it is empty by then.            *)
StartAbort(h) ==
  /\ handler[h].phase \in {"reserved", "working"}
  /\ handler' = [handler EXCEPT ![h].phase = "aborting", ![h].doomed = files]
  /\ UNCHANGED <<dir, lock, past>>

Remove(h, f) ==
  /\ At(h, "aborting") /\ f \in handler[h].doomed
  /\ files' = files \ {f}
  /\ ledger'   = IF f = "ledger" THEN None ELSE ledger
  /\ response' = IF f = "response" THEN None ELSE response
  /\ letters'  = IF f = "dlq" THEN {} ELSE letters
  /\ handler' = [handler EXCEPT ![h].doomed = @ \ {f}]
  /\ UNCHANGED <<exists, lock, past>>

RemoveDir(h) ==
  /\ At(h, "aborting") /\ handler[h].doomed = {}
  /\ exists' = (files # {})
  /\ Ends(h)
  /\ UNCHANGED <<files, ledger, response, letters, lock, past>>

(* The process dies, or an exception no route expects ends the handler.     *)
Crash(h) ==
  /\ MayCrash
  /\ ~At(h, "idle")
  /\ Ends(h)
  /\ lock' = IF lock = h THEN None ELSE lock
  /\ UNCHANGED <<dir, past>>

(* Fifteen minutes pass.                                                    *)
Lapse(a) ==
  /\ a \in 1 .. attempts /\ a \notin lapsed
  /\ Prompt => \A h \in Handlers :
                 Owns(h) /\ handler[h].copy # None => handler[h].copy.attempt # a
  /\ lapsed' = lapsed \cup {a}
  /\ UNCHANGED <<dir, lock, handler, attempts, called, told>>

Next ==
  \/ \E h \in Handlers :
       \/ \E p \in Payloads : Begin(h, p)
       \/ WriteFirstLedger(h)
       \/ AnswerReplay(h) \/ AnswerRefusal(h)
       \/ StartReclaim(h) \/ WriteLetter(h) \/ WriteNextLedger(h)
       \/ CallProvider(h) \/ WriteResponse(h) \/ WriteCompleted(h)
       \/ StartAbort(h) \/ RemoveDir(h) \/ Crash(h)
       \/ \E f \in handler[h].doomed : Remove(h, f)
  \/ \E a \in Attempts : Lapse(a)

Spec == Init /\ [][Next]_vars
-----------------------------------------------------------------------------
(* The type of the state: what a file holds agrees with its being there,    *)
(* and the lock is held exactly by the handler that reclaims.               *)
TypeOK ==
  /\ exists \in BOOLEAN
  /\ files \subseteq Files /\ (files # {} => exists)
  /\ ledger \in Ledger \cup {None} /\ (ledger # None <=> "ledger" \in files)
  /\ response \in Response \cup {None} /\ (response # None <=> "response" \in files)
  /\ letters \subseteq Attempts /\ (letters # {} <=> "dlq" \in files)
  /\ handler \in [Handlers -> HandlerState]
  /\ \A h \in Handlers : At(h, "idle") \/ handler[h].payload \in Payloads
  /\ \A h \in Handlers : lock = h <=> handler[h].phase \in {"reclaiming", "lettered"}
  /\ lock \in Handlers \cup {None}
  /\ attempts \in 0 .. MaxAttempts
  /\ lapsed \subseteq Attempts /\ called \subseteq Attempts
  /\ told \subseteq [asked : Payloads, got : Response]

(* The directory is a reservation: two handlers never work on one request   *)
(* at the same time, however begins, aborts, reclaims and deaths fall       *)
(* together, provided attempts end within their lease.                      *)
OneOwner == \A h, i \in Handlers : Owns(h) /\ Owns(i) => h = i

(* A client is never answered with what was generated from another payload  *)
(* sent under the same request id.                                          *)
AnswersMatch == \A t \in told : t.got.payload = t.asked

(* All clients of a request are told the same, also those answered by the   *)
(* attempt itself and those that retried after a completion cut short.      *)
OneAnswer == \A t, u \in told : t.got = u.got

(* An attempt is replaced only when it is over and its dead letter written, *)
(* and the ledger that replaces it counts on and names it.                  *)
ReplacedHaveLetters ==
  [][ledger # None /\ ledger' # None /\ ledger'.attempt # ledger.attempt =>
       /\ ledger.attempt \in letters'
       /\ ledger'.reclaimed = ledger.reclaimed \cup {ledger.attempt}
       /\ ledger'.number = ledger.number + 1
       /\ \A h \in Handlers : Owns(h) => handler[h].copy.attempt # ledger.attempt]_vars

(* A reservation that has a ledger and nobody to end it is not lost: once   *)
(* its lease is over, the next begin with its payload replays or reclaims.  *)
OrphansRecoverable ==
  /\ ledger # None /\ ledger.attempt \in lapsed
  /\ \A h \in Handlers : At(h, "idle") \/ At(h, "found")
  => Replays(ledger.payload) \/ Reclaims(ledger.payload)

(* The tests: a stale attempt that started provider calls is not reclaimed. *)
(* Its dead letter would say that it made none.                             *)
StartedNotReclaimed == letters \cap called = {}
-----------------------------------------------------------------------------
(* The inductive invariant that OneOwner, AnswersMatch and OneAnswer follow *)
(* from when attempts are prompt.  Its parts after the type:                *)
(* what an owner may rely on;                                               *)
OwnersHold ==
  \A h \in Handlers : Owns(h) =>
    /\ exists
    /\ At(h, "made") => ledger = None /\ handler[h].copy = None
    /\ ~At(h, "made") =>
         /\ handler[h].copy # None
         /\ handler[h].copy.attempt \notin lapsed
         /\ handler[h].copy.payload = handler[h].payload
         /\ ledger # None => /\ ledger.attempt = handler[h].copy.attempt
                             /\ ledger.payload = handler[h].payload
    /\ handler[h].phase \in {"reserved", "working", "responded"} => ledger # None
    /\ IF At(h, "responded") THEN response = Produced(h) ELSE response = None

(* what a handler that reclaims may rely on;                                *)
ReclaimersHold ==
  \A h \in Handlers : handler[h].phase \in {"reclaiming", "lettered"} =>
    /\ exists /\ response = None
    /\ handler[h].copy # None /\ ledger = handler[h].copy
    /\ ledger.payload = handler[h].payload
    /\ \A i \in Handlers : ~Owns(i)

(* leases end only of attempts that were made;                              *)
LapsedWereMade == lapsed \subseteq 1 .. attempts

(* and a response never goes away, nor the fingerprint it belongs to.       *)
ResponseHolds ==
  /\ response # None => ledger # None /\ ledger.payload = response.payload
  /\ \A t \in told : t.got = response /\ t.asked = response.payload

SubmitInv ==
  TypeOK /\ OneOwner /\ OwnersHold /\ ReclaimersHold /\ LapsedWereMade /\ ResponseHolds
=============================================================================
